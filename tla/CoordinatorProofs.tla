------------------------- MODULE CoordinatorProofs -------------------------
(***************************************************************************)
(* Safety of Coordinator for every set of workers and jobs, every          *)
(* capacity, priority, threshold and retry limit, and however many crashes *)
(* and late heartbeats there are: first what holds of the variables one by *)
(* one (IInv), then how many copies of a job there are and where, what the *)
(* load of a worker counts, and that without faults the coordinator        *)
(* implements the lifecycle of a job.                                      *)
(***************************************************************************)
EXTENDS Coordinator, BreakerProofs, SequenceTheorems, FiniteSetTheorems,
        WellFoundedInduction

-----------------------------------------------------------------------------
(* Sequences *)

\* Taking an element out of a sequence, as the queue and a worker do, leaves a
\* sequence over the same set.
LEMMA RemoveAtType ==
    ASSUME NEW S, NEW s \in Seq(S), NEW i \in 1 .. Len(s)
    PROVE  RemoveAt(s, i) \in Seq(S)
BY DEF RemoveAt

\* A nonempty set of numbers has a least element.
LEMMA LeastExists ==
    ASSUME NEW T \in SUBSET Nat, T # {}
    PROVE  \E m \in T : \A n \in T : m <= n
<1>1. PICK m \in T : \A n \in T : ~(<<n, m>> \in OpToRel(<, Nat))
  BY NatLessThanWellFounded, WFMin
<1>2. \A n \in T : ~(n < m)
  BY <1>1 DEF OpToRel
<1> QED
  BY <1>2

-----------------------------------------------------------------------------
(* The queue *)

\* The copy on top of a nonempty queue is one of its entries, no entry has a
\* smaller key, and those with the same key were added later: get_next_job
\* returns the oldest job of the most urgent priority.
LEMMA TopOfQueue ==
    ASSUME queue \in Seq(Copy), queue # <<>>
    PROVE  /\ Top \in DOMAIN queue
           /\ \A k \in DOMAIN queue :
                 \/ Key(queue[Top]) < Key(queue[k])
                 \/ Key(queue[Top]) = Key(queue[k]) /\ Top <= k
<1>1. \A k \in DOMAIN queue : k \in Nat /\ Key(queue[k]) \in Nat
  <2>1. \A k \in DOMAIN queue : k \in Nat /\ queue[k] \in Copy
    BY LenProperties, ElementOfSeq
  <2>2. \A c \in Copy : Key(c) \in Nat
    BY PriorityAssumption DEF Key, Copy, Medium
  <2> QED
    BY <2>1, <2>2
<1>2. DOMAIN queue # {}
  <2>1. Len(queue) \in Nat \ {0} /\ DOMAIN queue = 1 .. Len(queue)
    BY LenProperties, EmptySeq
  <2>2. 1 \in DOMAIN queue
    BY <2>1
  <2> QED
    BY <2>2
<1> DEFINE Keys == {Key(queue[k]) : k \in DOMAIN queue}
<1>3. PICK m \in Keys : \A n \in Keys : m <= n
  <2>1. Keys \in SUBSET Nat /\ Keys # {}
    BY <1>1, <1>2
  <2> QED
    BY <2>1, LeastExists
<1> DEFINE Firsts == {k \in DOMAIN queue : Key(queue[k]) = m}
<1>4. PICK i \in Firsts : \A k \in Firsts : i <= k
  <2>1. Firsts \in SUBSET Nat /\ Firsts # {}
    BY <1>1, <1>3
  <2> QED
    BY <2>1, LeastExists
<1>5. /\ i \in DOMAIN queue /\ Key(queue[i]) = m
      /\ \A k \in DOMAIN queue : Key(queue[k]) = m => i <= k
  BY <1>4
<1>6. \A k \in DOMAIN queue : m <= Key(queue[k]) /\ m \in Nat
  BY <1>1, <1>3
<1>7. \A k \in DOMAIN queue : \/ Key(queue[i]) < Key(queue[k])
                              \/ Key(queue[i]) = Key(queue[k]) /\ i <= k
  <2> HIDE DEF Keys, Firsts
  <2> QED
    BY <1>1, <1>5, <1>6
<1> HIDE DEF Keys, Firsts
<1> QED
  BY <1>5, <1>7 DEF Top

-----------------------------------------------------------------------------
(* The event bus *)

\* The handlers that the subscriptions of CoordinatorService name.
LEMMA Handlers ==
    /\ Handler = {"handle_register", "persist_worker", "handle_job_submitted",
                  "persist_task", "send_to_worker", "persist_task_assigned",
                  "handle_job_completed", "persist_task_completed",
                  "handle_task_failed", "handle_worker_failure",
                  "handle_worker_failed"}
    /\ JobEvents = {"handle_job_submitted", "persist_task"}
    /\ WorkerEvents = {"handle_register", "persist_worker",
                       "handle_worker_failure", "handle_worker_failed"}
BY DEF Handler, JobEvents, WorkerEvents, Subscriptions

\* The inboxes have their type.
InboxOK ==
    /\ inbox \in [Handler -> UNION {Seq(EventFor(h)) : h \in Handler}]
    /\ \A h \in Handler : inbox[h] \in Seq(EventFor(h))

\* Publishing an event with the fields its subscribers read keeps the type.
LEMMA PublishType ==
    ASSUME InboxOK, NEW topic, NEW e, Publish(topic, e),
           \A h \in Handler \cap Subscriptions[topic] : e \in EventFor(h)
    PROVE  InboxOK'
<1>1. \A h \in Handler : inbox'[h] \in Seq(EventFor(h))
  <2> SUFFICES ASSUME NEW h \in Handler
               PROVE  inbox'[h] \in Seq(EventFor(h))
    OBVIOUS
  <2>1. inbox[h] \in Seq(EventFor(h))
    BY DEF InboxOK
  <2>2. CASE h \in Subscriptions[topic]
    <3>1. inbox'[h] = Append(inbox[h], e)
      BY <2>2 DEF Publish
    <3>2. e \in EventFor(h)
      BY <2>2
    <3> QED
      BY <2>1, <3>1, <3>2
  <2>3. CASE h \notin Subscriptions[topic]
    BY <2>1, <2>3 DEF Publish
  <2> QED
    BY <2>2, <2>3
<1>2. DOMAIN inbox' = Handler /\ inbox' = [h \in Handler |-> inbox'[h]]
  BY DEF Publish
<1> QED
  BY <1>1, <1>2 DEF InboxOK

\* Taking the first event out of an inbox keeps the type, and that event has
\* the fields its handler reads.
LEMMA ConsumeType ==
    ASSUME InboxOK, NEW h \in Handler, inbox[h] # <<>>
    PROVE  /\ First(h) \in EventFor(h)
           /\ inbox' = [inbox EXCEPT ![h] = Tail(@)] => InboxOK'
<1>1. inbox[h] \in Seq(EventFor(h))
  BY DEF InboxOK
<1>2. First(h) \in EventFor(h) /\ Tail(inbox[h]) \in Seq(EventFor(h))
  BY <1>1 DEF First
<1>3. ASSUME inbox' = [inbox EXCEPT ![h] = Tail(@)]
      PROVE  InboxOK'
  <2>1. \A k \in Handler : inbox'[k] = IF k = h THEN Tail(inbox[h]) ELSE inbox[k]
    BY <1>3 DEF InboxOK
  <2>2. \A k \in Handler : inbox'[k] \in Seq(EventFor(k))
    BY <1>2, <2>1 DEF InboxOK
  <2>3. DOMAIN inbox' = Handler /\ inbox' = [k \in Handler |-> inbox'[k]]
    BY <1>3 DEF InboxOK
  <2> QED
    BY <2>2, <2>3 DEF InboxOK
<1> QED
  BY <1>2, <1>3

-----------------------------------------------------------------------------
(* The invariant *)

\* What TypeOK says of the variables other than inbox and stage, in the groups
\* the actions change together.
RegOK ==
    /\ registered \subseteq Worker
    /\ before \subseteq Worker \X Worker
    /\ load \in [Worker -> Nat]
    /\ fresh \in [Worker -> BOOLEAN]

DbOK ==
    /\ requeue \subseteq Job
    /\ online \in BOOLEAN
    /\ workerRows \subseteq Worker
    /\ row \in [Job -> RowStatus]
    /\ holder \in [Job -> Worker \cup {None}]

CountsOK ==
    /\ tracker \in [Job -> Nat]
    /\ dlq \in [Job -> Nat]
    /\ unsent \subseteq Job
    /\ finished \in [Job -> Nat]
    /\ failovers \in [Job -> Nat]
    /\ crashes \in Nat
    /\ silences \in Nat

NodesOK ==
    /\ alive \subseteq Worker
    /\ tasks \in [Worker -> Seq(Copy)]
    /\ beats \in [Worker -> Nat]

\* The pass of the assigner: the workers it looks at had capacity left and,
\* since nobody else increments a load, still have; the queue it found nonempty
\* still is; the worker it has chosen has room until the load is incremented.
PassOK ==
    /\ assigner.pc # "check" => assigner.todo = {} /\ assigner.cand = {}
    /\ assigner.pc = "check" =>
          /\ queue # <<>>
          /\ \A w \in assigner.todo \cup assigner.cand : load[w] < Capacity[w]
    /\ Holding => assigner.worker \in Worker /\ assigner.job \in Copy
    /\ assigner.pc = "increment" => load[assigner.worker] < Capacity[assigner.worker]

AssignerOK ==
    assigner \in [pc : {"idle", "check", "increment", "publish"},
                 todo : SUBSET Worker, cand : SUBSET Worker,
                 before : SUBSET (Worker \X Worker),
                 worker : Worker \cup {None}, job : Copy \cup {None}]

BreakersOK ==
    /\ breaker \in [Worker -> BreakerType]
    /\ BreakersWellFormed

BusOK == InboxOK /\ stage \in [Handler -> 0 .. 2]

LoadsOK == RegOK /\ LoadWithinCapacity

\* A job enters the dead letter queue at each failure after MaxRetries retries
\* and at no other, whichever copies of it fail.
BuriedAfterRetries ==
    \A j \in Job : dlq[j] = IF tracker[j] > MaxRetries
                             THEN tracker[j] - MaxRetries ELSE 0

RetriesOK == CountsOK /\ BuriedAfterRetries

IInv ==
    /\ TypeOK
    /\ PassOK
    /\ LoadWithinCapacity
    /\ BreakersWellFormed
    /\ BuriedAfterRetries

-----------------------------------------------------------------------------
(* The initial states *)

LEMMA InitInv == Init => IInv
<1> SUFFICES ASSUME Init PROVE IInv
  OBVIOUS
<1>1. InboxOK
  <2>1. \A h \in Handler : inbox[h] = <<>>
    BY DEF Init
  <2>2. \A h \in Handler : inbox[h] \in Seq(EventFor(h))
    BY <2>1, EmptySeq
  <2> QED
    BY <2>2 DEF InboxOK, Init
<1>2. TypeOK
  <2>1. /\ stage \in [Handler -> 0 .. 2]
        /\ queue \in Seq(Copy)
        /\ AssignerOK
    BY EmptySeq DEF Init, Idle, AssignerOK
  <2>2. RegOK /\ DbOK /\ CountsOK
    BY StoreAssumption DEF Init, RegOK, DbOK, CountsOK, RowStatus
  <2>3. NodesOK
    BY EmptySeq DEF Init, NodesOK
  <2>4. breaker \in [Worker -> BreakerType]
    BY DEF Init, NewBreaker, BreakerType, BreakerState
  <2> QED
    BY <1>1, <2>1, <2>2, <2>3, <2>4
    DEF TypeOK, InboxOK, AssignerOK, RegOK, DbOK, CountsOK, NodesOK
<1>3. PassOK
  BY DEF Init, Idle, PassOK, Holding
<1>4. LoadWithinCapacity
  BY CapacityAssumption DEF Init, LoadWithinCapacity
<1>5. BreakersWellFormed
  BY ThresholdAssumption DEF Init, BreakersWellFormed, WellFormed, NewBreaker
<1>6. BuriedAfterRetries
  BY MaxRetriesAssumption DEF Init, BuriedAfterRetries
<1> QED
  BY <1>2, <1>3, <1>4, <1>5, <1>6 DEF IInv

-----------------------------------------------------------------------------
(* The steps *)

\* The parts of the invariant, each over variables that change together.
LEMMA Parts ==
    IInv <=> /\ BusOK
             /\ queue \in Seq(Copy)
             /\ LoadsOK
             /\ BreakersOK
             /\ AssignerOK
             /\ PassOK
             /\ DbOK
             /\ RetriesOK
             /\ NodesOK
BY DEF IInv, TypeOK, BusOK, InboxOK, LoadsOK, RegOK, BreakersOK, AssignerOK,
       DbOK, RetriesOK, CountsOK, NodesOK

\* The same of the next state.
LEMMA PartsNext ==
    IInv' <=> /\ BusOK'
              /\ (queue \in Seq(Copy))'
              /\ LoadsOK'
              /\ BreakersOK'
              /\ AssignerOK'
              /\ PassOK'
              /\ DbOK'
              /\ RetriesOK'
              /\ NodesOK'
BY DEF IInv, TypeOK, BusOK, InboxOK, LoadsOK, RegOK, BreakersOK, AssignerOK,
       DbOK, RetriesOK, CountsOK, NodesOK

\* A part holds after a step that leaves its variables alone.
LEMMA Frame ==
    ASSUME IInv
    PROVE  /\ UNCHANGED busVars => BusOK'
           /\ UNCHANGED queue => (queue \in Seq(Copy))'
           /\ UNCHANGED regVars => LoadsOK'
           /\ UNCHANGED breaker => BreakersOK'
           /\ UNCHANGED assigner => AssignerOK'
           /\ UNCHANGED <<assigner, queue, load>> => PassOK'
           /\ UNCHANGED <<requeue, dbVars>> => DbOK'
           /\ UNCHANGED <<retryVars, unsent, finished, failovers, crashes,
                         silences>> => RetriesOK'
           /\ UNCHANGED nodeVars => NodesOK'
<1>1. UNCHANGED busVars => BusOK'
  BY Parts DEF busVars, BusOK, InboxOK
<1>2. UNCHANGED queue => (queue \in Seq(Copy))'
  BY Parts
<1>3. UNCHANGED regVars => LoadsOK'
  BY Parts DEF regVars, LoadsOK, RegOK, LoadWithinCapacity
<1>4. UNCHANGED breaker => BreakersOK'
  BY Parts DEF BreakersOK, BreakersWellFormed
<1>5. UNCHANGED assigner => AssignerOK'
  BY Parts DEF AssignerOK
<1>6. UNCHANGED <<assigner, queue, load>> => PassOK'
  BY Parts DEF PassOK, Holding
<1>7. UNCHANGED <<requeue, dbVars>> => DbOK'
  BY Parts DEF dbVars, DbOK
<1>8. UNCHANGED <<retryVars, unsent, finished, failovers, crashes, silences>>
        => RetriesOK'
  BY Parts DEF retryVars, RetriesOK, CountsOK, BuriedAfterRetries
<1>9. UNCHANGED nodeVars => NodesOK'
  BY Parts DEF nodeVars, NodesOK
<1> QED
  BY <1>1, <1>2, <1>3, <1>4, <1>5, <1>6, <1>7, <1>8, <1>9

\* The pass under way survives a step of another thread that increases no load
\* and does not empty the queue.
LEMMA PassSurvives ==
    ASSUME IInv, UNCHANGED assigner, load' \in [Worker -> Nat],
           \A w \in Worker : load'[w] <= load[w], queue # <<>> => queue' # <<>>
    PROVE  PassOK'
<1>1. load \in [Worker -> Nat] /\ Capacity \in [Worker -> Nat]
  BY Parts, CapacityAssumption DEF LoadsOK, RegOK
<1>2. \A w \in Worker : load[w] < Capacity[w] => load'[w] < Capacity[w]
  <2> SUFFICES ASSUME NEW w \in Worker, load[w] < Capacity[w]
               PROVE  load'[w] < Capacity[w]
    OBVIOUS
  <2>1. load[w] \in Nat /\ load'[w] \in Nat /\ Capacity[w] \in Nat
    BY <1>1
  <2> QED
    BY <2>1
<1>3. assigner.todo \cup assigner.cand \subseteq Worker
  BY Parts DEF AssignerOK
<1>4. PassOK
  BY Parts
<1>5. /\ (assigner.pc # "check")' => (assigner.todo = {} /\ assigner.cand = {})'
      /\ (assigner.pc = "check")' =>
          /\ queue' # <<>>
          /\ \A w \in (assigner.todo \cup assigner.cand)' : load'[w] < Capacity[w]
  BY <1>2, <1>3, <1>4 DEF PassOK
<1>6. Holding' => (assigner.worker \in Worker /\ assigner.job \in Copy)'
  BY <1>4 DEF PassOK, Holding
<1>7. (assigner.pc = "increment")' =>
          load'[assigner.worker'] < Capacity[assigner.worker']
  BY <1>2, <1>4 DEF PassOK, Holding
<1> QED
  BY <1>5, <1>6, <1>7 DEF PassOK

\* The bus after a handler has returned from, or gone on with, its first event.
LEMMA HandlerSteps ==
    ASSUME IInv, NEW h \in Handler
    PROVE  /\ Consume(h) => BusOK' /\ First(h) \in EventFor(h)
           /\ \A n \in 0 .. 2 : Call(h, n) /\ LeaveFrom(h) =>
                 BusOK' /\ First(h) \in EventFor(h)
           /\ \A n \in 0 .. 1 : Call(h, n) /\ StayIn(h) =>
                 BusOK' /\ First(h) \in EventFor(h)
<1>1. InboxOK /\ stage \in [Handler -> 0 .. 2]
  BY Parts DEF BusOK
<1>2. Consume(h) => BusOK' /\ First(h) \in EventFor(h)
  BY <1>1, ConsumeType DEF Consume, BusOK
<1>3. ASSUME NEW n \in 0 .. 2, Call(h, n), LeaveFrom(h)
      PROVE  BusOK' /\ First(h) \in EventFor(h)
  <2>1. InboxOK' /\ First(h) \in EventFor(h)
    BY <1>1, <1>3, ConsumeType DEF Call, LeaveFrom
  <2>2. stage' \in [Handler -> 0 .. 2]
    BY <1>1, <1>3 DEF LeaveFrom
  <2> QED
    BY <2>1, <2>2 DEF BusOK
<1>4. ASSUME NEW n \in 0 .. 1, Call(h, n), StayIn(h)
      PROVE  BusOK' /\ First(h) \in EventFor(h)
  <2>1. First(h) \in EventFor(h)
    BY <1>1, <1>4, ConsumeType DEF Call
  <2>2. stage' \in [Handler -> 0 .. 2]
    BY <1>1, <1>4 DEF Call, StayIn
  <2>3. InboxOK'
    BY <1>1, <1>4 DEF StayIn, InboxOK
  <2> QED
    BY <2>1, <2>2, <2>3 DEF BusOK
<1> QED
  BY <1>2, <1>3, <1>4

\* The bus after a publish, which leaves the stages alone.
LEMMA PublishStep ==
    ASSUME IInv, NEW topic, NEW e, Publish(topic, e), UNCHANGED stage,
           \A h \in Handler \cap Subscriptions[topic] : e \in EventFor(h)
    PROVE  BusOK'
<1>1. InboxOK /\ stage \in [Handler -> 0 .. 2]
  BY Parts DEF BusOK
<1>2. InboxOK'
  BY <1>1, PublishType
<1> QED
  BY <1>1, <1>2 DEF BusOK

\* Steps of the clients, the worker processes and the clock.
LEMMA EnvironmentSteps ==
    ASSUME IInv
    PROVE  /\ \A j \in Job : Submit(j) => IInv'
           /\ \A w \in Worker : Start(w) => IInv'
           /\ \A w \in Worker : Crash(w) => IInv'
           /\ \A w \in Worker : \A i \in 1 .. Len(tasks[w]) :
                 ExecuteTask(w, i) => IInv'
           /\ \A w \in Worker : SendHeartbeat(w) => IInv'
           /\ \A w \in Worker : GoSilent(w) => IInv'
           /\ \A w \in Worker : CoolDown(w) => IInv'
           /\ StoreReady => IInv'
<1> USE DEF busVars, regVars, dbVars, retryVars, nodeVars, envVars, histVars
<1>1. ASSUME NEW j \in Job, Submit(j) PROVE IInv'
  <2>1. BusOK'
    BY <1>1, PublishStep, Handlers DEF Submit, EventFor, Copy, Subscriptions
  <2>2. RetriesOK'
    BY <1>1, Parts DEF Submit, RetriesOK, CountsOK, BuriedAfterRetries
  <2> QED
    BY <1>1, <2>1, <2>2, Frame, PartsNext DEF Submit
<1>2. ASSUME NEW w \in Worker, Start(w) PROVE IInv'
  <2>1. BusOK'
    BY <1>2, PublishStep, Handlers DEF Start, EventFor, Subscriptions
  <2>2. NodesOK'
    BY <1>2, Parts DEF Start, NodesOK
  <2> QED
    BY <1>2, <2>1, <2>2, Frame, PartsNext DEF Start
<1>3. ASSUME NEW w \in Worker, Crash(w) PROVE IInv'
  <2>1. NodesOK'
    <3>1. <<>> \in Seq(Copy)
      BY EmptySeq
    <3> QED
      BY <1>3, <3>1, Parts DEF Crash, NodesOK
  <2>2. RetriesOK'
    BY <1>3, Parts DEF Crash, RetriesOK, CountsOK, BuriedAfterRetries
  <2> QED
    BY <1>3, <2>1, <2>2, Frame, PartsNext DEF Crash
<1>4. ASSUME NEW w \in Worker, NEW i \in 1 .. Len(tasks[w]), ExecuteTask(w, i)
      PROVE  IInv'
  <2> DEFINE c == tasks[w][i]
             e == [worker |-> w, job |-> c]
  <2>1. tasks \in [Worker -> Seq(Copy)] /\ tasks[w] \in Seq(Copy)
    BY Parts DEF NodesOK
  <2>2. c \in Copy
    BY <2>1, ElementOfSeq
  <2>3. NodesOK'
    <3>1. RemoveAt(tasks[w], i) \in Seq(Copy)
      BY <2>1, RemoveAtType
    <3> QED
      BY <1>4, <2>1, <3>1, Parts DEF ExecuteTask, NodesOK
  <2>4. BusOK'
    <3>1. Publish("TASK_FAILED", e) \/ Publish("JOB_COMPLETED", e)
      BY <1>4 DEF ExecuteTask
    <3>2. UNCHANGED stage
      BY <1>4 DEF ExecuteTask
    <3>3. \A topic \in {"TASK_FAILED", "JOB_COMPLETED"} :
            \A h \in Handler \cap Subscriptions[topic] : e \in EventFor(h)
      BY <2>2, Handlers DEF EventFor, Subscriptions
    <3> HIDE DEF e
    <3> QED
      BY <3>1, <3>2, <3>3, PublishStep
  <2>5. RetriesOK'
    <3>1. \/ UNCHANGED finished
          \/ finished' = [finished EXCEPT ![c.id] = @ + 1]
      BY <1>4 DEF ExecuteTask
    <3>2. c.id \in Job
      BY <2>2 DEF Copy
    <3>3. finished' \in [Job -> Nat]
      <4> HIDE DEF c
      <4> QED
        BY <3>1, <3>2, Parts, SMTT(30) DEF RetriesOK, CountsOK
    <3>4. UNCHANGED <<retryVars, envVars, failovers>>
      BY <1>4 DEF ExecuteTask
    <3> QED
      BY <3>3, <3>4, Parts DEF RetriesOK, CountsOK, BuriedAfterRetries
  <2> QED
    BY <1>4, <2>3, <2>4, <2>5, Frame, PartsNext DEF ExecuteTask
<1>5. ASSUME NEW w \in Worker, GoSilent(w) PROVE IInv'
  <2>1. LoadsOK'
    BY <1>5, Parts DEF GoSilent, LoadsOK, RegOK, LoadWithinCapacity
  <2>2. RetriesOK'
    BY <1>5, Parts DEF GoSilent, RetriesOK, CountsOK, BuriedAfterRetries
  <2> QED
    BY <1>5, <2>1, <2>2, Frame, PartsNext DEF GoSilent
<1>6. ASSUME NEW w \in Worker, CoolDown(w) PROVE IInv'
  <2>1. breaker[w] \in BreakerType /\ WellFormed(breaker[w])
    BY Parts DEF BreakersOK, BreakersWellFormed
  <2>2. Cooled(breaker[w]) \in BreakerType /\ WellFormed(Cooled(breaker[w]))
    BY <1>6, <2>1, BreakerSteps DEF CoolDown
  <2>3. BreakersOK'
    BY <1>6, <2>2, Parts DEF CoolDown, BreakersOK, BreakersWellFormed
  <2> QED
    BY <1>6, <2>3, Frame, PartsNext DEF CoolDown
<1>7. ASSUME StoreReady PROVE IInv'
  <2>1. DbOK'
    BY <1>7, Parts DEF StoreReady, DbOK
  <2> QED
    BY <1>7, <2>1, Frame, PartsNext DEF StoreReady
<1>8. ASSUME NEW w \in Worker, SendHeartbeat(w) PROVE IInv'
  <2>1. NodesOK'
    BY <1>8, Parts DEF SendHeartbeat, NodesOK
  <2> QED
    BY <1>8, <2>1, Frame, PartsNext DEF SendHeartbeat
<1> QED
  BY <1>1, <1>2, <1>3, <1>4, <1>5, <1>6, <1>7, <1>8

\* Steps of registration, heartbeats, failure detection and failover.
LEMMA FailureSteps ==
    ASSUME IInv
    PROVE  /\ HandleRegister => IInv'
           /\ PersistWorker => IInv'
           /\ \A w \in Worker : HandleHeartbeat(w) => IInv'
           /\ \A w \in Worker : MonitorReports(w) => IInv'
           /\ HandleWorkerFailure => IInv'
           /\ FailoverScan => IInv'
           /\ \A j \in Job : FailoverRequeue(j) => IInv'
<1> USE DEF busVars, regVars, dbVars, retryVars, nodeVars, envVars, histVars
<1>1. ASSUME HandleRegister PROVE IInv'
  <2> DEFINE w == First("handle_register").worker
  <2>1. BusOK' /\ w \in Worker
    BY <1>1, HandlerSteps, Handlers DEF HandleRegister, EventFor
  <2>2. load' = [load EXCEPT ![w] = 0]
    BY <1>1 DEF HandleRegister
  <2>3. LoadsOK'
    BY <1>1, <2>1, Parts, CapacityAssumption
    DEF HandleRegister, LoadsOK, RegOK, LoadWithinCapacity
  <2>4. PassOK'
    <3>1. UNCHANGED <<assigner, queue>> /\ load \in [Worker -> Nat]
      BY <1>1, Parts DEF HandleRegister, LoadsOK, RegOK
    <3>2. load' \in [Worker -> Nat] /\ \A v \in Worker : load'[v] <= load[v]
      BY <2>1, <2>2, <3>1
    <3> QED
      BY <3>1, <3>2, PassSurvives
  <2> QED
    BY <1>1, <2>1, <2>3, <2>4, Frame, PartsNext DEF HandleRegister
<1>2. ASSUME PersistWorker PROVE IInv'
  <2>1. BusOK' /\ First("persist_worker").worker \in Worker
    BY <1>2, HandlerSteps, Handlers DEF PersistWorker, EventFor
  <2>2. DbOK'
    BY <1>2, <2>1, Parts DEF PersistWorker, DbOK
  <2> QED
    BY <1>2, <2>1, <2>2, Frame, PartsNext DEF PersistWorker
<1>3. ASSUME NEW w \in Worker, HandleHeartbeat(w) PROVE IInv'
  <2>1. LoadsOK'
    BY <1>3, Parts DEF HandleHeartbeat, LoadsOK, RegOK, LoadWithinCapacity
  <2>2. NodesOK'
    BY <1>3, Parts DEF HandleHeartbeat, NodesOK
  <2> QED
    BY <1>3, <2>1, <2>2, Frame, PartsNext DEF HandleHeartbeat
<1>4. ASSUME NEW w \in Worker, MonitorReports(w) PROVE IInv'
  <2>1. BusOK'
    BY <1>4, PublishStep, Handlers DEF MonitorReports, EventFor, Subscriptions
  <2> QED
    BY <1>4, <2>1, Frame, PartsNext DEF MonitorReports
<1>5. ASSUME HandleWorkerFailure PROVE IInv'
  <2>1. BusOK'
    BY <1>5, HandlerSteps, Handlers DEF HandleWorkerFailure
  <2>2. LoadsOK'
    BY <1>5, Parts DEF HandleWorkerFailure, LoadsOK, RegOK, LoadWithinCapacity
  <2> QED
    BY <1>5, <2>1, <2>2, Frame, PartsNext DEF HandleWorkerFailure
<1>6. ASSUME FailoverScan PROVE IInv'
  <2>1. BusOK' /\ First("handle_worker_failed").worker \in Worker
    BY <1>6, HandlerSteps, Handlers DEF FailoverScan, EventFor
  <2>2. NewBreaker \in BreakerType /\ WellFormed(NewBreaker)
    BY ThresholdAssumption
    DEF NewBreaker, BreakerType, BreakerState, WellFormed
  <2>3. BreakersOK'
    BY <1>6, <2>1, <2>2, Parts DEF FailoverScan, BreakersOK, BreakersWellFormed
  <2>4. DbOK'
    BY <1>6, Parts DEF FailoverScan, AssignedTasks, DbOK
  <2> QED
    BY <1>6, <2>1, <2>3, <2>4, Frame, PartsNext DEF FailoverScan
<1>7. ASSUME NEW j \in Job, FailoverRequeue(j) PROVE IInv'
  <2> DEFINE c == [id |-> j, full |-> FALSE]
  <2>1. c \in Copy /\ queue \in Seq(Copy)
    BY Parts DEF Copy
  <2>2. queue' = Append(queue, c)
    BY <1>7 DEF FailoverRequeue
  <2> HIDE DEF c
  <2>3. (queue \in Seq(Copy))' /\ queue' # <<>>
    BY <2>1, <2>2, AppendProperties
  <2>4. PassOK'
    BY <1>7, <2>3, Parts DEF FailoverRequeue, PassOK, Holding
  <2>5. DbOK'
    BY <1>7, Parts DEF FailoverRequeue, DbOK, RowStatus
  <2>6. RetriesOK'
    BY <1>7, Parts DEF FailoverRequeue, RetriesOK, CountsOK, BuriedAfterRetries
  <2> QED
    BY <1>7, <2>3, <2>4, <2>5, <2>6, Frame, PartsNext DEF FailoverRequeue
<1> QED
  BY <1>1, <1>2, <1>3, <1>4, <1>5, <1>6, <1>7

\* Steps of submission and assignment.
LEMMA AssignmentSteps ==
    ASSUME IInv
    PROVE  /\ HandleJobSubmitted => IInv'
           /\ PersistTask => IInv'
           /\ PickWorkers => IInv'
           /\ \A w \in Worker : CheckWorker(w) => IInv'
           /\ PickNothing => IInv'
           /\ \A w \in Worker : ChooseWorker(w) => IInv'
           /\ IncrementLoad => IInv'
           /\ PublishAssignment => IInv'
           /\ SendToWorker => IInv'
           /\ PersistTaskAssigned => IInv'
<1> USE DEF busVars, regVars, dbVars, retryVars, nodeVars, envVars, histVars
<1>1. ASSUME HandleJobSubmitted PROVE IInv'
  <2> DEFINE c == First("handle_job_submitted").job
  <2>1. BusOK' /\ c \in Copy
    BY <1>1, HandlerSteps, Handlers DEF HandleJobSubmitted, EventFor
  <2>2. queue' = Append(queue, c) /\ queue \in Seq(Copy)
    BY <1>1, Parts DEF HandleJobSubmitted
  <2> HIDE DEF c
  <2>3. (queue \in Seq(Copy))' /\ queue' # <<>>
    BY <2>1, <2>2, AppendProperties
  <2>4. PassOK'
    BY <1>1, <2>3, Parts DEF HandleJobSubmitted, PassOK, Holding
  <2> QED
    BY <1>1, <2>1, <2>3, <2>4, Frame, PartsNext DEF HandleJobSubmitted
<1>2. ASSUME PersistTask PROVE IInv'
  <2> DEFINE j == First("persist_task").job.id
  <2>1. BusOK' /\ j \in Job
    BY <1>2, HandlerSteps, Handlers DEF PersistTask, EventFor, Copy
  <2>2. DbOK'
    BY <1>2, <2>1, Parts DEF PersistTask, DbOK, RowStatus
  <2> QED
    BY <1>2, <2>1, <2>2, Frame, PartsNext DEF PersistTask
<1>3. ASSUME PickWorkers PROVE IInv'
  <2> DEFINE available == {w \in registered : Capacity[w] > load[w]}
  <2>1. /\ available \subseteq Worker /\ before \subseteq Worker \X Worker
        /\ AssignerOK /\ PassOK
    BY Parts DEF LoadsOK, RegOK
  <2>2. /\ assigner.pc = "idle" /\ queue # <<>>
        /\ assigner' = [assigner EXCEPT !.pc = "check", !.todo = available,
                                        !.before = before]
        /\ UNCHANGED <<queue, load>>
    BY <1>3 DEF PickWorkers, IsEmpty, AvailableWorkers
  <2>3. \A w \in available : load[w] < Capacity[w]
    BY <2>1, CapacityAssumption, Parts DEF LoadsOK, RegOK
  <2> HIDE DEF available
  <2>4. AssignerOK'
    BY <2>1, <2>2 DEF AssignerOK
  <2>5. /\ assigner'.pc = "check" /\ assigner'.todo = available
        /\ assigner'.cand = {}
    BY <2>1, <2>2 DEF AssignerOK, PassOK
  <2>6. PassOK'
    BY <2>2, <2>3, <2>5 DEF PassOK, Holding
  <2> QED
    BY <1>3, <2>4, <2>6, Frame, PartsNext DEF PickWorkers
<1>4. ASSUME NEW w \in Worker, CheckWorker(w) PROVE IInv'
  <2>1. AssignerOK /\ PassOK /\ BreakersOK
    BY Parts
  <2>2. /\ assigner.pc = "check" /\ w \in assigner.todo
        /\ assigner' = [assigner EXCEPT
                           !.todo = @ \ {w},
                           !.cand = IF MayAssign(breaker[w]) THEN @ \cup {w} ELSE @]
        /\ breaker' = [breaker EXCEPT ![w] = AfterAsking(@)]
        /\ UNCHANGED <<queue, load>>
    BY <1>4 DEF CheckWorker
  <2>3. BreakersOK'
    <3>1. breaker[w] \in BreakerType /\ WellFormed(breaker[w])
      BY <2>1 DEF BreakersOK, BreakersWellFormed
    <3>2. AfterAsking(breaker[w]) \in BreakerType /\ WellFormed(AfterAsking(breaker[w]))
      BY <3>1, BreakerSteps
    <3> QED
      BY <2>1, <2>2, <3>2 DEF BreakersOK, BreakersWellFormed
  <2>4. /\ assigner'.pc = "check"
        /\ assigner'.todo \cup assigner'.cand \subseteq
              assigner.todo \cup assigner.cand
    BY <2>1, <2>2 DEF AssignerOK
  <2>5. AssignerOK'
    BY <2>1, <2>2 DEF AssignerOK
  <2>6. PassOK'
    BY <2>1, <2>2, <2>4 DEF PassOK, Holding
  <2> QED
    BY <1>4, <2>3, <2>5, <2>6, Frame, PartsNext DEF CheckWorker
<1>5. ASSUME PickNothing PROVE IInv'
  <2>1. AssignerOK' /\ PassOK'
    BY <1>5 DEF PickNothing, Idle, AssignerOK, PassOK, Holding
  <2> QED
    BY <1>5, <2>1, Frame, PartsNext DEF PickNothing
<1>6. ASSUME NEW w \in Worker, ChooseWorker(w) PROVE IInv'
  <2>1. PassOK /\ queue \in Seq(Copy)
    BY Parts
  <2>2. /\ assigner.pc = "check" /\ w \in assigner.cand
        /\ assigner' = [Idle EXCEPT !.pc = "increment", !.worker = w,
                                    !.job = queue[Top]]
        /\ queue' = RemoveAt(queue, Top)
        /\ UNCHANGED load
    BY <1>6 DEF ChooseWorker, MostFree, Popped
  <2>3. load[w] < Capacity[w] /\ queue # <<>>
    BY <2>1, <2>2 DEF PassOK
  <2>4. Top \in 1 .. Len(queue) /\ queue[Top] \in Copy
    BY <2>1, <2>3, TopOfQueue, LenProperties, ElementOfSeq
  <2>5. (queue \in Seq(Copy))'
    BY <2>1, <2>2, <2>4, RemoveAtType
  <2>6. AssignerOK' /\ PassOK'
    BY <2>2, <2>3, <2>4 DEF Idle, AssignerOK, PassOK, Holding
  <2> QED
    BY <1>6, <2>5, <2>6, Frame, PartsNext DEF ChooseWorker
<1>7. ASSUME IncrementLoad PROVE IInv'
  <2>1. AssignerOK /\ PassOK /\ LoadsOK
    BY Parts
  <2>2. /\ assigner.pc = "increment"
        /\ assigner' = [assigner EXCEPT !.pc = "publish"]
    BY <1>7 DEF IncrementLoad
  <2>3. AssignerOK'
    BY <2>1, <2>2 DEF AssignerOK
  <2>4. PassOK'
    BY <2>1, <2>2 DEF AssignerOK, PassOK, Holding
  <2> DEFINE w == assigner.worker
  <2>5. w \in Worker /\ load[w] < Capacity[w]
    BY <2>1, <2>2 DEF PassOK, Holding
  <2>6. load' = [load EXCEPT ![w] = @ + 1] \/ load' = load
    BY <1>7 DEF IncrementLoad
  <2>7. UNCHANGED <<registered, before, fresh>>
    BY <1>7 DEF IncrementLoad
  <2> HIDE DEF w
  <2>8. load \in [Worker -> Nat] /\ Capacity \in [Worker -> Nat]
    BY <2>1, CapacityAssumption DEF LoadsOK, RegOK
  <2>9. load' \in [Worker -> Nat] /\ \A v \in Worker : load'[v] <= Capacity[v]
    BY <2>1, <2>5, <2>6, <2>8 DEF LoadsOK, LoadWithinCapacity
  <2>10. LoadsOK'
    BY <2>1, <2>7, <2>9 DEF LoadsOK, RegOK, LoadWithinCapacity
  <2> QED
    BY <1>7, <2>3, <2>4, <2>10, Frame, PartsNext DEF IncrementLoad
<1>8. ASSUME PublishAssignment PROVE IInv'
  <2> DEFINE e == [worker |-> assigner.worker, job |-> assigner.job]
  <2>1. PassOK /\ assigner.pc = "publish"
    BY <1>8, Parts DEF PublishAssignment
  <2>2. assigner.worker \in Worker /\ assigner.job \in Copy
    BY <2>1 DEF PassOK, Holding
  <2>3. \A h \in Handler \cap Subscriptions["TASK_ASSIGNED"] : e \in EventFor(h)
    BY <2>2, Handlers DEF EventFor, Subscriptions
  <2>4. Publish("TASK_ASSIGNED", e) /\ UNCHANGED stage
    BY <1>8 DEF PublishAssignment
  <2> HIDE DEF e
  <2>5. BusOK'
    BY <2>3, <2>4, PublishStep
  <2>6. AssignerOK' /\ PassOK'
    BY <1>8 DEF PublishAssignment, Idle, AssignerOK, PassOK, Holding
  <2> QED
    BY <1>8, <2>5, <2>6, Frame, PartsNext DEF PublishAssignment
<1>9. ASSUME SendToWorker PROVE IInv'
  <2> DEFINE w == First("send_to_worker").worker
             c == First("send_to_worker").job
  <2>1. BusOK' /\ w \in Worker /\ c \in Copy
    BY <1>9, HandlerSteps, Handlers DEF SendToWorker, EventFor
  <2>2. tasks' = [tasks EXCEPT ![w] = Append(@, c)] \/ tasks' = tasks
    BY <1>9 DEF SendToWorker
  <2>3. UNCHANGED <<alive, beats>>
    BY <1>9 DEF SendToWorker
  <2> HIDE DEF w, c
  <2>4. NodesOK'
    <3>1. Append(tasks[w], c) \in Seq(Copy)
      BY <2>1, Parts, AppendProperties DEF NodesOK
    <3> QED
      BY <2>1, <2>2, <2>3, <3>1, Parts DEF NodesOK
  <2> QED
    BY <1>9, <2>1, <2>4, Frame, PartsNext DEF SendToWorker
<1>10. ASSUME PersistTaskAssigned PROVE IInv'
  <2> DEFINE e == First("persist_task_assigned")
  <2>1. BusOK' /\ e.worker \in Worker /\ e.job.id \in Job
    BY <1>10, HandlerSteps, Handlers DEF PersistTaskAssigned, EventFor, Copy
  <2>2. \/ /\ row' = [row EXCEPT ![e.job.id] = "ASSIGNED"]
           /\ holder' = [holder EXCEPT ![e.job.id] = e.worker]
        \/ UNCHANGED <<row, holder>>
    BY <1>10 DEF PersistTaskAssigned
  <2>3. UNCHANGED <<requeue, online, workerRows>>
    BY <1>10 DEF PersistTaskAssigned
  <2> HIDE DEF e
  <2>4. DbOK'
    BY <2>1, <2>2, <2>3, Parts DEF DbOK, RowStatus
  <2> QED
    BY <1>10, <2>1, <2>4, Frame, PartsNext DEF PersistTaskAssigned
<1> QED
  BY <1>1, <1>2, <1>3, <1>4, <1>5, <1>6, <1>7, <1>8, <1>9, <1>10

\* Steps of the handlers of outcomes.
LEMMA OutcomeSteps ==
    ASSUME IInv
    PROVE  /\ \A h \in {"handle_job_completed", "handle_task_failed"} :
                 FreeCapacity(h) => IInv'
           /\ NoteSuccess => IInv'
           /\ PersistTaskCompleted => IInv'
           /\ NoteFailure => IInv'
           /\ RetryOrBury => IInv'
<1> USE DEF busVars, regVars, dbVars, retryVars, nodeVars, envVars, histVars
<1>1. ASSUME NEW h \in {"handle_job_completed", "handle_task_failed"},
             FreeCapacity(h)
      PROVE  IInv'
  <2> DEFINE w == First(h).worker
  <2>1. BusOK' /\ w \in Worker
    BY <1>1, HandlerSteps, Handlers DEF FreeCapacity, EventFor
  <2>2. load' = IF w \in registered
                THEN [load EXCEPT ![w] = IF @ > 0 THEN @ - 1 ELSE @] ELSE load
    BY <1>1 DEF FreeCapacity, Decremented
  <2>3. UNCHANGED <<registered, before, fresh, assigner, queue>>
    BY <1>1 DEF FreeCapacity
  <2> HIDE DEF w
  <2>4. load \in [Worker -> Nat] /\ Capacity \in [Worker -> Nat]
    BY Parts, CapacityAssumption DEF LoadsOK, RegOK
  <2>5. load' \in [Worker -> Nat] /\ \A v \in Worker : load'[v] <= load[v]
    BY <2>1, <2>2, <2>4
  <2>6. PassOK'
    BY <2>3, <2>5, PassSurvives
  <2>7. \A v \in Worker : load'[v] <= Capacity[v]
    BY <2>4, <2>5, Parts DEF LoadsOK, LoadWithinCapacity
  <2>8. LoadsOK'
    BY <2>3, <2>5, <2>7, Parts DEF LoadsOK, RegOK, LoadWithinCapacity
  <2> QED
    BY <1>1, <2>1, <2>6, <2>8, Frame, PartsNext DEF FreeCapacity
<1>2. ASSUME NoteSuccess PROVE IInv'
  <2> DEFINE w == First("handle_job_completed").worker
  <2>1. BusOK' /\ w \in Worker
    BY <1>2, HandlerSteps, Handlers DEF NoteSuccess, EventFor
  <2>2. breaker[w] \in BreakerType /\ WellFormed(breaker[w])
    BY <2>1, Parts DEF BreakersOK, BreakersWellFormed
  <2>3. /\ RecordSuccess(breaker[w]) \in BreakerType
        /\ WellFormed(RecordSuccess(breaker[w]))
    BY <2>2, BreakerSteps
  <2>4. BreakersOK'
    BY <1>2, <2>1, <2>3, Parts DEF NoteSuccess, BreakersOK, BreakersWellFormed
  <2> QED
    BY <1>2, <2>1, <2>4, Frame, PartsNext DEF NoteSuccess
<1>3. ASSUME PersistTaskCompleted PROVE IInv'
  <2>1. BusOK' /\ First("persist_task_completed").job.id \in Job
    BY <1>3, HandlerSteps, Handlers DEF PersistTaskCompleted, EventFor, Copy
  <2>2. DbOK'
    BY <1>3, <2>1, Parts DEF PersistTaskCompleted, RowAfter, DbOK, RowStatus
  <2> QED
    BY <1>3, <2>1, <2>2, Frame, PartsNext DEF PersistTaskCompleted
<1>4. ASSUME NoteFailure PROVE IInv'
  <2> DEFINE w == First("handle_task_failed").worker
  <2>1. BusOK' /\ w \in Worker
    BY <1>4, HandlerSteps, Handlers DEF NoteFailure, EventFor
  <2>2. breaker[w] \in BreakerType /\ WellFormed(breaker[w])
    BY <2>1, Parts DEF BreakersOK, BreakersWellFormed
  <2>3. /\ RecordFailure(breaker[w]) \in BreakerType
        /\ WellFormed(RecordFailure(breaker[w]))
    BY <2>2, BreakerSteps
  <2>4. BreakersOK'
    BY <1>4, <2>1, <2>3, Parts DEF NoteFailure, BreakersOK, BreakersWellFormed
  <2> QED
    BY <1>4, <2>1, <2>4, Frame, PartsNext DEF NoteFailure
<1>5. ASSUME RetryOrBury PROVE IInv'
  <2> DEFINE c == First("handle_task_failed").job
             j == c.id
  <2>1. BusOK' /\ c \in Copy
    BY <1>5, HandlerSteps, Handlers DEF RetryOrBury, EventFor
  <2>2. /\ tracker' = [tracker EXCEPT ![j] = @ + 1]
        /\ \/ /\ tracker[j] + 1 <= MaxRetries
              /\ row' = RowAfter(j, "RETRYING")
              /\ queue' = Append(queue, c)
              /\ UNCHANGED dlq
           \/ /\ ~(tracker[j] + 1 <= MaxRetries)
              /\ row' = RowAfter(j, "DLQ")
              /\ dlq' = [dlq EXCEPT ![j] = @ + 1]
              /\ UNCHANGED queue
    BY <1>5 DEF RetryOrBury, RetriesLeft
  <2>3. j \in Job
    BY <2>1 DEF Copy
  <2>4. UNCHANGED <<assigner, load, requeue, online, workerRows, holder,
                    unsent, crashes, silences, finished, failovers>>
    BY <1>5 DEF RetryOrBury
  <2> HIDE DEF c, j
  <2>5. (queue \in Seq(Copy))' /\ (queue # <<>> => queue' # <<>>)
    BY <2>1, <2>2, Parts, AppendProperties
  <2>6. PassOK'
    BY <2>4, <2>5, Parts DEF PassOK, Holding
  <2>7. DbOK'
    BY <2>2, <2>3, <2>4, Parts DEF RowAfter, DbOK, RowStatus
  <2>8. RetriesOK'
    <3>1. CountsOK /\ BuriedAfterRetries
      BY Parts DEF RetriesOK
    <3>2. CountsOK'
      BY <2>2, <2>3, <2>4, <3>1 DEF CountsOK
    <3>3. BuriedAfterRetries'
      BY <2>2, <2>3, <3>1, MaxRetriesAssumption DEF CountsOK, BuriedAfterRetries
    <3> QED
      BY <3>2, <3>3 DEF RetriesOK
  <2> QED
    BY <1>5, <2>1, <2>5, <2>6, <2>7, <2>8, Frame, PartsNext DEF RetryOrBury
<1> QED
  BY <1>1, <1>2, <1>3, <1>4, <1>5

-----------------------------------------------------------------------------
(* The theorems *)

\* The invariant holds after every step.
LEMMA StepInv == IInv /\ [Next]_vars => IInv'
<1> SUFFICES ASSUME IInv, [Next]_vars PROVE IInv'
  OBVIOUS
<1>1. CASE Next
  BY <1>1, EnvironmentSteps, FailureSteps, AssignmentSteps, OutcomeSteps
  DEF Next, Assigner, Failover, TaskFailedHandler, JobCompletedHandler
<1>2. CASE UNCHANGED vars
  BY <1>2, Frame, PartsNext
  DEF vars, busVars, regVars, dbVars, retryVars, nodeVars, envVars, histVars
<1> QED
  BY <1>1, <1>2

\* The invariant holds in every reachable state of the coordinator.
LEMMA Invariance == Spec => []IInv
BY InitInv, StepInv, PTL DEF Spec

\* Every variable keeps its type: whatever the handlers, the assigner and the
\* workers interleave, no event reaches a handler without the fields it reads.
THEOREM TypeCorrect == Spec => []TypeOK
<1>1. IInv => TypeOK
  BY DEF IInv
<1> QED
  BY <1>1, Invariance, PTL

\* No worker is ever counted over its capacity, with any number of workers,
\* crashes, restarts and late heartbeats.
THEOREM LoadIsBounded == Spec => []LoadWithinCapacity
<1>1. IInv => LoadWithinCapacity
  BY DEF IInv
<1> QED
  BY <1>1, Invariance, PTL

\* A scheduling pass that starts with a job in the queue ends with one.
THEOREM PassHasJob == Spec => []PickFindsJob
<1>1. IInv => PickFindsJob
  BY DEF IInv, PassOK, PickFindsJob
<1> QED
  BY <1>1, Invariance, PTL

\* The breakers stay well formed under the three threads that use them and the
\* removal by failover.
THEOREM BreakersStayWellFormed == Spec => []BreakersWellFormed
<1>1. IInv => BreakersWellFormed
  BY DEF IInv
<1> QED
  BY <1>1, Invariance, PTL

-----------------------------------------------------------------------------
(* Counting in sequences *)

\* Where a sequence has elements of T, and how many it has.
Hits(s, T)  == {i \in DOMAIN s : s[i] \in T}
Count(s, T) == Cardinality(Hits(s, T))

\* 1 for an element of T.
One(e, T) == IF e \in T THEN 1 ELSE 0

LEMMA CountType ==
    ASSUME NEW S, NEW s \in Seq(S), NEW T
    PROVE  /\ IsFiniteSet(Hits(s, T))
           /\ Count(s, T) \in Nat
           /\ Count(s, T) <= Len(s)
<1>1. Len(s) \in Nat /\ DOMAIN s = 1 .. Len(s)
  BY LenProperties
<1>2. IsFiniteSet(1 .. Len(s)) /\ Cardinality(1 .. Len(s)) = Len(s)
  BY <1>1, FS_Interval
<1>3. Hits(s, T) \in SUBSET (1 .. Len(s))
  BY <1>1 DEF Hits
<1> QED
  BY <1>2, <1>3, FS_Subset, FS_CardinalityType DEF Count

\* A new element counts if it is in T.
LEMMA CountAppend ==
    ASSUME NEW S, NEW s \in Seq(S), NEW e \in S, NEW T
    PROVE  Count(Append(s, e), T) = Count(s, T) + One(e, T)
<1> DEFINE t == Append(s, e)
           n == Len(s) + 1
<1>1. /\ Len(s) \in Nat /\ DOMAIN s = 1 .. Len(s)
      /\ DOMAIN t = 1 .. n
      /\ t[n] = e
      /\ \A i \in 1 .. Len(s) : t[i] = s[i]
  BY AppendProperties, LenProperties
<1> HIDE DEF t
<1>2. Hits(t, T) = IF e \in T THEN Hits(s, T) \cup {n} ELSE Hits(s, T)
  BY <1>1 DEF Hits
<1>3. n \notin Hits(s, T)
  BY <1>1 DEF Hits
<1>4. IsFiniteSet(Hits(s, T)) /\ Count(s, T) \in Nat
  BY CountType
<1>5. Cardinality(Hits(s, T) \cup {n}) = Cardinality(Hits(s, T)) + 1
  BY <1>3, <1>4, FS_AddElement
<1> QED
  BY <1>2, <1>4, <1>5 DEF Count, One, t

\* An element taken out no longer counts, wherever it was.
LEMMA CountRemoveAt ==
    ASSUME NEW S, NEW s \in Seq(S), NEW i \in 1 .. Len(s), NEW T
    PROVE  /\ Count(s, T) = Count(RemoveAt(s, i), T) + One(s[i], T)
           /\ Len(RemoveAt(s, i)) = Len(s) - 1
<1> DEFINE left  == SubSeq(s, 1, i - 1)
           right == SubSeq(s, i + 1, Len(s))
           t     == RemoveAt(s, i)
<1>1. Len(s) \in Nat /\ DOMAIN s = 1 .. Len(s)
  BY LenProperties
<1>2. /\ left \in Seq(S) /\ Len(left) = i - 1
      /\ \A k \in 1 .. i - 1 : left[k] = s[k]
  BY <1>1
<1>3. /\ right \in Seq(S) /\ Len(right) = Len(s) - i
      /\ \A k \in 1 .. Len(s) - i : right[k] = s[k + i]
  <2>1. /\ i + 1 \in Int /\ Len(s) \in Int
        /\ \A k \in i + 1 .. Len(s) : s[k] \in S
    BY <1>1, ElementOfSeq
  <2>2. /\ right \in Seq(S)
        /\ Len(right) = IF i + 1 <= Len(s) THEN Len(s) - (i + 1) + 1 ELSE 0
        /\ \A k \in 1 .. Len(s) - (i + 1) + 1 : right[k] = s[i + 1 + k - 1]
    BY <2>1, SubSeqProperties
  <2> HIDE DEF right
  <2>3. Len(right) = Len(s) - i
    <3>1. i \in Nat /\ i <= Len(s) /\ Len(s) \in Nat
      BY <1>1
    <3> QED
      BY <2>2, <3>1
  <2>4. ASSUME NEW k \in 1 .. Len(s) - i PROVE right[k] = s[k + i]
    <3>1. k \in 1 .. Len(s) - (i + 1) + 1 /\ i + 1 + k - 1 = k + i
      BY <1>1
    <3>2. right[k] = s[i + 1 + k - 1]
      BY <2>2, <3>1
    <3> QED
      BY <3>1, <3>2
  <2> QED
    BY <2>2, <2>3, <2>4
<1>4. t = left \o right
  BY DEF RemoveAt
<1> HIDE DEF left, right, t
<1>5. /\ t \in Seq(S) /\ Len(t) = Len(s) - 1 /\ DOMAIN t = 1 .. Len(s) - 1
      /\ \A k \in 1 .. Len(left) + Len(right) :
              t[k] = IF k <= Len(left) THEN left[k] ELSE right[k - Len(left)]
  <2>1. /\ t \in Seq(S) /\ Len(t) = Len(left) + Len(right)
        /\ \A k \in 1 .. Len(left) + Len(right) :
                t[k] = IF k <= Len(left) THEN left[k] ELSE right[k - Len(left)]
    BY <1>2, <1>3, <1>4, ConcatProperties
  <2> QED
    BY <2>1, <1>1, <1>2, <1>3, LenProperties
<1>6. ASSUME NEW k \in 1 .. Len(s) - 1
      PROVE  t[k] = IF k < i THEN s[k] ELSE s[k + 1]
  <2>1. k \in 1 .. Len(left) + Len(right) /\ k \in Nat /\ i \in Nat
    BY <1>1, <1>2, <1>3
  <2>2. CASE k < i
    BY <1>2, <1>5, <2>1, <2>2
  <2>3. CASE ~(k < i)
    <3>1. t[k] = right[k - (i - 1)]
      BY <1>2, <1>5, <2>1, <2>3
    <3>2. k - (i - 1) \in 1 .. Len(s) - i /\ k - (i - 1) + i = k + 1
      BY <1>1, <2>1, <2>3
    <3> QED
      BY <1>3, <2>3, <3>1, <3>2
  <2> QED
    BY <2>2, <2>3
<1> DEFINE Kept == Hits(s, T) \ {i}
           f == [k \in Kept |-> IF k < i THEN k ELSE k - 1]
<1>7. f \in Bijection(Kept, Hits(t, T))
  <2>1. \A k \in Kept : k \in 1 .. Len(s) /\ k # i /\ s[k] \in T
    BY <1>1 DEF Hits
  <2>2. ASSUME NEW k \in Kept PROVE f[k] \in Hits(t, T)
    <3>1. f[k] \in 1 .. Len(s) - 1
      BY <1>1, <2>1
    <3>2. t[f[k]] = s[k]
      <4>1. CASE k < i
        BY <1>1, <1>6, <2>1, <3>1, <4>1
      <4>2. CASE ~(k < i)
        <5>1. f[k] = k - 1 /\ ~(k - 1 < i) /\ k - 1 + 1 = k
          BY <1>1, <2>1, <4>2
        <5> QED
          BY <1>6, <3>1, <5>1
      <4> QED
        BY <4>1, <4>2
    <3> QED
      BY <1>5, <2>1, <3>1, <3>2 DEF Hits
  <2>3. \A k, m \in Kept : f[k] = f[m] => k = m
    <3> SUFFICES ASSUME NEW k \in Kept, NEW m \in Kept, f[k] = f[m] PROVE k = m
      OBVIOUS
    <3>1. k \in Nat /\ m \in Nat /\ k # i /\ m # i /\ i \in Nat
      BY <1>1, <2>1
    <3> QED
      BY <3>1
  <2>4. \A x \in Hits(t, T) : \E k \in Kept : f[k] = x
    <3> SUFFICES ASSUME NEW x \in Hits(t, T) PROVE \E k \in Kept : f[k] = x
      OBVIOUS
    <3>1. x \in 1 .. Len(s) - 1 /\ t[x] \in T
      BY <1>5 DEF Hits
    <3> DEFINE k == IF x < i THEN x ELSE x + 1
    <3>2. k \in 1 .. Len(s) /\ k # i /\ s[k] = t[x]
      BY <1>1, <1>6, <3>1
    <3>3. k \in Kept
      BY <1>1, <3>1, <3>2 DEF Hits
    <3>4. f[k] = x
      BY <1>1, <3>1, <3>3
    <3> QED
      BY <3>3, <3>4
  <2>5. f \in [Kept -> Hits(t, T)]
    BY <2>2
  <2> HIDE DEF f
  <2> QED
    BY <2>3, <2>4, <2>5 DEF Bijection, Injection, Surjection, IsInjective
<1>8. IsFiniteSet(Hits(s, T)) /\ Count(s, T) \in Nat
  BY CountType
<1>9. IsFiniteSet(Kept) /\ Cardinality(Kept)
        = IF i \in Hits(s, T) THEN Count(s, T) - 1 ELSE Count(s, T)
  BY <1>8, FS_RemoveElement DEF Count
<1>10. Count(t, T) = Cardinality(Kept)
  BY <1>7, <1>9, FS_Bijection DEF ExistsBijection, Count
<1>11. i \in Hits(s, T) <=> s[i] \in T
  BY <1>1 DEF Hits
<1> QED
  BY <1>5, <1>8, <1>9, <1>10, <1>11 DEF One, t

LEMMA CountTail ==
    ASSUME NEW S, NEW s \in Seq(S), s # <<>>, NEW T
    PROVE  Count(s, T) = Count(Tail(s), T) + One(Head(s), T)
<1>1. Len(s) \in Nat \ {0}
  BY EmptySeq
<1>2. RemoveAt(s, 1) = Tail(s)
  <2>1. Tail(s) = SubSeq(s, 2, Len(s)) /\ Tail(s) \in Seq(S)
    BY TailIsSubSeq, HeadTailProperties
  <2>2. SubSeq(s, 1, 0) = <<>>
    BY SubSeqEmpty
  <2> QED
    BY <2>1, <2>2, ConcatEmptySeq DEF RemoveAt
<1>3. 1 \in 1 .. Len(s) /\ Head(s) = s[1]
  BY <1>1
<1> QED
  BY <1>2, <1>3, CountRemoveAt

LEMMA CountEmpty == \A T : Count(<<>>, T) = 0
<1>1. \A T : Hits(<<>>, T) = {}
  BY DEF Hits
<1> QED
  BY <1>1, FS_EmptySet DEF Count

-----------------------------------------------------------------------------
(* Where the copies of a job are *)

CopiesOf(j)    == {c \in Copy : c.id = j}
JobIn(h, j)    == Count(inbox[h], {e \in EventFor(h) : e.job.id = j})
OneIf(P)       == IF P THEN 1 ELSE 0

Arriving(j)    == JobIn("handle_job_submitted", j)
Queued(j)      == Count(queue, CopiesOf(j))
Held(j)        == OneIf(Holding /\ assigner.job.id = j)
Sent(j)        == JobIn("send_to_worker", j)
Failed(j)      == JobIn("handle_task_failed", j)

\* The places of the workers that hold an element of T.
Slots(t, T)    == UNION {{w} \X Hits(t[w], T) : w \in Worker}
OnWorkers(j)   == Cardinality(Slots(tasks, CopiesOf(j)))

\* All the places where a copy of j can be, and what becomes of it.
Total(j) == Arriving(j) + Queued(j) + Held(j) + Sent(j) + OnWorkers(j)
              + Failed(j) + finished[j] + dlq[j]

\* The places of the workers other than w.
Others(t, w, T) == UNION {{v} \X Hits(t[v], T) : v \in Worker \ {w}}

\* What a worker holds can be counted apart from what the others hold.
LEMMA SlotsSplit ==
    ASSUME NEW t \in [Worker -> Seq(Copy)], NEW w \in Worker, NEW T
    PROVE  /\ IsFiniteSet(Slots(t, T)) => IsFiniteSet(Others(t, w, T))
           /\ IsFiniteSet(Others(t, w, T)) =>
                 /\ IsFiniteSet(Slots(t, T))
                 /\ Cardinality(Others(t, w, T)) \in Nat
                 /\ Cardinality(Slots(t, T))
                       = Cardinality(Others(t, w, T)) + Count(t[w], T)
<1> DEFINE rest == Others(t, w, T)
           own  == {w} \X Hits(t[w], T)
<1>1. Slots(t, T) = rest \cup own
  BY DEF Slots, Others
<1>2. rest \cap own = {}
  BY DEF Others
<1>3. IsFiniteSet(own) /\ Cardinality(own) = Count(t[w], T) /\ Count(t[w], T) \in Nat
  <2>1. IsFiniteSet(Hits(t[w], T)) /\ Count(t[w], T) \in Nat
    BY CountType
  <2>2. IsFiniteSet({w}) /\ Cardinality({w}) = 1
    BY FS_Singleton
  <2>3. IsFiniteSet(own) /\ Cardinality(own) = 1 * Cardinality(Hits(t[w], T))
    BY <2>1, <2>2, FS_Product
  <2> QED
    BY <2>1, <2>3 DEF Count
<1> HIDE DEF rest, own
<1>4. ASSUME IsFiniteSet(rest)
      PROVE  /\ IsFiniteSet(rest \cup own)
             /\ Cardinality(rest) \in Nat
             /\ Cardinality(rest \cup own) = Cardinality(rest) + Count(t[w], T)
  <2>1. Cardinality({}) = 0 /\ Cardinality(rest) \in Nat
    BY <1>4, FS_EmptySet, FS_CardinalityType
  <2>2. /\ IsFiniteSet(rest \cup own)
        /\ Cardinality(rest \cup own)
              = Cardinality(rest) + Cardinality(own) - Cardinality(rest \cap own)
    BY <1>3, <1>4, FS_Union
  <2>3. Cardinality(rest \cap own) = 0
    BY <1>2, <2>1
  <2> QED
    BY <1>3, <2>1, <2>2, <2>3
<1>5. IsFiniteSet(Slots(t, T)) => IsFiniteSet(rest)
  BY <1>1, FS_Subset
<1> QED
  BY <1>1, <1>4, <1>5 DEF rest

\* One worker has other copies than before.
LEMMA SlotsChange ==
    ASSUME NEW t \in [Worker -> Seq(Copy)], NEW u \in [Worker -> Seq(Copy)],
           NEW w \in Worker, \A v \in Worker \ {w} : u[v] = t[v],
           NEW T, IsFiniteSet(Slots(t, T))
    PROVE  /\ IsFiniteSet(Slots(u, T))
           /\ Cardinality(Slots(t, T)) \in Nat /\ Cardinality(Slots(u, T)) \in Nat
           /\ Count(t[w], T) \in Nat /\ Count(u[w], T) \in Nat
           /\ Cardinality(Slots(u, T)) + Count(t[w], T)
                 = Cardinality(Slots(t, T)) + Count(u[w], T)
<1>1. t[w] \in Seq(Copy) /\ u[w] \in Seq(Copy)
  OBVIOUS
<1>2. Others(u, w, T) = Others(t, w, T)
  BY DEF Others
<1>3. /\ IsFiniteSet(Others(t, w, T))
      /\ Cardinality(Others(t, w, T)) \in Nat
      /\ Cardinality(Slots(t, T)) = Cardinality(Others(t, w, T)) + Count(t[w], T)
  BY SlotsSplit
<1>4. /\ IsFiniteSet(Slots(u, T))
      /\ Cardinality(Slots(u, T)) = Cardinality(Others(t, w, T)) + Count(u[w], T)
  BY <1>2, <1>3, SlotsSplit
<1>5. Count(t[w], T) \in Nat /\ Count(u[w], T) \in Nat
  BY <1>1, CountType
<1> QED
  BY <1>3, <1>4, <1>5

\* The places the properties count are these.
LEMMA PlacesAre ==
    ASSUME IInv, NEW j \in Job
    PROVE  /\ Waiting(j) = Arriving(j) + Queued(j) + Held(j)
           /\ Running(j) = Sent(j) + OnWorkers(j) + Failed(j)
<1>1. /\ inbox["handle_job_submitted"] \in Seq(EventFor("handle_job_submitted"))
      /\ inbox["send_to_worker"] \in Seq(EventFor("send_to_worker"))
      /\ inbox["handle_task_failed"] \in Seq(EventFor("handle_task_failed"))
      /\ queue \in Seq(Copy)
      /\ \A w \in Worker : tasks[w] \in Seq(Copy)
  BY Parts, Handlers DEF BusOK, InboxOK, NodesOK
<1>2. ASSUME NEW S, NEW s \in Seq(S)
      PROVE  \A i \in DOMAIN s : s[i] \in S
  BY LenProperties, ElementOfSeq
<1>3. \A h \in {"handle_job_submitted", "send_to_worker", "handle_task_failed"} :
         {i \in DOMAIN inbox[h] : inbox[h][i].job.id = j}
           = Hits(inbox[h], {e \in EventFor(h) : e.job.id = j})
  BY <1>1, <1>2 DEF Hits
<1>4. {i \in DOMAIN queue : queue[i].id = j} = Hits(queue, CopiesOf(j))
  BY <1>1, <1>2 DEF Hits, CopiesOf
<1>5. \A w \in Worker : {i \in DOMAIN tasks[w] : tasks[w][i].id = j}
                           = Hits(tasks[w], CopiesOf(j))
  BY <1>1, <1>2 DEF Hits, CopiesOf
<1>6. UNION {{w} \X {i \in DOMAIN tasks[w] : tasks[w][i].id = j} : w \in Worker}
        = Slots(tasks, CopiesOf(j))
  BY <1>5 DEF Slots
<1>7. Waiting(j) = Arriving(j) + Queued(j) + Held(j)
  BY <1>3, <1>4 DEF Waiting, CountIn, IndicesOf, Arriving, JobIn, Count, Queued,
                   Held, OneIf
<1>8. Running(j) = Sent(j) + OnWorkers(j) + Failed(j)
  BY <1>3, <1>6 DEF Running, CountIn, IndicesOf, Sent, JobIn, Count, OnWorkers,
                   Failed
<1> QED
  BY <1>7, <1>8

-----------------------------------------------------------------------------
(* How the steps move the copies of a job *)

\* No job has copies at infinitely many places of the workers.
SlotsFinite == \A j \in Job : IsFiniteSet(Slots(tasks, CopiesOf(j)))

LEMMA PlaceTypes ==
    ASSUME IInv, SlotsFinite, NEW j \in Job
    PROVE  /\ Arriving(j) \in Nat /\ Queued(j) \in Nat /\ Held(j) \in 0 .. 1
           /\ Sent(j) \in Nat /\ OnWorkers(j) \in Nat /\ Failed(j) \in Nat
           /\ finished[j] \in Nat /\ dlq[j] \in Nat /\ failovers[j] \in Nat
<1>1. \A h \in Handler : JobIn(h, j) \in Nat
  BY Parts, CountType DEF BusOK, InboxOK, JobIn
<1>2. Queued(j) \in Nat
  BY Parts, CountType DEF Queued
<1>3. OnWorkers(j) \in Nat
  BY FS_CardinalityType DEF SlotsFinite, OnWorkers
<1>4. Held(j) \in 0 .. 1
  BY DEF Held, OneIf
<1> QED
  BY <1>1, <1>2, <1>3, <1>4, Parts, Handlers
  DEF Arriving, Sent, Failed, RetriesOK, CountsOK

\* What is published for job j arrives once in each inbox of the topic.
LEMMA PublishMoves ==
    ASSUME IInv, NEW j, NEW topic, NEW e, Publish(topic, e), NEW h \in Handler,
           h \in Subscriptions[topic] => e \in EventFor(h)
    PROVE  JobIn(h, j)' = JobIn(h, j) + OneIf(h \in Subscriptions[topic] /\ e.job.id = j)
<1> DEFINE T == {x \in EventFor(h) : x.job.id = j}
<1>1. inbox[h] \in Seq(EventFor(h))
  BY Parts DEF BusOK, InboxOK
<1>2. JobIn(h, j) \in Nat
  BY <1>1, CountType DEF JobIn
<1>3. CASE h \in Subscriptions[topic]
  <2>1. inbox'[h] = Append(inbox[h], e)
    BY <1>3 DEF Publish
  <2>2. Count(inbox'[h], T) = Count(inbox[h], T) + One(e, T)
    BY <1>1, <1>3, <2>1, CountAppend
  <2>3. One(e, T) = OneIf(e.job.id = j)
    BY <1>3 DEF One, OneIf
  <2> QED
    BY <1>3, <2>2, <2>3 DEF JobIn
<1>4. CASE h \notin Subscriptions[topic]
  <2>1. inbox'[h] = inbox[h]
    BY <1>4 DEF Publish
  <2> QED
    BY <1>2, <1>4, <2>1 DEF JobIn, OneIf
<1> QED
  BY <1>3, <1>4

\* A handler that takes its first event leaves one copy less in its inbox.
LEMMA TakeMoves ==
    ASSUME IInv, NEW j, NEW h \in Handler, inbox[h] # <<>>,
           inbox' = [inbox EXCEPT ![h] = Tail(@)], NEW g \in Handler
    PROVE  JobIn(g, j)' = JobIn(g, j) - OneIf(g = h /\ First(h).job.id = j)
<1> DEFINE T == {x \in EventFor(g) : x.job.id = j}
<1>1. inbox[g] \in Seq(EventFor(g)) /\ inbox \in [Handler -> UNION {Seq(EventFor(k)) : k \in Handler}]
  BY Parts DEF BusOK, InboxOK
<1>2. CASE g = h
  <2>1. inbox'[g] = Tail(inbox[g])
    BY <1>1, <1>2
  <2>2. Count(inbox[g], T) = Count(inbox'[g], T) + One(First(h), T)
    BY <1>1, <1>2, <2>1, CountTail DEF First
  <2>3. One(First(h), T) = OneIf(First(h).job.id = j)
    BY <1>1, <1>2 DEF One, OneIf, First
  <2>4. Count(inbox'[g], T) \in Nat /\ One(First(h), T) \in 0 .. 1
    <3>1. inbox'[g] \in Seq(EventFor(g))
      BY <1>1, <1>2, <2>1, HeadTailProperties
    <3>2. Count(inbox'[g], T) \in Nat
      BY <3>1, CountType
    <3>3. One(First(h), T) \in 0 .. 1
      BY DEF One
    <3> QED
      BY <3>2, <3>3
  <2> HIDE DEF T
  <2>5. Count(inbox'[g], T) = Count(inbox[g], T) - OneIf(First(h).job.id = j)
    BY <2>2, <2>3, <2>4
  <2> QED
    BY <1>2, <2>5 DEF JobIn, T
<1>3. CASE g # h
  <2>1. inbox'[g] = inbox[g]
    BY <1>1, <1>3
  <2>2. JobIn(g, j) \in Nat
    BY <1>1, CountType DEF JobIn
  <2> QED
    BY <1>3, <2>1, <2>2 DEF JobIn, OneIf
<1> QED
  BY <1>2, <1>3

\* A copy added to the queue.
LEMMA QueueMoves ==
    ASSUME IInv, NEW j, NEW c \in Copy, queue' = Append(queue, c)
    PROVE  Queued(j)' = Queued(j) + OneIf(c.id = j)
<1>1. Count(queue', CopiesOf(j)) = Count(queue, CopiesOf(j)) + One(c, CopiesOf(j))
  BY Parts, CountAppend
<1>2. One(c, CopiesOf(j)) = OneIf(c.id = j)
  BY DEF One, OneIf, CopiesOf
<1> QED
  BY <1>1, <1>2 DEF Queued

\* The copy on top taken out of the queue.
LEMMA PopMoves ==
    ASSUME IInv, NEW j, queue # <<>>, queue' = Popped
    PROVE  /\ queue[Top] \in Copy
           /\ Queued(j)' = Queued(j) - OneIf(queue[Top].id = j)
<1> DEFINE T == CopiesOf(j)
<1>1. queue \in Seq(Copy)
  BY Parts
<1>2. Top \in 1 .. Len(queue) /\ queue[Top] \in Copy
  BY <1>1, TopOfQueue, LenProperties, ElementOfSeq
<1>3. queue' \in Seq(Copy)
  BY <1>1, <1>2, RemoveAtType DEF Popped
<1>4. Count(queue, T) = Count(queue', T) + One(queue[Top], T)
  BY <1>1, <1>2, CountRemoveAt DEF Popped
<1>5. Count(queue', T) \in Nat /\ One(queue[Top], T) \in 0 .. 1
  BY <1>3, CountType DEF One
<1>6. One(queue[Top], T) = OneIf(queue[Top].id = j)
  BY <1>2 DEF One, OneIf, CopiesOf
<1> HIDE DEF T
<1>7. Count(queue', T) = Count(queue, T) - OneIf(queue[Top].id = j)
  BY <1>4, <1>5, <1>6
<1> QED
  BY <1>2, <1>7 DEF Queued, T

\* A worker has one copy more or less.
LEMMA TaskMoves ==
    ASSUME IInv, SlotsFinite, NEW j \in Job, NEW w \in Worker
    PROVE  /\ \A c \in Copy : tasks' = [tasks EXCEPT ![w] = Append(@, c)] =>
                 /\ IsFiniteSet(Slots(tasks', CopiesOf(j)))
                 /\ OnWorkers(j)' = OnWorkers(j) + OneIf(c.id = j)
           /\ \A i \in 1 .. Len(tasks[w]) : tasks' = [tasks EXCEPT ![w] = RemoveAt(@, i)] =>
                 /\ IsFiniteSet(Slots(tasks', CopiesOf(j)))
                 /\ OnWorkers(j)' = OnWorkers(j) - OneIf(tasks[w][i].id = j)
           /\ tasks' = [tasks EXCEPT ![w] = <<>>] =>
                 /\ IsFiniteSet(Slots(tasks', CopiesOf(j)))
                 /\ OnWorkers(j)' <= OnWorkers(j) /\ OnWorkers(j)' \in Nat
<1> DEFINE T == CopiesOf(j)
<1>1. tasks \in [Worker -> Seq(Copy)] /\ tasks[w] \in Seq(Copy)
  BY Parts DEF NodesOK
<1>2. IsFiniteSet(Slots(tasks, T))
  BY DEF SlotsFinite
<1>3. ASSUME tasks' \in [Worker -> Seq(Copy)],
             \A v \in Worker \ {w} : tasks'[v] = tasks[v]
      PROVE  /\ IsFiniteSet(Slots(tasks', T))
             /\ OnWorkers(j) \in Nat /\ OnWorkers(j)' \in Nat
             /\ Count(tasks[w], T) \in Nat /\ Count(tasks'[w], T) \in Nat
             /\ OnWorkers(j)' + Count(tasks[w], T) = OnWorkers(j) + Count(tasks'[w], T)
  <2> HIDE DEF T
  <2>1. /\ IsFiniteSet(Slots(tasks', T))
        /\ Cardinality(Slots(tasks, T)) \in Nat /\ Cardinality(Slots(tasks', T)) \in Nat
        /\ Count(tasks[w], T) \in Nat /\ Count(tasks'[w], T) \in Nat
        /\ Cardinality(Slots(tasks', T)) + Count(tasks[w], T)
              = Cardinality(Slots(tasks, T)) + Count(tasks'[w], T)
    BY <1>1, <1>2, <1>3, SlotsChange
  <2> QED
    BY <2>1 DEF OnWorkers, T
<1>4. \A c \in Copy : One(c, T) = OneIf(c.id = j) /\ One(c, T) \in 0 .. 1
  BY DEF One, OneIf, CopiesOf
<1>5. ASSUME NEW c \in Copy, tasks' = [tasks EXCEPT ![w] = Append(@, c)]
      PROVE  /\ IsFiniteSet(Slots(tasks', T))
             /\ OnWorkers(j)' = OnWorkers(j) + OneIf(c.id = j)
  <2> DEFINE x == Append(tasks[w], c)
  <2>1. /\ x \in Seq(Copy)
        /\ tasks' \in [Worker -> Seq(Copy)] /\ tasks'[w] = x
        /\ \A v \in Worker \ {w} : tasks'[v] = tasks[v]
    BY <1>1, <1>5, AppendProperties
  <2>2. Count(x, T) = Count(tasks[w], T) + One(c, T)
    BY <1>1, CountAppend
  <2> HIDE DEF x, T
  <2> QED
    BY <1>3, <1>4, <2>1, <2>2
<1>6. ASSUME NEW i \in 1 .. Len(tasks[w]),
             tasks' = [tasks EXCEPT ![w] = RemoveAt(@, i)]
      PROVE  /\ IsFiniteSet(Slots(tasks', T))
             /\ OnWorkers(j)' = OnWorkers(j) - OneIf(tasks[w][i].id = j)
  <2> DEFINE x == RemoveAt(tasks[w], i)
             c == tasks[w][i]
  <2>1. /\ x \in Seq(Copy) /\ c \in Copy
        /\ tasks' \in [Worker -> Seq(Copy)] /\ tasks'[w] = x
        /\ \A v \in Worker \ {w} : tasks'[v] = tasks[v]
    BY <1>1, <1>6, RemoveAtType, ElementOfSeq
  <2>2. Count(tasks[w], T) = Count(x, T) + One(c, T)
    BY <1>1, CountRemoveAt
  <2>3. One(c, T) = OneIf(tasks[w][i].id = j) /\ One(c, T) \in 0 .. 1
    BY <1>4, <2>1
  <2> HIDE DEF x, T, c
  <2>4. /\ IsFiniteSet(Slots(tasks', T))
        /\ OnWorkers(j) \in Nat /\ OnWorkers(j)' \in Nat
        /\ Count(tasks[w], T) \in Nat /\ Count(x, T) \in Nat
        /\ OnWorkers(j)' + Count(tasks[w], T) = OnWorkers(j) + Count(x, T)
    BY <1>3, <2>1
  <2>5. OnWorkers(j)' = OnWorkers(j) - One(c, T)
    BY <2>2, <2>3, <2>4
  <2> QED
    BY <2>3, <2>4, <2>5
<1>7. ASSUME tasks' = [tasks EXCEPT ![w] = <<>>]
      PROVE  /\ IsFiniteSet(Slots(tasks', T))
             /\ OnWorkers(j)' <= OnWorkers(j) /\ OnWorkers(j)' \in Nat
  <2>1. <<>> \in Seq(Copy) /\ Count(<<>>, T) = 0
    BY EmptySeq, CountEmpty
  <2>2. /\ tasks' \in [Worker -> Seq(Copy)] /\ tasks'[w] = <<>>
        /\ \A v \in Worker \ {w} : tasks'[v] = tasks[v]
    BY <1>1, <1>7, <2>1
  <2> HIDE DEF T
  <2> QED
    BY <1>3, <2>1, <2>2
<1> QED
  BY <1>5, <1>6, <1>7

\* A counter keeps its value after a step that leaves its variables alone.
LEMMA PlacesFrame ==
    ASSUME IInv, SlotsFinite, NEW j \in Job
    PROVE  /\ UNCHANGED inbox =>
                 UNCHANGED <<Arriving(j), Sent(j), Failed(j)>>
           /\ UNCHANGED queue => UNCHANGED Queued(j)
           /\ UNCHANGED assigner => UNCHANGED Held(j)
           /\ UNCHANGED tasks => UNCHANGED OnWorkers(j)
                                   /\ IsFiniteSet(Slots(tasks', CopiesOf(j)))
<1>1. UNCHANGED inbox => UNCHANGED <<Arriving(j), Sent(j), Failed(j)>>
  BY DEF Arriving, Sent, Failed, JobIn
<1>2. UNCHANGED queue => UNCHANGED Queued(j)
  BY DEF Queued
<1>3. UNCHANGED assigner => UNCHANGED Held(j)
  BY DEF Held, Holding
<1>4. UNCHANGED tasks => UNCHANGED OnWorkers(j)
                          /\ IsFiniteSet(Slots(tasks', CopiesOf(j)))
  BY DEF OnWorkers, SlotsFinite
<1> QED
  BY <1>1, <1>2, <1>3, <1>4

\* By how much a step changes the number of copies of j at each place.
Moves(j, a, q, h, s, t, f) ==
    /\ Arriving(j)'  = Arriving(j) + a
    /\ Queued(j)'    = Queued(j) + q
    /\ Held(j)'      = Held(j) + h
    /\ Sent(j)'      = Sent(j) + s
    /\ OnWorkers(j)' = OnWorkers(j) + t
    /\ Failed(j)'    = Failed(j) + f
    /\ IsFiniteSet(Slots(tasks', CopiesOf(j)))

\* The actions that leave every copy where it is.
Elsewhere ==
    \/ \E w \in Worker : Start(w) \/ GoSilent(w) \/ CoolDown(w)
    \/ StoreReady
    \/ HandleRegister
    \/ PersistWorker
    \/ \E w \in Worker : SendHeartbeat(w) \/ HandleHeartbeat(w) \/ MonitorReports(w)
    \/ HandleWorkerFailure
    \/ FailoverScan
    \/ PersistTask
    \/ PickWorkers
    \/ \E w \in Worker : CheckWorker(w)
    \/ PickNothing
    \/ IncrementLoad
    \/ PersistTaskAssigned
    \/ \E h \in {"handle_job_completed", "handle_task_failed"} : FreeCapacity(h)
    \/ NoteSuccess
    \/ PersistTaskCompleted
    \/ NoteFailure

\* A job is submitted, queued, chosen, handed to the bus and to the worker.
LEMMA OutwardMoves ==
    ASSUME IInv, SlotsFinite, NEW j \in Job
    PROVE  /\ \A k \in Job : Submit(k) => Moves(j, OneIf(k = j), 0, 0, 0, 0, 0)
           /\ HandleJobSubmitted =>
                 \E o \in 0 .. 1 :
                    /\ o = OneIf(First("handle_job_submitted").job.id = j)
                    /\ Moves(j, -o, o, 0, 0, 0, 0)
           /\ \A w \in Worker : ChooseWorker(w) =>
                 \E o \in 0 .. 1 : Moves(j, 0, -o, o, 0, 0, 0)
           /\ PublishAssignment =>
                 \E o \in 0 .. 1 : /\ o = OneIf(assigner.job.id = j)
                                   /\ Moves(j, 0, 0, -o, o, 0, 0)
           /\ SendToWorker =>
                 \E o \in 0 .. 1 :
                    \/ /\ First("send_to_worker").worker \in alive
                       /\ Moves(j, 0, 0, 0, -o, o, 0)
                    \/ /\ First("send_to_worker").worker \notin alive
                       /\ Moves(j, 0, 0, 0, -o, 0, 0)
<1> USE DEF nodeVars
<1>1. ASSUME NEW k \in Job, Submit(k)
      PROVE  Moves(j, OneIf(k = j), 0, 0, 0, 0, 0)
  <2> DEFINE e == [worker |-> None, job |-> [id |-> k, full |-> TRUE]]
  <2>1. Publish("JOB_SUBMITTED", e) /\ UNCHANGED <<queue, assigner, tasks>>
    BY <1>1 DEF Submit
  <2>2. e.job.id = k /\ \A h \in Subscriptions["JOB_SUBMITTED"] : e \in EventFor(h)
    BY Handlers DEF EventFor, Subscriptions, Copy
  <2> HIDE DEF e
  <2>3. \A h \in Handler : JobIn(h, j)' = JobIn(h, j) +
           OneIf(h \in Subscriptions["JOB_SUBMITTED"] /\ e.job.id = j)
    BY <2>1, <2>2, PublishMoves
  <2>4. Arriving(j)' = Arriving(j) + OneIf(k = j)
    BY <2>2, <2>3, Handlers DEF Arriving, Subscriptions
  <2>5. Sent(j)' = Sent(j) + 0 /\ Failed(j)' = Failed(j) + 0
    BY <2>3, Handlers DEF Sent, Failed, Subscriptions, OneIf
  <2> QED
    BY <2>1, <2>4, <2>5, PlacesFrame, PlaceTypes DEF Moves
<1>2. ASSUME HandleJobSubmitted
      PROVE  \E o \in 0 .. 1 :
                /\ o = OneIf(First("handle_job_submitted").job.id = j)
                /\ Moves(j, -o, o, 0, 0, 0, 0)
  <2> DEFINE h == "handle_job_submitted"
             c == First(h).job
             o == OneIf(c.id = j)
  <2>1. /\ inbox[h] # <<>> /\ inbox' = [inbox EXCEPT ![h] = Tail(@)]
        /\ queue' = Append(queue, c) /\ UNCHANGED <<assigner, tasks>>
    BY <1>2 DEF HandleJobSubmitted, Consume
  <2>2. c \in Copy /\ h \in Handler
    BY <1>2, HandlerSteps, Handlers DEF HandleJobSubmitted, EventFor
  <2> HIDE DEF c
  <2>3. Queued(j)' = Queued(j) + o
    BY <2>1, <2>2, QueueMoves
  <2>4. \A g \in Handler : JobIn(g, j)' = JobIn(g, j) - OneIf(g = h /\ c.id = j)
    BY <2>1, <2>2, TakeMoves DEF c
  <2>5. /\ Arriving(j)' = Arriving(j) - o
        /\ Sent(j)' = Sent(j) - 0
        /\ Failed(j)' = Failed(j) - 0
    BY <2>4, Handlers DEF Arriving, Sent, Failed, OneIf
  <2>6. o \in 0 .. 1
    BY DEF OneIf
  <2>7. o = OneIf(First(h).job.id = j)
    BY DEF c
  <2> HIDE DEF o
  <2> QED
    BY <2>1, <2>3, <2>5, <2>6, <2>7, PlacesFrame, PlaceTypes DEF Moves
<1>3. ASSUME NEW w \in Worker, ChooseWorker(w)
      PROVE  \E o \in 0 .. 1 : Moves(j, 0, -o, o, 0, 0, 0)
  <2> DEFINE o == OneIf(queue[Top].id = j)
  <2>1. /\ assigner.pc = "check" /\ queue' = Popped /\ UNCHANGED <<inbox, tasks>>
        /\ assigner' = [Idle EXCEPT !.pc = "increment", !.worker = w,
                                    !.job = queue[Top]]
    BY <1>3 DEF ChooseWorker, busVars
  <2>2. queue # <<>>
    BY <2>1, Parts DEF PassOK
  <2>3. Queued(j)' = Queued(j) - o
    BY <2>1, <2>2, PopMoves
  <2>4. Held(j) = 0 /\ Held(j)' = o
    BY <2>1 DEF Held, Holding, OneIf, Idle
  <2>5. o \in 0 .. 1
    BY DEF OneIf
  <2> HIDE DEF o
  <2> QED
    BY <2>1, <2>3, <2>4, <2>5, PlacesFrame, PlaceTypes DEF Moves
<1>4. ASSUME PublishAssignment
      PROVE  \E o \in 0 .. 1 : /\ o = OneIf(assigner.job.id = j)
                               /\ Moves(j, 0, 0, -o, o, 0, 0)
  <2> DEFINE e == [worker |-> assigner.worker, job |-> assigner.job]
             o == OneIf(assigner.job.id = j)
  <2>1. /\ Publish("TASK_ASSIGNED", e) /\ UNCHANGED <<queue, tasks>>
        /\ assigner.pc = "publish" /\ assigner' = Idle
    BY <1>4 DEF PublishAssignment
  <2>2. /\ e.job.id = assigner.job.id
        /\ \A h \in Subscriptions["TASK_ASSIGNED"] : e \in EventFor(h)
    BY <2>1, Parts, Handlers DEF PassOK, Holding, EventFor, Subscriptions
  <2> HIDE DEF e
  <2>3. \A h \in Handler : JobIn(h, j)' = JobIn(h, j) +
           OneIf(h \in Subscriptions["TASK_ASSIGNED"] /\ e.job.id = j)
    BY <2>1, <2>2, PublishMoves
  <2>4. Sent(j)' = Sent(j) + o
    BY <2>2, <2>3, Handlers DEF Sent, Subscriptions
  <2>5. Arriving(j)' = Arriving(j) + 0 /\ Failed(j)' = Failed(j) + 0
    BY <2>3, Handlers DEF Arriving, Failed, Subscriptions, OneIf
  <2>6. Held(j) = o /\ Held(j)' = 0 /\ o \in 0 .. 1
    BY <2>1 DEF Held, Holding, OneIf, Idle
  <2>7. o = OneIf(assigner.job.id = j)
    OBVIOUS
  <2> HIDE DEF o
  <2>8. Moves(j, 0, 0, -o, o, 0, 0)
    BY <2>1, <2>4, <2>5, <2>6, PlacesFrame, PlaceTypes DEF Moves
  <2> QED
    BY <2>6, <2>7, <2>8
<1>5. ASSUME SendToWorker
      PROVE  \E o \in 0 .. 1 :
                \/ /\ First("send_to_worker").worker \in alive
                   /\ Moves(j, 0, 0, 0, -o, o, 0)
                \/ /\ First("send_to_worker").worker \notin alive
                   /\ Moves(j, 0, 0, 0, -o, 0, 0)
  <2> DEFINE h == "send_to_worker"
             w == First(h).worker
             c == First(h).job
             o == OneIf(c.id = j)
  <2>1. /\ inbox[h] # <<>> /\ inbox' = [inbox EXCEPT ![h] = Tail(@)]
        /\ UNCHANGED <<queue, assigner>>
        /\ tasks' = IF w \in alive THEN [tasks EXCEPT ![w] = Append(@, c)] ELSE tasks
    BY <1>5 DEF SendToWorker, Consume
  <2>2. c \in Copy /\ w \in Worker /\ h \in Handler
    BY <1>5, HandlerSteps, Handlers DEF SendToWorker, EventFor
  <2> HIDE DEF c
  <2>3. \A g \in Handler : JobIn(g, j)' = JobIn(g, j) - OneIf(g = h /\ c.id = j)
    BY <2>1, <2>2, TakeMoves DEF c
  <2>4. /\ Sent(j)' = Sent(j) - o
        /\ Arriving(j)' = Arriving(j) - 0
        /\ Failed(j)' = Failed(j) - 0
    BY <2>3, Handlers DEF Arriving, Sent, Failed, OneIf
  <2>5. o \in 0 .. 1
    BY DEF OneIf
  <2>6. CASE w \in alive
    <3>1. OnWorkers(j)' = OnWorkers(j) + o /\ IsFiniteSet(Slots(tasks', CopiesOf(j)))
      BY <2>1, <2>2, <2>6, TaskMoves
    <3> HIDE DEF o
    <3>2. Moves(j, 0, 0, 0, -o, o, 0)
      BY <2>1, <2>4, <2>5, <3>1, PlacesFrame, PlaceTypes DEF Moves
    <3> QED
      BY <2>5, <2>6, <3>2
  <2>7. CASE w \notin alive
    <3> HIDE DEF o
    <3>1. Moves(j, 0, 0, 0, -o, 0, 0)
      BY <2>1, <2>4, <2>5, <2>7, PlacesFrame, PlaceTypes DEF Moves
    <3> QED
      BY <2>5, <2>7, <3>1
  <2> QED
    BY <2>6, <2>7
<1> QED
  BY <1>1, <1>2, <1>3, <1>4, <1>5

\* A worker finishes a copy or dies with its copies; a failed job is queued
\* again or buried; failover queues one more copy.
LEMMA InwardMoves ==
    ASSUME IInv, SlotsFinite, NEW j \in Job
    PROVE  /\ \A w \in Worker : \A i \in 1 .. Len(tasks[w]) : ExecuteTask(w, i) =>
                 \E o \in 0 .. 1 :
                    /\ o = OneIf(tasks[w][i].id = j)
                    /\ \/ /\ Fails(tasks[w][i])
                          /\ Moves(j, 0, 0, 0, 0, -o, o)
                          /\ finished' = finished
                       \/ /\ ~Fails(tasks[w][i])
                          /\ Moves(j, 0, 0, 0, 0, -o, 0)
                          /\ finished'[j] = finished[j] + o
           /\ RetryOrBury =>
                 \E o \in 0 .. 1 :
                    /\ o = OneIf(First("handle_task_failed").job.id = j)
                    /\ tracker'[j] = tracker[j] + o
                    /\ \/ /\ RetriesLeft(First("handle_task_failed").job.id)
                          /\ Moves(j, 0, o, 0, 0, 0, -o)
                          /\ dlq' = dlq
                       \/ /\ ~RetriesLeft(First("handle_task_failed").job.id)
                          /\ Moves(j, 0, 0, 0, 0, 0, -o)
                          /\ dlq'[j] = dlq[j] + o
           /\ \A k \in Job : FailoverRequeue(k) =>
                 \E o \in 0 .. 1 :
                    /\ Moves(j, 0, o, 0, 0, 0, 0)
                    /\ failovers'[j] = failovers[j] + o
           /\ \A w \in Worker : Crash(w) =>
                 \E n \in Nat : Moves(j, 0, 0, 0, 0, -n, 0)
<1>1. ASSUME NEW w \in Worker, NEW i \in 1 .. Len(tasks[w]), ExecuteTask(w, i)
      PROVE  \E o \in 0 .. 1 :
                /\ o = OneIf(tasks[w][i].id = j)
                /\ \/ /\ Fails(tasks[w][i])
                      /\ Moves(j, 0, 0, 0, 0, -o, o)
                      /\ finished' = finished
                   \/ /\ ~Fails(tasks[w][i])
                      /\ Moves(j, 0, 0, 0, 0, -o, 0)
                      /\ finished'[j] = finished[j] + o
  <2> DEFINE c == tasks[w][i]
             e == [worker |-> w, job |-> c]
             o == OneIf(c.id = j)
  <2>1. /\ \/ Fails(c) /\ Publish("TASK_FAILED", e) /\ UNCHANGED finished
           \/ /\ ~Fails(c)
              /\ Publish("JOB_COMPLETED", e)
              /\ finished' = [finished EXCEPT ![c.id] = @ + 1]
        /\ tasks' = [tasks EXCEPT ![w] = RemoveAt(@, i)]
        /\ UNCHANGED <<queue, assigner>>
    BY <1>1 DEF ExecuteTask
  <2>2. /\ OnWorkers(j)' = OnWorkers(j) - o
        /\ IsFiniteSet(Slots(tasks', CopiesOf(j)))
    BY <2>1, TaskMoves
  <2>3. o \in 0 .. 1
    BY DEF OneIf
  <2>4. c \in Copy
    BY Parts, ElementOfSeq DEF NodesOK
  <2>5. e.job.id = c.id /\ \A h \in Subscriptions["TASK_FAILED"] \cup
                                      Subscriptions["JOB_COMPLETED"] : e \in EventFor(h)
    BY <2>4, Handlers DEF EventFor, Subscriptions
  <2>c. o = OneIf(tasks[w][i].id = j) /\ c = tasks[w][i]
    OBVIOUS
  <2> HIDE DEF e, c
  <2>6. CASE Fails(c) /\ Publish("TASK_FAILED", e) /\ UNCHANGED finished
    <3>1. \A h \in Handler : JobIn(h, j)' = JobIn(h, j) +
             OneIf(h \in Subscriptions["TASK_FAILED"] /\ e.job.id = j)
      BY <2>5, <2>6, PublishMoves
    <3>2. Failed(j)' = Failed(j) + o
      BY <2>5, <3>1, Handlers DEF Failed, Subscriptions
    <3>3. Arriving(j)' = Arriving(j) + 0 /\ Sent(j)' = Sent(j) + 0
      BY <3>1, Handlers DEF Arriving, Sent, Subscriptions, OneIf
    <3> HIDE DEF o
    <3>4. Moves(j, 0, 0, 0, 0, -o, o)
      BY <2>1, <2>2, <2>3, <3>2, <3>3, PlacesFrame, PlaceTypes DEF Moves
    <3> QED
      BY <2>c, <2>3, <2>6, <3>4
  <2>7. CASE /\ ~Fails(c)
             /\ Publish("JOB_COMPLETED", e)
             /\ finished' = [finished EXCEPT ![c.id] = @ + 1]
    <3>1. \A h \in Handler : JobIn(h, j)' = JobIn(h, j) +
             OneIf(h \in Subscriptions["JOB_COMPLETED"] /\ e.job.id = j)
      BY <2>5, <2>7, PublishMoves
    <3>2. /\ Arriving(j)' = Arriving(j) + 0 /\ Sent(j)' = Sent(j) + 0
          /\ Failed(j)' = Failed(j) + 0
      BY <3>1, Handlers DEF Arriving, Sent, Failed, Subscriptions, OneIf
    <3>3. finished'[j] = finished[j] + o
      BY <2>7, Parts DEF RetriesOK, CountsOK, OneIf
    <3> HIDE DEF o
    <3>4. Moves(j, 0, 0, 0, 0, -o, 0)
      BY <2>1, <2>2, <2>3, <3>2, PlacesFrame, PlaceTypes DEF Moves
    <3> QED
      BY <2>c, <2>3, <2>7, <3>3, <3>4
  <2> QED
    BY <2>1, <2>6, <2>7
<1>2. ASSUME RetryOrBury
      PROVE  \E o \in 0 .. 1 :
                /\ o = OneIf(First("handle_task_failed").job.id = j)
                /\ tracker'[j] = tracker[j] + o
                /\ \/ /\ RetriesLeft(First("handle_task_failed").job.id)
                      /\ Moves(j, 0, o, 0, 0, 0, -o)
                      /\ dlq' = dlq
                   \/ /\ ~RetriesLeft(First("handle_task_failed").job.id)
                      /\ Moves(j, 0, 0, 0, 0, 0, -o)
                      /\ dlq'[j] = dlq[j] + o
  <2> DEFINE h == "handle_task_failed"
             c == First(h).job
             o == OneIf(c.id = j)
  <2>1. /\ inbox[h] # <<>> /\ inbox' = [inbox EXCEPT ![h] = Tail(@)]
        /\ UNCHANGED <<assigner, tasks>>
        /\ tracker' = [tracker EXCEPT ![c.id] = @ + 1]
        /\ \/ RetriesLeft(c.id) /\ queue' = Append(queue, c) /\ UNCHANGED dlq
           \/ /\ ~RetriesLeft(c.id) /\ UNCHANGED queue
              /\ dlq' = [dlq EXCEPT ![c.id] = @ + 1]
    BY <1>2 DEF RetryOrBury, Call, LeaveFrom, nodeVars
  <2>2. c \in Copy /\ h \in Handler
    BY <1>2, HandlerSteps, Handlers DEF RetryOrBury, EventFor
  <2>3. o = OneIf(First("handle_task_failed").job.id = j)
    OBVIOUS
  <2>4. \A g \in Handler : JobIn(g, j)' = JobIn(g, j) - OneIf(g = h /\ c.id = j)
    BY <2>1, <2>2, TakeMoves
  <2> HIDE DEF c
  <2>5. /\ Failed(j)' = Failed(j) - o
        /\ Arriving(j)' = Arriving(j) - 0
        /\ Sent(j)' = Sent(j) - 0
    BY <2>4, Handlers DEF Arriving, Sent, Failed, OneIf
  <2>6. o \in 0 .. 1
    BY DEF OneIf
  <2>7. tracker'[j] = tracker[j] + o
    BY <2>1, Parts DEF RetriesOK, CountsOK, OneIf
  <2>8. CASE RetriesLeft(c.id) /\ queue' = Append(queue, c) /\ UNCHANGED dlq
    <3>1. Queued(j)' = Queued(j) + o
      BY <2>2, <2>8, QueueMoves
    <3> HIDE DEF o
    <3>2. Moves(j, 0, o, 0, 0, 0, -o)
      BY <2>1, <2>5, <2>6, <3>1, PlacesFrame, PlaceTypes DEF Moves
    <3> QED
      BY <2>3, <2>6, <2>7, <2>8, <3>2 DEF c
  <2>9. CASE /\ ~RetriesLeft(c.id) /\ UNCHANGED queue
             /\ dlq' = [dlq EXCEPT ![c.id] = @ + 1]
    <3>1. dlq'[j] = dlq[j] + o
      BY <2>9, Parts DEF RetriesOK, CountsOK, OneIf
    <3> HIDE DEF o
    <3>2. Moves(j, 0, 0, 0, 0, 0, -o)
      BY <2>1, <2>5, <2>6, <2>9, PlacesFrame, PlaceTypes DEF Moves
    <3> QED
      BY <2>3, <2>6, <2>7, <2>9, <3>1, <3>2 DEF c
  <2> QED
    BY <2>1, <2>8, <2>9
<1>3. ASSUME NEW k \in Job, FailoverRequeue(k)
      PROVE  \E o \in 0 .. 1 :
                /\ Moves(j, 0, o, 0, 0, 0, 0)
                /\ failovers'[j] = failovers[j] + o
  <2> DEFINE c == [id |-> k, full |-> FALSE]
             o == OneIf(c.id = j)
  <2>1. /\ queue' = Append(queue, c) /\ UNCHANGED <<inbox, assigner, tasks>>
        /\ failovers' = [failovers EXCEPT ![k] = @ + 1]
    BY <1>3 DEF FailoverRequeue, busVars, nodeVars
  <2>2. c \in Copy /\ c.id = k
    BY DEF Copy
  <2> HIDE DEF c
  <2>3. Queued(j)' = Queued(j) + o
    BY <2>1, <2>2, QueueMoves
  <2>4. o \in 0 .. 1
    BY DEF OneIf
  <2>5. failovers'[j] = failovers[j] + o
    BY <2>1, <2>2, Parts DEF RetriesOK, CountsOK, OneIf
  <2> HIDE DEF o
  <2>6. Moves(j, 0, o, 0, 0, 0, 0)
    BY <2>1, <2>3, <2>4, PlacesFrame, PlaceTypes, SMTT(30) DEF Moves
  <2> QED
    BY <2>4, <2>5, <2>6
<1>4. ASSUME NEW w \in Worker, Crash(w)
      PROVE  \E n \in Nat : Moves(j, 0, 0, 0, 0, -n, 0)
  <2> DEFINE n == OnWorkers(j) - OnWorkers(j)'
  <2>1. /\ tasks' = [tasks EXCEPT ![w] = <<>>]
        /\ UNCHANGED <<inbox, queue, assigner>>
    BY <1>4 DEF Crash, busVars
  <2>2. /\ IsFiniteSet(Slots(tasks', CopiesOf(j)))
        /\ OnWorkers(j)' <= OnWorkers(j) /\ OnWorkers(j)' \in Nat
    BY <2>1, TaskMoves
  <2>3. n \in Nat /\ OnWorkers(j)' = OnWorkers(j) + (-n)
    BY <2>2, PlaceTypes
  <2> HIDE DEF n
  <2> QED
    BY <2>1, <2>2, <2>3, PlacesFrame, PlaceTypes DEF Moves
<1> QED
  BY <1>1, <1>2, <1>3, <1>4

\* The rest of the steps do not move a copy of a job.
LEMMA NoMoves ==
    ASSUME IInv, SlotsFinite, NEW j \in Job, Elsewhere \/ UNCHANGED vars
    PROVE  Moves(j, 0, 0, 0, 0, 0, 0)
<1> USE DEF busVars, regVars, dbVars, retryVars, nodeVars, envVars, histVars
<1> DEFINE InboxStill == /\ Arriving(j)' = Arriving(j)
                         /\ Sent(j)' = Sent(j)
                         /\ Failed(j)' = Failed(j)
<1>1. SUFFICES /\ InboxStill
               /\ Queued(j)' = Queued(j)
               /\ Held(j)' = Held(j)
               /\ UNCHANGED tasks
  BY PlacesFrame, PlaceTypes DEF Moves
<1>2. UNCHANGED <<queue, tasks>>
  BY DEF Elsewhere, vars, Start, GoSilent, CoolDown, StoreReady, HandleRegister,
     PersistWorker, SendHeartbeat, HandleHeartbeat, MonitorReports, HandleWorkerFailure,
     FailoverScan, PersistTask,
     PickWorkers, CheckWorker, PickNothing, IncrementLoad, PersistTaskAssigned,
     FreeCapacity, NoteSuccess, PersistTaskCompleted, NoteFailure
<1>3. Held(j)' = Held(j)
  <2>1. CASE UNCHANGED assigner
    BY <2>1, PlacesFrame
  <2>2. CASE PickWorkers \/ PickNothing \/ \E w \in Worker : CheckWorker(w)
    <3>1. AssignerOK
      BY Parts
    <3>2. PickWorkers => assigner.pc = "idle" /\ assigner'.pc = "check"
      BY <3>1 DEF PickWorkers, AssignerOK
    <3>3. PickNothing => assigner.pc = "check" /\ assigner'.pc = "idle"
      BY DEF PickNothing, Idle
    <3>4. \A w \in Worker : CheckWorker(w) =>
             assigner.pc = "check" /\ assigner'.pc = "check"
      BY <3>1 DEF CheckWorker, AssignerOK
    <3> QED
      BY <2>2, <3>2, <3>3, <3>4 DEF Held, Holding
  <2>3. CASE IncrementLoad
    <3>1. AssignerOK
      BY Parts
    <3>2. /\ assigner.pc = "increment" /\ assigner'.pc = "publish"
          /\ assigner'.job = assigner.job
      BY <2>3, <3>1 DEF IncrementLoad, AssignerOK
    <3> QED
      BY <3>2 DEF Held, Holding
  <2> QED
    BY <2>1, <2>2, <2>3
    DEF Elsewhere, vars, Start, GoSilent, CoolDown, StoreReady, HandleRegister,
     PersistWorker, SendHeartbeat, HandleHeartbeat, MonitorReports, HandleWorkerFailure,
     FailoverScan, PersistTask,
     PersistTaskAssigned, FreeCapacity, NoteSuccess, PersistTaskCompleted, NoteFailure
<1>4. InboxStill
  <2>1. CASE UNCHANGED inbox
    BY <2>1, PlacesFrame
  <2>2. ASSUME NEW h \in Handler \ {"handle_job_submitted", "send_to_worker",
                                     "handle_task_failed"},
               inbox[h] # <<>>, inbox' = [inbox EXCEPT ![h] = Tail(@)]
        PROVE  InboxStill
    <3>1. \A g \in Handler : JobIn(g, j)' = JobIn(g, j) -
                               OneIf(g = h /\ First(h).job.id = j)
      BY <2>2, TakeMoves
    <3>2. /\ Arriving(j)' = Arriving(j) - 0
          /\ Sent(j)' = Sent(j) - 0
          /\ Failed(j)' = Failed(j) - 0
      BY <3>1, Handlers DEF Arriving, Sent, Failed, OneIf
    <3> QED
      BY <3>2, PlaceTypes
  <2>3. ASSUME NEW topic \in {"REGISTER", "WORKER_FAILED"}, NEW e, Publish(topic, e)
        PROVE  InboxStill
    <3>1. \A h \in {"handle_job_submitted", "send_to_worker", "handle_task_failed"} :
             h \in Handler /\ h \notin Subscriptions[topic]
      BY Handlers DEF Subscriptions
    <3>2. \A h \in {"handle_job_submitted", "send_to_worker", "handle_task_failed"} :
             inbox'[h] = inbox[h]
      BY <2>3, <3>1 DEF Publish
    <3> QED
      BY <3>2 DEF Arriving, Sent, Failed, JobIn
  <2> HIDE DEF InboxStill
  <2>4. CASE \/ HandleRegister \/ PersistWorker \/ HandleWorkerFailure \/ FailoverScan
             \/ PersistTask \/ PersistTaskAssigned \/ PersistTaskCompleted
    BY <2>2, <2>4, Handlers
    DEF HandleRegister, PersistWorker, HandleWorkerFailure, FailoverScan,
        PersistTask, PersistTaskAssigned, PersistTaskCompleted, Consume
  <2>5. CASE NoteSuccess
    BY <2>2, <2>5, Handlers DEF NoteSuccess, Call, LeaveFrom
  <2>6. CASE \E w \in Worker : Start(w) \/ MonitorReports(w)
    BY <2>3, <2>6 DEF Start, MonitorReports
  <2> QED
    BY <2>1, <2>4, <2>5, <2>6
    DEF Elsewhere, vars, GoSilent, CoolDown, StoreReady, SendHeartbeat, HandleHeartbeat,
        PickWorkers, CheckWorker, PickNothing, IncrementLoad, FreeCapacity,
        NoteFailure, StayIn
<1> QED
  BY <1>2, <1>3, <1>4, PlacesFrame

\* A step moves copies as one of these lemmas says, or leaves them.
LEMMA StepKinds ==
    ASSUME [Next]_vars
    PROVE  \/ \E k \in Job : Submit(k)
           \/ HandleJobSubmitted
           \/ \E w \in Worker : ChooseWorker(w)
           \/ PublishAssignment
           \/ SendToWorker
           \/ \E w \in Worker : \E i \in 1 .. Len(tasks[w]) : ExecuteTask(w, i)
           \/ RetryOrBury
           \/ \E k \in Job : FailoverRequeue(k)
           \/ \E w \in Worker : Crash(w)
           \/ Elsewhere \/ UNCHANGED vars
BY DEF Next, Assigner, Failover, TaskFailedHandler, JobCompletedHandler, Elsewhere

-----------------------------------------------------------------------------
(* No copies but those of failover *)

\* There are at most as many copies of a job, in all places together, as it was
\* submitted and failed over.
Conserved ==
    \A j \in Job : Total(j) <= OneIf(j \notin unsent) + failovers[j]

LEMMA ConservedInit == Init => SlotsFinite /\ Conserved
<1> SUFFICES ASSUME Init PROVE SlotsFinite /\ Conserved
  OBVIOUS
<1> SUFFICES ASSUME NEW j \in Job
             PROVE  /\ IsFiniteSet(Slots(tasks, CopiesOf(j)))
                    /\ Total(j) <= OneIf(j \notin unsent) + failovers[j]
  BY DEF SlotsFinite, Conserved
<1>1. \A h \in Handler : JobIn(h, j) = 0
  BY CountEmpty DEF Init, JobIn
<1>2. Arriving(j) = 0 /\ Sent(j) = 0 /\ Failed(j) = 0
  BY <1>1, Handlers DEF Arriving, Sent, Failed
<1>3. Queued(j) = 0
  BY CountEmpty DEF Init, Queued
<1>4. Held(j) = 0
  BY DEF Init, Idle, Held, Holding, OneIf
<1>5. Slots(tasks, CopiesOf(j)) = {}
  BY DEF Init, Slots, Hits
<1>6. OnWorkers(j) = 0 /\ IsFiniteSet(Slots(tasks, CopiesOf(j)))
  BY <1>5, FS_EmptySet DEF OnWorkers
<1>7. finished[j] = 0 /\ dlq[j] = 0 /\ failovers[j] = 0 /\ j \in unsent
  BY DEF Init
<1> QED
  BY <1>2, <1>3, <1>4, <1>6, <1>7 DEF Total, OneIf

LEMMA ConservedStep ==
    IInv /\ SlotsFinite /\ Conserved /\ [Next]_vars => SlotsFinite' /\ Conserved'
<1> SUFFICES ASSUME IInv, SlotsFinite, Conserved, [Next]_vars, NEW j \in Job
             PROVE  /\ IsFiniteSet(Slots(tasks', CopiesOf(j)))
                    /\ Total(j)' <= OneIf(j \notin unsent') + failovers'[j]
  BY DEF SlotsFinite, Conserved
<1> USE DEF retryVars, histVars, envVars
<1> DEFINE Goal == /\ IsFiniteSet(Slots(tasks', CopiesOf(j)))
                   /\ Total(j)' <= OneIf(j \notin unsent') + failovers'[j]
<1>1. /\ Arriving(j) \in Nat /\ Queued(j) \in Nat /\ Held(j) \in Nat
      /\ Sent(j) \in Nat /\ OnWorkers(j) \in Nat /\ Failed(j) \in Nat
      /\ finished[j] \in Nat /\ dlq[j] \in Nat /\ failovers[j] \in Nat
      /\ OneIf(j \notin unsent) \in 0 .. 1
      /\ Total(j) <= OneIf(j \notin unsent) + failovers[j]
  BY PlaceTypes DEF Conserved, OneIf
<1>2. ASSUME NEW k \in Job, Submit(k) PROVE Goal
  <2>1. Moves(j, OneIf(k = j), 0, 0, 0, 0, 0)
    BY <1>2, OutwardMoves
  <2>2. /\ finished' = finished /\ dlq' = dlq /\ failovers' = failovers
        /\ OneIf(j \notin unsent') = OneIf(j \notin unsent) + OneIf(k = j)
        /\ OneIf(k = j) \in 0 .. 1
    BY <1>2 DEF Submit, OneIf
  <2> QED
    BY <1>1, <2>1, <2>2 DEF Moves, Total
<1> HIDE DEF Goal
<1>3. CASE HandleJobSubmitted
  <2>1. PICK o \in 0 .. 1 : Moves(j, -o, o, 0, 0, 0, 0)
    BY <1>3, OutwardMoves
  <2>2. UNCHANGED <<finished, dlq, failovers, unsent>>
    BY <1>3 DEF HandleJobSubmitted
  <2> QED
    BY <1>1, <2>1, <2>2 DEF Moves, Total, Goal
<1>4. ASSUME NEW w \in Worker, ChooseWorker(w) PROVE Goal
  <2>1. PICK o \in 0 .. 1 : Moves(j, 0, -o, o, 0, 0, 0)
    BY <1>4, OutwardMoves
  <2>2. UNCHANGED <<finished, dlq, failovers, unsent>>
    BY <1>4 DEF ChooseWorker
  <2> QED
    BY <1>1, <2>1, <2>2 DEF Moves, Total, Goal
<1>5. CASE PublishAssignment
  <2>1. PICK o \in 0 .. 1 : Moves(j, 0, 0, -o, o, 0, 0)
    BY <1>5, OutwardMoves
  <2>2. UNCHANGED <<finished, dlq, failovers, unsent>>
    BY <1>5 DEF PublishAssignment
  <2> QED
    BY <1>1, <2>1, <2>2 DEF Moves, Total, Goal
<1>6. CASE SendToWorker
  <2>1. PICK o \in 0 .. 1 :
           Moves(j, 0, 0, 0, -o, o, 0) \/ Moves(j, 0, 0, 0, -o, 0, 0)
    BY <1>6, OutwardMoves
  <2>2. UNCHANGED <<finished, dlq, failovers, unsent>>
    BY <1>6 DEF SendToWorker
  <2> QED
    BY <1>1, <2>1, <2>2 DEF Moves, Total, Goal
<1>7. ASSUME NEW w \in Worker, NEW i \in 1 .. Len(tasks[w]), ExecuteTask(w, i)
      PROVE  Goal
  <2>1. PICK o \in 0 .. 1 :
           \/ Moves(j, 0, 0, 0, 0, -o, o) /\ finished' = finished
           \/ Moves(j, 0, 0, 0, 0, -o, 0) /\ finished'[j] = finished[j] + o
    BY <1>7, InwardMoves
  <2>2. UNCHANGED <<dlq, failovers, unsent>>
    BY <1>7 DEF ExecuteTask
  <2>3. CASE Moves(j, 0, 0, 0, 0, -o, o) /\ finished' = finished
    BY <1>1, <2>2, <2>3 DEF Moves, Total, Goal
  <2>4. CASE Moves(j, 0, 0, 0, 0, -o, 0) /\ finished'[j] = finished[j] + o
    BY <1>1, <2>2, <2>4, SMTT(30) DEF Moves, Total, Goal
  <2> QED
    BY <2>1, <2>3, <2>4
<1>8. CASE RetryOrBury
  <2>1. PICK o \in 0 .. 1 :
           \/ Moves(j, 0, o, 0, 0, 0, -o) /\ dlq' = dlq
           \/ Moves(j, 0, 0, 0, 0, 0, -o) /\ dlq'[j] = dlq[j] + o
    BY <1>8, InwardMoves
  <2>2. UNCHANGED <<finished, failovers, unsent>>
    BY <1>8 DEF RetryOrBury
  <2>3. CASE Moves(j, 0, o, 0, 0, 0, -o) /\ dlq' = dlq
    BY <1>1, <2>2, <2>3 DEF Moves, Total, Goal
  <2>4. CASE Moves(j, 0, 0, 0, 0, 0, -o) /\ dlq'[j] = dlq[j] + o
    BY <1>1, <2>2, <2>4 DEF Moves, Total, Goal
  <2> QED
    BY <2>1, <2>3, <2>4
<1>9. ASSUME NEW k \in Job, FailoverRequeue(k) PROVE Goal
  <2>1. PICK o \in 0 .. 1 : /\ Moves(j, 0, o, 0, 0, 0, 0)
                            /\ failovers'[j] = failovers[j] + o
    BY <1>9, InwardMoves
  <2>2. UNCHANGED <<finished, dlq, unsent>>
    BY <1>9 DEF FailoverRequeue
  <2> QED
    BY <1>1, <2>1, <2>2 DEF Moves, Total, Goal
<1>10. ASSUME NEW w \in Worker, Crash(w) PROVE Goal
  <2>1. PICK n \in Nat : Moves(j, 0, 0, 0, 0, -n, 0)
    BY <1>10, InwardMoves
  <2>2. UNCHANGED <<finished, dlq, failovers, unsent>>
    BY <1>10 DEF Crash
  <2> QED
    BY <1>1, <2>1, <2>2 DEF Moves, Total, Goal
<1>11. CASE Elsewhere \/ UNCHANGED vars
  <2>1. Moves(j, 0, 0, 0, 0, 0, 0)
    BY <1>11, NoMoves
  <2>2. UNCHANGED <<finished, dlq, failovers, unsent>>
    BY <1>11
    DEF Elsewhere, vars, Start, GoSilent, CoolDown, StoreReady, HandleRegister,
        PersistWorker, SendHeartbeat, HandleHeartbeat, MonitorReports, HandleWorkerFailure,
        FailoverScan, PersistTask, PickWorkers, CheckWorker, PickNothing,
        IncrementLoad, PersistTaskAssigned, FreeCapacity, NoteSuccess,
        PersistTaskCompleted, NoteFailure
  <2> QED
    BY <1>1, <2>1, <2>2 DEF Moves, Total, Goal
<1> QED
  BY <1>2, <1>3, <1>4, <1>5, <1>6, <1>7, <1>8, <1>9, <1>10, <1>11, StepKinds
  DEF Goal

\* Whatever crashes, restarts and times out, a job has no copy that its
\* submission or a failover did not make.
THEOREM NoOtherDuplicates == Spec => []OnlyFailoverDuplicates
<1>1. IInv /\ SlotsFinite /\ Conserved => OnlyFailoverDuplicates
  <2> SUFFICES ASSUME IInv, SlotsFinite, Conserved, NEW j \in Job
               PROVE  Waiting(j) + Running(j) + finished[j] + dlq[j] <=
                        (IF j \in unsent THEN 0 ELSE 1) + failovers[j]
    BY DEF OnlyFailoverDuplicates
  <2>1. /\ Waiting(j) = Arriving(j) + Queued(j) + Held(j)
        /\ Running(j) = Sent(j) + OnWorkers(j) + Failed(j)
    BY PlacesAre
  <2>2. Total(j) <= OneIf(j \notin unsent) + failovers[j]
    BY DEF Conserved
  <2>3. OneIf(j \notin unsent) = IF j \in unsent THEN 0 ELSE 1
    BY DEF OneIf
  <2>4. Held(j) \in Nat
    BY PlaceTypes
  <2> QED
    BY <2>1, <2>2, <2>3, <2>4, PlaceTypes DEF Total
<1>2. Spec => [](SlotsFinite /\ Conserved)
  BY Invariance, ConservedInit, ConservedStep, PTL DEF Spec
<1> QED
  BY <1>1, <1>2, Invariance, PTL

-----------------------------------------------------------------------------
(* The load of a worker *)

Accounting == {"handle_job_completed", "handle_task_failed"}

\* The events of h whose task still counts in a load: the first call of an
\* accounting handler takes the task of its first event out of it.
Rest(h) == IF stage[h] > 0 THEN Tail(inbox[h]) ELSE inbox[h]

OfWorker(h, w) == {e \in EventFor(h) : e.worker = w}

\* Where a task that counts in the load of w can be.
Counted(w)  == OneIf(assigner.pc = "publish" /\ assigner.worker = w)
OnTheWay(w) == Count(inbox["send_to_worker"], OfWorker("send_to_worker", w))
Open(h, w)  == Count(Rest(h), OfWorker(h, w))

Flight(w) == Counted(w) + OnTheWay(w) + Len(tasks[w])
               + Open("handle_job_completed", w) + Open("handle_task_failed", w)

\* A handler that has made a call for its first event still has that event.
StagesOK == \A h \in Accounting : stage[h] > 0 => inbox[h] # <<>>

\* While no worker is lost: nobody is suspected, ...
NobodySuspected ==
    /\ \A w \in registered : fresh[w]
    /\ inbox["handle_worker_failure"] = <<>>
    /\ inbox["handle_worker_failed"] = <<>>
    /\ requeue = {}

\* ... every worker registers once, ...
RegistersOnce ==
    /\ \A i \in DOMAIN inbox["handle_register"] :
          inbox["handle_register"][i].worker \in alive \ registered
    /\ \A i, k \in DOMAIN inbox["handle_register"] :
          inbox["handle_register"][i].worker = inbox["handle_register"][k].worker
             => i = k

\* ... tasks are only given to registered workers, which are alive, ...
GivenToRegistered ==
    /\ registered \subseteq alive
    /\ assigner.todo \cup assigner.cand \subseteq registered
    /\ Holding => assigner.worker \in registered
    /\ \A i \in DOMAIN inbox["send_to_worker"] :
          inbox["send_to_worker"][i].worker \in registered

\* ... and the loads are exact.
LoadsExact ==
    /\ \A w \in Worker : load[w] = Flight(w)
    /\ \A w \in Worker \ registered : load[w] = 0

Calm == NoFaults =>
    NobodySuspected /\ RegistersOnce /\ GivenToRegistered /\ LoadsExact

\* What the first event of an inbox is and what remains of the others.
LEMMA InboxAfter ==
    ASSUME IInv
    PROVE  /\ \A topic, e : Publish(topic, e) => \A h \in Handler :
                 inbox'[h] = IF h \in Subscriptions[topic]
                             THEN Append(inbox[h], e) ELSE inbox[h]
           /\ \A h \in Handler : inbox' = [inbox EXCEPT ![h] = Tail(@)] =>
                 \A g \in Handler :
                    inbox'[g] = IF g = h THEN Tail(inbox[h]) ELSE inbox[g]
           /\ \A h \in Handler : inbox[h] # <<>> =>
                 /\ Len(inbox[h]) \in Nat \ {0}
                 /\ 1 \in DOMAIN inbox[h]
                 /\ First(h) = inbox[h][1]
                 /\ First(h) \in EventFor(h)
<1>1. inbox \in [Handler -> UNION {Seq(EventFor(h)) : h \in Handler}]
  BY Parts DEF BusOK, InboxOK
<1>2. \A topic, e : Publish(topic, e) => \A h \in Handler :
         inbox'[h] = IF h \in Subscriptions[topic]
                     THEN Append(inbox[h], e) ELSE inbox[h]
  BY DEF Publish
<1>3. ASSUME NEW h \in Handler, inbox' = [inbox EXCEPT ![h] = Tail(@)]
      PROVE  \A g \in Handler :
                inbox'[g] = IF g = h THEN Tail(inbox[h]) ELSE inbox[g]
  BY <1>1, <1>3
<1>4. ASSUME NEW h \in Handler, inbox[h] # <<>>
      PROVE  /\ Len(inbox[h]) \in Nat \ {0}
             /\ 1 \in DOMAIN inbox[h]
             /\ First(h) = inbox[h][1]
             /\ First(h) \in EventFor(h)
  <2>1. inbox[h] \in Seq(EventFor(h))
    BY Parts DEF BusOK, InboxOK
  <2>2. Len(inbox[h]) \in Nat \ {0} /\ DOMAIN inbox[h] = 1 .. Len(inbox[h])
    BY <1>4, <2>1, EmptySeq, LenProperties
  <2>3. 1 \in 1 .. Len(inbox[h])
    BY <2>2
  <2> QED
    BY <2>1, <2>2, <2>3, ElementOfSeq DEF First
<1> QED
  BY <1>2, <1>3, <1>4

LEMMA FlightTypes ==
    ASSUME IInv, StagesOK, NEW w \in Worker
    PROVE  /\ Counted(w) \in Nat /\ OnTheWay(w) \in Nat /\ Len(tasks[w]) \in Nat
           /\ \A h \in Accounting :
                 /\ Rest(h) \in Seq(EventFor(h))
                 /\ Open(h, w) \in Nat
           /\ Flight(w) \in Nat
<1>1. Counted(w) \in Nat
  BY DEF Counted, OneIf
<1>2. OnTheWay(w) \in Nat
  <2>1. inbox["send_to_worker"] \in Seq(EventFor("send_to_worker"))
    BY Parts, Handlers DEF BusOK, InboxOK
  <2> QED
    BY <2>1, CountType DEF OnTheWay
<1>3. Len(tasks[w]) \in Nat
  BY Parts, LenProperties DEF NodesOK
<1>4. ASSUME NEW h \in Accounting
      PROVE  Rest(h) \in Seq(EventFor(h)) /\ Open(h, w) \in Nat
  <2>1. inbox[h] \in Seq(EventFor(h))
    BY Parts, Handlers DEF BusOK, InboxOK, Accounting
  <2>2. stage[h] > 0 => Tail(inbox[h]) \in Seq(EventFor(h))
    BY <2>1, HeadTailProperties DEF StagesOK
  <2>3. Rest(h) \in Seq(EventFor(h))
    BY <2>1, <2>2 DEF Rest
  <2> QED
    BY <2>3, CountType DEF Open
<1>5. Flight(w) \in Nat
  BY <1>1, <1>2, <1>3, <1>4 DEF Flight, Accounting
<1> QED
  BY <1>1, <1>2, <1>3, <1>4, <1>5

\* The tasks the property counts are these.
LEMMA FlightIs ==
    ASSUME IInv, StagesOK, NEW w \in Worker
    PROVE  InFlight(w) = Flight(w)
<1>1. \A h \in Handler : inbox[h] \in Seq(EventFor(h))
  BY Parts DEF BusOK, InboxOK
<1>2. ASSUME NEW h \in Handler
      PROVE  Cardinality({i \in DOMAIN inbox[h] : inbox[h][i].worker = w})
               = Count(inbox[h], OfWorker(h, w))
  <2>1. \A i \in DOMAIN inbox[h] : inbox[h][i] \in EventFor(h)
    BY <1>1, LenProperties, ElementOfSeq
  <2>2. {i \in DOMAIN inbox[h] : inbox[h][i].worker = w}
          = Hits(inbox[h], OfWorker(h, w))
    BY <2>1 DEF Hits, OfWorker
  <2> QED
    BY <2>2 DEF Count
<1>3. ASSUME NEW h \in Accounting
      PROVE  Count(inbox[h], OfWorker(h, w))
               - (IF stage[h] > 0 /\ First(h).worker = w THEN 1 ELSE 0) = Open(h, w)
  <2>1. h \in Handler /\ inbox[h] \in Seq(EventFor(h))
    BY <1>1, Handlers DEF Accounting
  <2>2. Count(inbox[h], OfWorker(h, w)) \in Nat /\ Open(h, w) \in Nat
    BY <2>1, CountType, FlightTypes
  <2>3. CASE stage[h] > 0
    <3>1. inbox[h] # <<>>
      BY <2>3 DEF StagesOK
    <3>2. Count(inbox[h], OfWorker(h, w))
             = Count(Tail(inbox[h]), OfWorker(h, w)) + One(First(h), OfWorker(h, w))
      BY <2>1, <3>1, CountTail DEF First
    <3>3. One(First(h), OfWorker(h, w)) = IF First(h).worker = w THEN 1 ELSE 0
      BY <2>1, <3>1, InboxAfter DEF One, OfWorker
    <3>4. Open(h, w) = Count(Tail(inbox[h]), OfWorker(h, w))
      BY <2>3 DEF Open, Rest
    <3> QED
      BY <2>2, <2>3, <3>2, <3>3, <3>4
  <2>4. CASE ~(stage[h] > 0)
    BY <2>2, <2>4 DEF Open, Rest
  <2> QED
    BY <2>3, <2>4
<1>4. /\ Count(inbox["send_to_worker"], OfWorker("send_to_worker", w)) = OnTheWay(w)
      /\ (IF assigner.pc = "publish" /\ assigner.worker = w THEN 1 ELSE 0) = Counted(w)
  BY DEF OnTheWay, Counted, OneIf
<1> QED
  BY <1>2, <1>3, <1>4, Handlers
  DEF InFlight, CountIn, IndicesOf, Flight, Accounting

\* What a step does to the bus.
LEMMA BusKinds ==
    ASSUME IInv, [Next]_vars
    PROVE  \/ UNCHANGED busVars
           \/ /\ UNCHANGED stage
              /\ \/ \E j \in Job : Submit(j)
                 \/ \E w \in Worker : Start(w)
                 \/ \E w \in Worker : MonitorReports(w)
                 \/ PublishAssignment
                 \/ \E w \in Worker : \E i \in 1 .. Len(tasks[w]) : ExecuteTask(w, i)
           \/ \E h \in Handler \ Accounting : Consume(h)
           \/ \E h \in Accounting : inbox[h] # <<>> /\ (StayIn(h) \/ LeaveFrom(h))
<1>1. CASE Next
  BY <1>1, Handlers
  DEF Next, Assigner, Failover, TaskFailedHandler, JobCompletedHandler, Accounting,
      busVars, Submit, Start, Crash, ExecuteTask, GoSilent, CoolDown, StoreReady,
      HandleRegister, PersistWorker, SendHeartbeat, HandleHeartbeat, MonitorReports,
      HandleWorkerFailure, FailoverScan, FailoverRequeue, HandleJobSubmitted,
      PersistTask, PickWorkers, CheckWorker, PickNothing, ChooseWorker,
      IncrementLoad, PublishAssignment, SendToWorker, PersistTaskAssigned,
      FreeCapacity, NoteSuccess, PersistTaskCompleted, NoteFailure, RetryOrBury, Call
<1>2. CASE UNCHANGED vars
  BY <1>2 DEF vars
<1> QED
  BY <1>1, <1>2, SMTT(30)

\* The event a worker reports with, and the inboxes it goes to.
LEMMA OutcomeEvent ==
    ASSUME IInv, NEW w \in Worker, NEW i \in 1 .. Len(tasks[w]), ExecuteTask(w, i)
    PROVE  \E e : /\ e.worker = w
                  /\ \A h \in Accounting : e \in EventFor(h)
                  /\ \/ /\ inbox'["handle_job_completed"]
                              = Append(inbox["handle_job_completed"], e)
                        /\ inbox'["handle_task_failed"] = inbox["handle_task_failed"]
                     \/ /\ inbox'["handle_task_failed"]
                              = Append(inbox["handle_task_failed"], e)
                        /\ inbox'["handle_job_completed"] = inbox["handle_job_completed"]
                  /\ \A h \in {"handle_register", "send_to_worker",
                               "handle_worker_failure", "handle_worker_failed"} :
                        inbox'[h] = inbox[h]
<1> DEFINE c == tasks[w][i]
           e == [worker |-> w, job |-> c]
<1>1. Publish("TASK_FAILED", e) \/ Publish("JOB_COMPLETED", e)
  BY DEF ExecuteTask
<1>2. c \in Copy
  BY Parts, ElementOfSeq DEF NodesOK
<1>3. e.worker = w /\ \A h \in Accounting : e \in EventFor(h)
  BY <1>2, Handlers DEF EventFor, Accounting
<1> HIDE DEF e
<1>4. \/ /\ inbox'["handle_job_completed"] = Append(inbox["handle_job_completed"], e)
         /\ inbox'["handle_task_failed"] = inbox["handle_task_failed"]
      \/ /\ inbox'["handle_task_failed"] = Append(inbox["handle_task_failed"], e)
         /\ inbox'["handle_job_completed"] = inbox["handle_job_completed"]
  <2>1. {"handle_job_completed", "handle_task_failed"} \subseteq Handler
    BY Handlers
  <2>2. CASE Publish("TASK_FAILED", e)
    <3>1. /\ "handle_task_failed" \in Subscriptions["TASK_FAILED"]
          /\ "handle_job_completed" \notin Subscriptions["TASK_FAILED"]
      BY DEF Subscriptions
    <3> QED
      BY <2>1, <2>2, <3>1, InboxAfter
  <2>3. CASE Publish("JOB_COMPLETED", e)
    <3>1. /\ "handle_job_completed" \in Subscriptions["JOB_COMPLETED"]
          /\ "handle_task_failed" \notin Subscriptions["JOB_COMPLETED"]
      BY DEF Subscriptions
    <3> QED
      BY <2>1, <2>3, <3>1, InboxAfter
  <2> QED
    BY <1>1, <2>2, <2>3
<1>5. \A h \in {"handle_register", "send_to_worker",
                "handle_worker_failure", "handle_worker_failed"} :
         inbox'[h] = inbox[h]
  BY <1>1, InboxAfter, Handlers DEF Subscriptions
<1> QED
  BY <1>3, <1>4, <1>5

LEMMA StagesStep == IInv /\ StagesOK /\ [Next]_vars => StagesOK'
<1> SUFFICES ASSUME IInv, StagesOK, [Next]_vars, NEW h \in Accounting, stage'[h] > 0
             PROVE  inbox'[h] # <<>>
  BY DEF StagesOK
<1>1. /\ stage \in [Handler -> 0 .. 2] /\ h \in Handler
      /\ inbox[h] \in Seq(EventFor(h))
  BY Parts, Handlers DEF BusOK, InboxOK, Accounting
<1>2. CASE UNCHANGED busVars
  BY <1>2 DEF busVars, StagesOK
<1>3. CASE /\ UNCHANGED stage
           /\ \/ \E j \in Job : Submit(j)
              \/ \E w \in Worker : Start(w)
              \/ \E w \in Worker : MonitorReports(w)
              \/ PublishAssignment
  <2>1. \A topic \in {"JOB_SUBMITTED", "REGISTER", "WORKER_FAILED", "TASK_ASSIGNED"} :
           h \notin Subscriptions[topic]
    BY DEF Accounting, Subscriptions
  <2>2. inbox'[h] = inbox[h]
    BY <1>1, <1>3, <2>1
    DEF Submit, Start, MonitorReports, PublishAssignment, Publish
  <2> QED
    BY <1>3, <2>2 DEF StagesOK
<1>4. CASE /\ UNCHANGED stage
           /\ \E w \in Worker : \E i \in 1 .. Len(tasks[w]) : ExecuteTask(w, i)
  <2>1. PICK w \in Worker : \E i \in 1 .. Len(tasks[w]) : ExecuteTask(w, i)
    BY <1>4
  <2>2. PICK i \in 1 .. Len(tasks[w]) : ExecuteTask(w, i)
    BY <2>1
  <2>3. PICK e : /\ e \in EventFor(h)
                 /\ inbox'[h] = Append(inbox[h], e) \/ inbox'[h] = inbox[h]
    BY <2>2, OutcomeEvent DEF Accounting
  <2> QED
    BY <1>1, <1>4, <2>3, AppendProperties DEF StagesOK
<1>5. CASE \E g \in Handler \ Accounting : Consume(g)
  BY <1>1, <1>5, InboxAfter DEF Consume, StagesOK
<1>6. ASSUME NEW g \in Accounting, inbox[g] # <<>>, StayIn(g)
      PROVE  inbox'[h] # <<>>
  BY <1>1, <1>6 DEF StayIn, StagesOK
<1>7. ASSUME NEW g \in Accounting, inbox[g] # <<>>, LeaveFrom(g)
      PROVE  inbox'[h] # <<>>
  <2>1. g \in Handler
    BY Handlers DEF Accounting
  <2>2. g # h
    BY <1>1, <1>7 DEF LeaveFrom
  <2>3. inbox'[h] = inbox[h] /\ stage'[h] = stage[h]
    BY <1>1, <1>7, <2>1, <2>2, InboxAfter DEF LeaveFrom
  <2> QED
    BY <2>3 DEF StagesOK
<1> QED
  BY <1>2, <1>3, <1>4, <1>5, <1>6, <1>7, BusKinds

-----------------------------------------------------------------------------
(* Steps without a lost worker *)

\* The steps that are possible while no worker is lost.
FaultFree ==
    \/ \E j \in Job : Submit(j)
    \/ \E w \in Worker : Start(w)
    \/ \E w \in Worker : \E i \in 1 .. Len(tasks[w]) : ExecuteTask(w, i)
    \/ \E w \in Worker : CoolDown(w) \/ SendHeartbeat(w) \/ HandleHeartbeat(w)
    \/ StoreReady
    \/ HandleRegister
    \/ PersistWorker
    \/ HandleJobSubmitted
    \/ PersistTask
    \/ Assigner
    \/ SendToWorker
    \/ PersistTaskAssigned
    \/ JobCompletedHandler
    \/ PersistTaskCompleted
    \/ TaskFailedHandler
    \/ UNCHANGED vars

\* Nobody dies or falls silent, so nobody is reported, evicted or failed over.
LEMMA FaultFreeSteps ==
    ASSUME IInv, Calm, [Next]_vars, NoFaults'
    PROVE  NoFaults /\ FaultFree
<1> USE DEF busVars, regVars, dbVars, retryVars, nodeVars, envVars, histVars
<1>1. crashes \in Nat /\ silences \in Nat
  BY Parts DEF RetriesOK, CountsOK
<1>2. \A w \in Worker : ~Crash(w)
  BY <1>1 DEF Crash, NoFaults
<1>3. \A w \in Worker : GoSilent(w) =>
         NoFaults /\ w \in registered \ alive
  BY <1>1, SMTT(30) DEF GoSilent, NoFaults
<1>4. NoFaults
  BY <1>2, <1>3
  DEF NoFaults, Next, Assigner, Failover, TaskFailedHandler, JobCompletedHandler,
      vars, Submit, Start, ExecuteTask, CoolDown, StoreReady,
      HandleRegister, PersistWorker, SendHeartbeat, HandleHeartbeat, MonitorReports,
      HandleWorkerFailure, FailoverScan, FailoverRequeue, HandleJobSubmitted,
      PersistTask, PickWorkers, CheckWorker, PickNothing, ChooseWorker,
      IncrementLoad, PublishAssignment, SendToWorker, PersistTaskAssigned,
      FreeCapacity, NoteSuccess, PersistTaskCompleted, NoteFailure, RetryOrBury
<1>5. NobodySuspected /\ registered \subseteq alive
  BY <1>4 DEF Calm, GivenToRegistered
<1>6. /\ \A w \in Worker : ~GoSilent(w) /\ ~MonitorReports(w)
      /\ ~HandleWorkerFailure /\ ~FailoverScan
      /\ \A j \in Job : ~FailoverRequeue(j)
  BY <1>3, <1>5
  DEF NobodySuspected, MonitorReports, HandleWorkerFailure, FailoverScan,
      FailoverRequeue, Consume
<1> QED
  BY <1>2, <1>4, <1>6 DEF Next, Failover, FaultFree

\* The inboxes of registrations, assignments and suspicions under such a step.
LEMMA FaultFreeInboxes ==
    ASSUME IInv, FaultFree
    PROVE  /\ \A h \in {"handle_worker_failure", "handle_worker_failed"} :
                 inbox'[h] = inbox[h]
           /\ \/ inbox'["handle_register"] = inbox["handle_register"]
              \/ \E w \in Worker : Start(w)
              \/ HandleRegister
           /\ \/ inbox'["send_to_worker"] = inbox["send_to_worker"]
              \/ PublishAssignment
              \/ SendToWorker
<1> DEFINE Some == {"handle_worker_failure", "handle_worker_failed",
                    "handle_register", "send_to_worker"}
<1> USE DEF busVars
<1>1. Some \subseteq Handler
  BY Handlers
<1>2. ASSUME UNCHANGED inbox PROVE \A h \in Some : inbox'[h] = inbox[h]
  BY <1>2
<1>3. ASSUME NEW h \in Handler \ Some, inbox' = [inbox EXCEPT ![h] = Tail(@)]
      PROVE  \A g \in Some : inbox'[g] = inbox[g]
  BY <1>1, <1>3, InboxAfter
<1>4. ASSUME NEW j \in Job, Submit(j) PROVE \A h \in Some : inbox'[h] = inbox[h]
  <2>1. \A h \in Some : h \notin Subscriptions["JOB_SUBMITTED"]
    BY DEF Subscriptions
  <2> QED
    BY <1>1, <1>4, <2>1, InboxAfter DEF Submit
<1>5. ASSUME NEW w \in Worker, Start(w)
      PROVE  \A h \in Some \ {"handle_register"} : inbox'[h] = inbox[h]
  <2>1. \A h \in Some \ {"handle_register"} : h \notin Subscriptions["REGISTER"]
    BY DEF Subscriptions
  <2> QED
    BY <1>1, <1>5, <2>1, InboxAfter DEF Start
<1>6. ASSUME PublishAssignment
      PROVE  \A h \in Some \ {"send_to_worker"} : inbox'[h] = inbox[h]
  <2>1. \A h \in Some \ {"send_to_worker"} : h \notin Subscriptions["TASK_ASSIGNED"]
    BY DEF Subscriptions
  <2> QED
    BY <1>1, <1>6, <2>1, InboxAfter DEF PublishAssignment
<1>7. ASSUME NEW w \in Worker, NEW i \in 1 .. Len(tasks[w]), ExecuteTask(w, i)
      PROVE  \A h \in Some : inbox'[h] = inbox[h]
  BY <1>7, OutcomeEvent
<1>8. HandleRegister => \A h \in Some \ {"handle_register"} : inbox'[h] = inbox[h]
  BY <1>1, InboxAfter DEF HandleRegister, Consume
<1>9. SendToWorker => \A h \in Some \ {"send_to_worker"} : inbox'[h] = inbox[h]
  BY <1>1, InboxAfter DEF SendToWorker, Consume
<1>10. CASE PersistWorker \/ HandleJobSubmitted \/ PersistTask \/ PersistTaskAssigned
            \/ PersistTaskCompleted \/ NoteSuccess \/ RetryOrBury
  BY <1>3, <1>10, Handlers
  DEF PersistWorker, HandleJobSubmitted, PersistTask, PersistTaskAssigned,
      PersistTaskCompleted, NoteSuccess, RetryOrBury, Consume, LeaveFrom
<1>11. CASE \/ \E w \in Worker : \/ CoolDown(w) \/ SendHeartbeat(w) \/ HandleHeartbeat(w)
                                 \/ CheckWorker(w) \/ ChooseWorker(w)
            \/ StoreReady \/ PickWorkers \/ PickNothing \/ IncrementLoad
            \/ FreeCapacity("handle_task_failed") \/ FreeCapacity("handle_job_completed")
            \/ NoteFailure \/ UNCHANGED vars
  <2>1. UNCHANGED inbox
    BY <1>11
    DEF CoolDown, SendHeartbeat, HandleHeartbeat, CheckWorker, ChooseWorker,
        StoreReady, PickWorkers, PickNothing, IncrementLoad, FreeCapacity,
        NoteFailure, StayIn, vars
  <2> QED
    BY <1>2, <2>1, SMTT(30)
<1> QED
  BY <1>4, <1>5, <1>6, <1>7, <1>8, <1>9, <1>10, <1>11
  DEF FaultFree, Assigner, JobCompletedHandler, TaskFailedHandler

LEMMA NobodySuspectedStep ==
    ASSUME IInv, NobodySuspected, FaultFree
    PROVE  NobodySuspected'
<1> USE DEF busVars, regVars, dbVars, retryVars, nodeVars, envVars, histVars
<1>1. /\ inbox'["handle_worker_failure"] = <<>>
      /\ inbox'["handle_worker_failed"] = <<>>
  BY FaultFreeInboxes, SMTT(30) DEF NobodySuspected
<1>2. requeue' = {}
  BY ZenonT(40) DEF NobodySuspected, FaultFree, Assigner, JobCompletedHandler, TaskFailedHandler,
      vars, Submit, Start, ExecuteTask, CoolDown, StoreReady, HandleRegister,
      PersistWorker, SendHeartbeat, HandleHeartbeat, HandleJobSubmitted, PersistTask,
      PickWorkers, CheckWorker, PickNothing, ChooseWorker, IncrementLoad, PublishAssignment,
      SendToWorker, PersistTaskAssigned, FreeCapacity, NoteSuccess,
      PersistTaskCompleted, NoteFailure, RetryOrBury
<1>3. fresh \in [Worker -> BOOLEAN] /\ registered \subseteq Worker
  BY Parts DEF LoadsOK, RegOK
<1>4. \A w \in registered' : fresh'[w]
  <2>1. CASE HandleRegister
    <3> DEFINE w == First("handle_register").worker
    <3>1. w \in Worker
      BY <2>1, HandlerSteps, Handlers DEF HandleRegister, EventFor
    <3>2. /\ registered' = registered \cup {w}
          /\ fresh' = [fresh EXCEPT ![w] = TRUE]
      BY <2>1 DEF HandleRegister
    <3> HIDE DEF w
    <3> QED
      BY <1>3, <3>1, <3>2 DEF NobodySuspected
  <2>2. ASSUME NEW w \in Worker, HandleHeartbeat(w)
        PROVE  \A v \in registered' : fresh'[v]
    BY <1>3, <2>2 DEF HandleHeartbeat, NobodySuspected
  <2>3. CASE UNCHANGED <<registered, fresh>>
    BY <2>3 DEF NobodySuspected
  <2> QED
    BY <2>1, <2>2, <2>3
    DEF FaultFree, Assigner, JobCompletedHandler, TaskFailedHandler,
      vars, Submit, Start, ExecuteTask, CoolDown, StoreReady,
      PersistWorker, SendHeartbeat, HandleJobSubmitted, PersistTask, PickWorkers,
      CheckWorker, PickNothing, ChooseWorker, IncrementLoad, PublishAssignment,
      SendToWorker, PersistTaskAssigned, FreeCapacity, NoteSuccess,
      PersistTaskCompleted, NoteFailure, RetryOrBury
<1> QED
  BY <1>1, <1>2, <1>4 DEF NobodySuspected

\* Workers only join.
LEMMA FaultFreeWorkers ==
    ASSUME IInv, FaultFree
    PROVE  /\ \/ UNCHANGED registered
              \/ /\ HandleRegister
                 /\ inbox["handle_register"] # <<>>
                 /\ registered' = registered \cup {First("handle_register").worker}
           /\ \/ UNCHANGED alive
              \/ \E w \in Worker : Start(w)
<1> USE DEF busVars, regVars, dbVars, retryVars, nodeVars, envVars, histVars
<1>1. \/ UNCHANGED registered
      \/ /\ HandleRegister
         /\ inbox["handle_register"] # <<>>
         /\ registered' = registered \cup {First("handle_register").worker}
  BY ZenonT(40) DEF FaultFree, Assigner, JobCompletedHandler, TaskFailedHandler,
      vars, Submit, Start, ExecuteTask, CoolDown, StoreReady, HandleRegister, Consume,
      PersistWorker, SendHeartbeat, HandleHeartbeat, HandleJobSubmitted, PersistTask,
      PickWorkers, CheckWorker, PickNothing, ChooseWorker, IncrementLoad, PublishAssignment,
      SendToWorker, PersistTaskAssigned, FreeCapacity, NoteSuccess,
      PersistTaskCompleted, NoteFailure, RetryOrBury
<1>2. \/ UNCHANGED alive
      \/ \E w \in Worker : Start(w)
  BY DEF FaultFree, Assigner, JobCompletedHandler, TaskFailedHandler,
      vars, Submit, ExecuteTask, CoolDown, StoreReady, HandleRegister,
      PersistWorker, SendHeartbeat, HandleHeartbeat, HandleJobSubmitted, PersistTask,
      PickWorkers, CheckWorker, PickNothing, ChooseWorker, IncrementLoad, PublishAssignment,
      SendToWorker, PersistTaskAssigned, FreeCapacity, NoteSuccess,
      PersistTaskCompleted, NoteFailure, RetryOrBury
<1> QED
  BY <1>1, <1>2, SMTT(30)

LEMMA RegistersOnceStep ==
    ASSUME IInv, RegistersOnce, registered \subseteq alive, FaultFree
    PROVE  RegistersOnce'
<1> DEFINE h == "handle_register"
           s == inbox[h]
<1>1. h \in Handler /\ s \in Seq(EventFor(h))
  BY Parts, Handlers DEF BusOK, InboxOK
<1>2. Len(s) \in Nat /\ DOMAIN s = 1 .. Len(s)
  BY <1>1, LenProperties
<1>3. /\ \A i \in DOMAIN s : s[i].worker \in alive \ registered
      /\ \A i, k \in DOMAIN s : s[i].worker = s[k].worker => i = k
  BY DEF RegistersOnce
<1>4. ASSUME NEW w \in Worker, Start(w) PROVE RegistersOnce'
  <2> DEFINE e == [worker |-> w, job |-> None]
             n == Len(s) + 1
  <2>1. /\ w \notin alive /\ alive' = alive \cup {w} /\ registered' = registered
        /\ Publish("REGISTER", e)
    BY <1>4 DEF Start, regVars
  <2>2. e \in EventFor(h) /\ h \in Subscriptions["REGISTER"] /\ e.worker = w
    BY Handlers DEF EventFor, Subscriptions
  <2> HIDE DEF e
  <2>3. inbox'[h] = Append(s, e)
    BY <1>1, <2>1, <2>2, InboxAfter
  <2>4. /\ Append(s, e) \in Seq(EventFor(h)) /\ Len(Append(s, e)) = n
        /\ \A i \in 1 .. Len(s) : Append(s, e)[i] = s[i]
        /\ Append(s, e)[n] = e
    BY <1>1, <2>2, AppendProperties
  <2>5. DOMAIN Append(s, e) = 1 .. n
    BY <2>4, LenProperties
  <2> HIDE DEF h, s
  <2>6. \A i \in 1 .. n : i \in 1 .. Len(s) \/ i = n
    BY <1>2
  <2>7. \A i \in 1 .. n : Append(s, e)[i].worker \in alive' \ registered'
    BY <1>2, <1>3, <2>1, <2>2, <2>4, <2>6
  <2>8. \A i, k \in 1 .. n : Append(s, e)[i].worker = Append(s, e)[k].worker => i = k
    BY <1>2, <1>3, <2>1, <2>2, <2>4, <2>6
  <2> QED
    BY <2>3, <2>5, <2>7, <2>8 DEF RegistersOnce, h
<1>5. CASE HandleRegister
  <2> DEFINE w == First(h).worker
  <2>1. /\ s # <<>> /\ inbox' = [inbox EXCEPT ![h] = Tail(@)]
        /\ registered' = registered \cup {w} /\ UNCHANGED alive
    BY <1>5 DEF HandleRegister, Consume, nodeVars
  <2>2. inbox'[h] = Tail(s)
    BY <1>1, <2>1, InboxAfter
  <2>3. 1 \in DOMAIN s /\ w = s[1].worker
    BY <1>1, <2>1, InboxAfter
  <2>4. /\ Tail(s) \in Seq(EventFor(h)) /\ Len(Tail(s)) = Len(s) - 1
        /\ \A i \in 1 .. Len(Tail(s)) : Tail(s)[i] = s[i + 1]
    BY <1>1, <2>1, HeadTailProperties
  <2>5. DOMAIN Tail(s) = 1 .. Len(s) - 1
    BY <2>4, LenProperties
  <2> HIDE DEF h, s, w
  <2>6. \A i \in 1 .. Len(s) - 1 : i \in Nat /\ i + 1 \in DOMAIN s /\ i + 1 # 1
    BY <1>2
  <2>7. \A i \in 1 .. Len(s) - 1 : Tail(s)[i].worker \in alive \ (registered \cup {w})
    BY <1>3, <2>3, <2>4, <2>6
  <2>8. \A i, k \in 1 .. Len(s) - 1 : Tail(s)[i].worker = Tail(s)[k].worker => i = k
    <3> SUFFICES ASSUME NEW i \in 1 .. Len(s) - 1, NEW k \in 1 .. Len(s) - 1,
                        Tail(s)[i].worker = Tail(s)[k].worker
                 PROVE  i = k
      OBVIOUS
    <3>1. i + 1 = k + 1
      BY <1>3, <2>4, <2>6
    <3> QED
      BY <2>6, <3>1
  <2> QED
    BY <2>1, <2>2, <2>5, <2>7, <2>8, ZenonT(40) DEF RegistersOnce, h
<1>6. CASE UNCHANGED <<registered, alive, inbox["handle_register"]>>
  BY <1>3, <1>6 DEF RegistersOnce
<1>7. \/ UNCHANGED <<registered, alive, inbox["handle_register"]>>
      \/ HandleRegister
      \/ \E w \in Worker : Start(w)
  BY FaultFreeWorkers, FaultFreeInboxes
<1> QED
  BY <1>4, <1>5, <1>6, <1>7

LEMMA GivenToRegisteredStep ==
    ASSUME IInv, RegistersOnce, GivenToRegistered, FaultFree
    PROVE  GivenToRegistered'
<1> DEFINE h == "send_to_worker"
<1>1. /\ h \in Handler /\ inbox[h] \in Seq(EventFor(h))
      /\ AssignerOK /\ PassOK /\ registered \subseteq Worker
  BY Parts, Handlers DEF BusOK, InboxOK, LoadsOK, RegOK
<1>2. registered \subseteq registered'
  BY FaultFreeWorkers
<1>3. registered' \subseteq alive'
  <2>1. alive \subseteq alive'
    BY FaultFreeWorkers DEF Start
  <2>2. HandleRegister => First("handle_register").worker \in alive
    BY InboxAfter, Handlers DEF RegistersOnce, HandleRegister, Consume
  <2> QED
    BY <2>1, <2>2, FaultFreeWorkers DEF GivenToRegistered
<1>4. /\ (assigner.todo \cup assigner.cand)' \subseteq registered
      /\ Holding' => assigner'.worker \in registered
  <2>1. CASE UNCHANGED assigner
    BY <2>1 DEF GivenToRegistered, Holding
  <2>2. CASE PickWorkers
    <3> DEFINE available == {w \in registered : Capacity[w] > load[w]}
    <3>1. /\ assigner.pc = "idle"
          /\ assigner' = [assigner EXCEPT !.pc = "check", !.todo = available,
                                          !.before = before]
      BY <2>2 DEF PickWorkers, AvailableWorkers
    <3>2. available \subseteq registered
      OBVIOUS
    <3> HIDE DEF available
    <3>3. assigner'.pc = "check" /\ assigner'.todo = available /\ assigner'.cand = {}
      BY <1>1, <3>1 DEF AssignerOK, PassOK
    <3> QED
      BY <3>2, <3>3 DEF Holding
  <2>3. ASSUME NEW w \in Worker, CheckWorker(w)
        PROVE  /\ (assigner.todo \cup assigner.cand)' \subseteq registered
               /\ ~Holding'
    <3>1. /\ assigner.pc = "check" /\ w \in assigner.todo
          /\ assigner' = [assigner EXCEPT
                 !.todo = @ \ {w},
                 !.cand = IF MayAssign(breaker[w]) THEN @ \cup {w} ELSE @]
      BY <2>3 DEF CheckWorker
    <3>2. /\ assigner'.pc = "check"
          /\ assigner'.todo \cup assigner'.cand \subseteq
                assigner.todo \cup assigner.cand
      BY <1>1, <3>1 DEF AssignerOK
    <3> QED
      BY <3>2 DEF GivenToRegistered, Holding
  <2>4. CASE PickNothing \/ PublishAssignment
    BY <2>4 DEF PickNothing, PublishAssignment, Idle, Holding
  <2>5. ASSUME NEW w \in Worker, ChooseWorker(w)
        PROVE  /\ (assigner.todo \cup assigner.cand)' \subseteq registered
               /\ assigner'.worker \in registered
    BY <2>5 DEF ChooseWorker, MostFree, Idle, GivenToRegistered
  <2>6. CASE IncrementLoad
    BY <1>1, <2>6 DEF IncrementLoad, AssignerOK, GivenToRegistered, Holding
  <2> QED
    BY <2>1, <2>2, <2>3, <2>4, <2>5, <2>6
    DEF FaultFree, Assigner, JobCompletedHandler, TaskFailedHandler,
      vars, Submit, Start, ExecuteTask, CoolDown, StoreReady, HandleRegister,
      PersistWorker, SendHeartbeat, HandleHeartbeat, HandleJobSubmitted, PersistTask,
      SendToWorker, PersistTaskAssigned, FreeCapacity, NoteSuccess,
      PersistTaskCompleted, NoteFailure, RetryOrBury
<1>5. \A i \in DOMAIN inbox'[h] : inbox'[h][i].worker \in registered
  <2> DEFINE s == inbox[h]
  <2>1. Len(s) \in Nat /\ DOMAIN s = 1 .. Len(s)
    BY <1>1, LenProperties
  <2>2. \A i \in DOMAIN s : s[i].worker \in registered
    BY DEF GivenToRegistered
  <2>3. CASE PublishAssignment
    <3> DEFINE e == [worker |-> assigner.worker, job |-> assigner.job]
               n == Len(s) + 1
    <3>1. Publish("TASK_ASSIGNED", e) /\ Holding
      BY <2>3 DEF PublishAssignment, Holding
    <3>2. /\ e \in EventFor(h) /\ h \in Subscriptions["TASK_ASSIGNED"]
          /\ e.worker \in registered
      BY <1>1, <3>1, Handlers DEF EventFor, Subscriptions, PassOK, GivenToRegistered
    <3> HIDE DEF e
    <3>3. inbox'[h] = Append(s, e)
      BY <1>1, <3>1, <3>2, InboxAfter
    <3>4. /\ Append(s, e) \in Seq(EventFor(h)) /\ Len(Append(s, e)) = n
          /\ \A i \in 1 .. Len(s) : Append(s, e)[i] = s[i]
          /\ Append(s, e)[n] = e
      BY <1>1, <3>2, AppendProperties
    <3>5. DOMAIN Append(s, e) = 1 .. n
      BY <3>4, LenProperties
    <3> HIDE DEF s
    <3>6. \A i \in 1 .. n : i \in 1 .. Len(s) \/ i = n
      BY <2>1
    <3> QED
      BY <2>1, <2>2, <3>2, <3>3, <3>4, <3>5, <3>6
  <2>4. CASE SendToWorker
    <3>1. s # <<>> /\ inbox'[h] = Tail(s)
      BY <1>1, <2>4, InboxAfter DEF SendToWorker, Consume
    <3>2. /\ Tail(s) \in Seq(EventFor(h)) /\ Len(Tail(s)) = Len(s) - 1
          /\ \A i \in 1 .. Len(Tail(s)) : Tail(s)[i] = s[i + 1]
      BY <1>1, <3>1, HeadTailProperties
    <3>3. DOMAIN Tail(s) = 1 .. Len(s) - 1
      BY <3>2, LenProperties
    <3> HIDE DEF s
    <3>4. \A i \in 1 .. Len(s) - 1 : i + 1 \in DOMAIN s
      BY <2>1
    <3> QED
      BY <2>2, <3>1, <3>2, <3>3, <3>4
  <2> QED
    BY <2>2, <2>3, <2>4, FaultFreeInboxes
<1> QED
  BY <1>2, <1>3, <1>4, <1>5 DEF GivenToRegistered

\* A term of Flight keeps its value after a step that leaves its variables alone.
LEMMA FlightFrame ==
    ASSUME NEW w \in Worker
    PROVE  /\ UNCHANGED assigner => UNCHANGED Counted(w)
           /\ UNCHANGED inbox["send_to_worker"] => UNCHANGED OnTheWay(w)
           /\ \A h \in Accounting : UNCHANGED <<inbox[h], stage[h]>> => UNCHANGED Open(h, w)
BY DEF Counted, OnTheWay, Open, Rest, Accounting

\* An assignment is published for a worker, or sent to it.
LEMMA OnTheWayMoves ==
    ASSUME IInv, NEW w \in Worker
    PROVE  /\ PublishAssignment =>
                 OnTheWay(w)' = OnTheWay(w) + OneIf(assigner.worker = w)
           /\ SendToWorker =>
                 OnTheWay(w) = OnTheWay(w)' + OneIf(First("send_to_worker").worker = w)
                    /\ OnTheWay(w)' \in Nat
<1> DEFINE h == "send_to_worker"
           T == OfWorker(h, w)
<1>1. h \in Handler /\ inbox[h] \in Seq(EventFor(h))
  BY Parts, Handlers DEF BusOK, InboxOK
<1>2. ASSUME PublishAssignment
      PROVE  OnTheWay(w)' = OnTheWay(w) + OneIf(assigner.worker = w)
  <2> DEFINE e == [worker |-> assigner.worker, job |-> assigner.job]
  <2>1. Publish("TASK_ASSIGNED", e) /\ Holding
    BY <1>2 DEF PublishAssignment, Holding
  <2>2. /\ e \in EventFor(h) /\ h \in Subscriptions["TASK_ASSIGNED"]
        /\ e.worker = assigner.worker
    BY <2>1, Parts, Handlers DEF EventFor, Subscriptions, PassOK
  <2> HIDE DEF e
  <2>3. inbox'[h] = Append(inbox[h], e)
    BY <1>1, <2>1, <2>2, InboxAfter
  <2>4. Count(inbox'[h], T) = Count(inbox[h], T) + One(e, T)
    BY <1>1, <2>2, <2>3, CountAppend
  <2>5. One(e, T) = OneIf(assigner.worker = w)
    BY <2>2 DEF One, OneIf, OfWorker
  <2> QED
    BY <2>4, <2>5 DEF OnTheWay
<1>3. ASSUME SendToWorker
      PROVE  OnTheWay(w) = OnTheWay(w)' + OneIf(First(h).worker = w)
               /\ OnTheWay(w)' \in Nat
  <2>1. inbox[h] # <<>> /\ inbox'[h] = Tail(inbox[h])
    BY <1>1, <1>3, InboxAfter DEF SendToWorker, Consume
  <2>2. Count(inbox[h], T) = Count(inbox'[h], T) + One(First(h), T)
    BY <1>1, <2>1, CountTail DEF First
  <2>3. One(First(h), T) = OneIf(First(h).worker = w)
    BY <1>1, <2>1, InboxAfter DEF One, OneIf, OfWorker
  <2>4. Count(inbox'[h], T) \in Nat
    <3>1. inbox'[h] \in Seq(EventFor(h))
      BY <1>1, <2>1, HeadTailProperties
    <3> QED
      BY <3>1, CountType
  <2> QED
    BY <2>2, <2>3, <2>4 DEF OnTheWay
<1> QED
  BY <1>2, <1>3

\* An outcome is reported, or the first call for it is made; the other calls
\* leave what is still to account for as it is.
LEMMA OpenMoves ==
    ASSUME IInv, StagesOK, NEW w \in Worker
    PROVE  /\ \A v \in Worker : \A i \in 1 .. Len(tasks[v]) : ExecuteTask(v, i) =>
                 \/ /\ Open("handle_job_completed", w)'
                          = Open("handle_job_completed", w) + OneIf(v = w)
                    /\ UNCHANGED Open("handle_task_failed", w)
                 \/ /\ Open("handle_task_failed", w)'
                          = Open("handle_task_failed", w) + OneIf(v = w)
                    /\ UNCHANGED Open("handle_job_completed", w)
           /\ \A h \in Accounting : FreeCapacity(h) =>
                 /\ Open(h, w) = Open(h, w)' + OneIf(First(h).worker = w)
                 /\ Open(h, w)' \in Nat
                 /\ \A g \in Accounting \ {h} : UNCHANGED Open(g, w)
           /\ NoteSuccess \/ NoteFailure \/ RetryOrBury =>
                 \A h \in Accounting : UNCHANGED Open(h, w)
<1>1. /\ \A h \in Accounting : h \in Handler /\ inbox[h] \in Seq(EventFor(h))
      /\ inbox \in [Handler -> UNION {Seq(EventFor(h)) : h \in Handler}]
      /\ stage \in [Handler -> 0 .. 2]
  BY Parts, Handlers DEF BusOK, InboxOK, Accounting
<1>2. ASSUME NEW v \in Worker, NEW i \in 1 .. Len(tasks[v]), ExecuteTask(v, i)
      PROVE  \/ /\ Open("handle_job_completed", w)'
                      = Open("handle_job_completed", w) + OneIf(v = w)
                /\ UNCHANGED Open("handle_task_failed", w)
             \/ /\ Open("handle_task_failed", w)'
                      = Open("handle_task_failed", w) + OneIf(v = w)
                /\ UNCHANGED Open("handle_job_completed", w)
  <2>1. PICK e :
           /\ e.worker = v
           /\ \A h \in Accounting : e \in EventFor(h)
           /\ \/ /\ inbox'["handle_job_completed"]
                       = Append(inbox["handle_job_completed"], e)
                 /\ inbox'["handle_task_failed"] = inbox["handle_task_failed"]
              \/ /\ inbox'["handle_task_failed"]
                       = Append(inbox["handle_task_failed"], e)
                 /\ inbox'["handle_job_completed"] = inbox["handle_job_completed"]
    BY <1>2, OutcomeEvent
  <2>2. UNCHANGED stage
    BY <1>2 DEF ExecuteTask
  <2>3. ASSUME NEW h \in Accounting, inbox'[h] = Append(inbox[h], e)
        PROVE  Open(h, w)' = Open(h, w) + OneIf(v = w)
    <3> DEFINE T == OfWorker(h, w)
    <3>1. e \in EventFor(h) /\ inbox[h] \in Seq(EventFor(h))
      BY <1>1, <2>1, <2>3
    <3>2. Rest(h)' = Append(Rest(h), e)
      <4>1. CASE stage[h] > 0
        <5>1. inbox[h] # <<>>
          BY <4>1 DEF StagesOK
        <5>2. Tail(Append(inbox[h], e)) = Append(Tail(inbox[h]), e)
          BY <3>1, <5>1, HeadTailAppend
        <5> QED
          BY <2>2, <2>3, <4>1, <5>2 DEF Rest
      <4>2. CASE ~(stage[h] > 0)
        BY <2>2, <2>3, <4>2 DEF Rest
      <4> QED
        BY <4>1, <4>2
    <3>3. Rest(h) \in Seq(EventFor(h))
      BY FlightTypes
    <3>4. Count(Rest(h)', T) = Count(Rest(h), T) + One(e, T)
      BY <3>1, <3>2, <3>3, CountAppend
    <3>5. One(e, T) = OneIf(v = w)
      BY <2>1, <3>1 DEF One, OneIf, OfWorker
    <3> QED
      BY <3>4, <3>5 DEF Open
  <2>4. \A h \in Accounting : UNCHANGED inbox[h] => UNCHANGED Open(h, w)
    BY <2>2, FlightFrame
  <2> QED
    BY <2>1, <2>3, <2>4 DEF Accounting
<1>3. ASSUME NEW h \in Accounting, FreeCapacity(h)
      PROVE  /\ Open(h, w) = Open(h, w)' + OneIf(First(h).worker = w)
             /\ Open(h, w)' \in Nat
             /\ \A g \in Accounting \ {h} : UNCHANGED Open(g, w)
  <2> DEFINE T == OfWorker(h, w)
  <2>1. /\ inbox[h] # <<>> /\ stage[h] = 0 /\ inbox' = inbox
        /\ stage' = [stage EXCEPT ![h] = @ + 1]
    BY <1>3 DEF FreeCapacity, Call, StayIn
  <2>2. stage'[h] = 1 /\ \A g \in Accounting \ {h} : stage'[g] = stage[g]
    BY <1>1, <2>1
  <2>3. Open(h, w) = Count(inbox[h], T) /\ Open(h, w)' = Count(Tail(inbox[h]), T)
    BY <2>1, <2>2 DEF Open, Rest
  <2>4. Count(inbox[h], T) = Count(Tail(inbox[h]), T) + One(First(h), T)
    BY <1>1, <2>1, CountTail DEF First
  <2>5. One(First(h), T) = OneIf(First(h).worker = w)
    BY <1>1, <2>1, InboxAfter DEF One, OneIf, OfWorker
  <2>6. Count(Tail(inbox[h]), T) \in Nat
    <3>1. Tail(inbox[h]) \in Seq(EventFor(h))
      BY <1>1, <2>1, HeadTailProperties
    <3> QED
      BY <3>1, CountType
  <2>7. \A g \in Accounting \ {h} : UNCHANGED Open(g, w)
    BY <2>1, <2>2, FlightFrame
  <2> QED
    BY <2>3, <2>4, <2>5, <2>6, <2>7
<1>4. ASSUME NEW h \in Accounting, NEW n \in 1 .. 2, Call(h, n), StayIn(h) \/ LeaveFrom(h)
      PROVE  \A g \in Accounting : UNCHANGED Open(g, w)
  <2>1. /\ inbox[h] # <<>> /\ stage[h] > 0
        /\ \/ UNCHANGED inbox /\ stage' = [stage EXCEPT ![h] = @ + 1]
           \/ /\ inbox' = [inbox EXCEPT ![h] = Tail(@)]
              /\ stage' = [stage EXCEPT ![h] = 0]
    BY <1>4 DEF Call, StayIn, LeaveFrom
  <2>2. \/ inbox'[h] = inbox[h] /\ stage'[h] > 0
        \/ inbox'[h] = Tail(inbox[h]) /\ ~(stage'[h] > 0)
    <3>1. stage[h] \in 0 .. 2 /\ h \in Handler
      BY <1>1
    <3>2. CASE UNCHANGED inbox /\ stage' = [stage EXCEPT ![h] = @ + 1]
      <4>1. stage'[h] = stage[h] + 1
        BY <1>1, <3>1, <3>2
      <4> QED
        BY <2>1, <3>1, <3>2, <4>1
    <3>3. CASE /\ inbox' = [inbox EXCEPT ![h] = Tail(@)]
               /\ stage' = [stage EXCEPT ![h] = 0]
      BY <1>1, <3>1, <3>3
    <3> QED
      BY <2>1, <3>2, <3>3
  <2>3. Rest(h)' = Rest(h)
    BY <2>1, <2>2 DEF Rest
  <2>4. \A g \in Accounting \ {h} : inbox'[g] = inbox[g] /\ stage'[g] = stage[g]
    BY <1>1, <2>1
  <2>5. \A g \in Accounting \ {h} : UNCHANGED Open(g, w)
    BY <2>4, FlightFrame
  <2> QED
    BY <2>3, <2>5 DEF Open
<1>5. NoteSuccess \/ NoteFailure \/ RetryOrBury =>
         \A h \in Accounting : UNCHANGED Open(h, w)
  <2>1. NoteSuccess => \A h \in Accounting : UNCHANGED Open(h, w)
    BY <1>4 DEF NoteSuccess, Accounting
  <2>2. NoteFailure => \A h \in Accounting : UNCHANGED Open(h, w)
    BY <1>4 DEF NoteFailure, Accounting
  <2>3. RetryOrBury => \A h \in Accounting : UNCHANGED Open(h, w)
    BY <1>4 DEF RetryOrBury, Accounting
  <2> QED
    BY <2>1, <2>2, <2>3
<1> QED
  BY <1>2, <1>3, <1>5

LEMMA LoadsExactStep ==
    ASSUME IInv, StagesOK, RegistersOnce, GivenToRegistered, LoadsExact, FaultFree
    PROVE  LoadsExact'
<1> USE DEF busVars, regVars, dbVars, retryVars, nodeVars, envVars, histVars
<1>1. /\ registered \subseteq Worker /\ load \in [Worker -> Nat]
      /\ AssignerOK /\ PassOK
      /\ tasks \in [Worker -> Seq(Copy)]
  BY Parts DEF LoadsOK, RegOK, NodesOK
<1>2. \A w \in Worker :
         /\ Counted(w) \in Nat /\ OnTheWay(w) \in Nat /\ Len(tasks[w]) \in Nat
         /\ Open("handle_job_completed", w) \in Nat
         /\ Open("handle_task_failed", w) \in Nat
         /\ load[w] = Counted(w) + OnTheWay(w) + Len(tasks[w])
                + Open("handle_job_completed", w) + Open("handle_task_failed", w)
         /\ w \notin registered => load[w] = 0
  BY FlightTypes DEF LoadsExact, Flight, Accounting
<1>3. registered \subseteq registered'
  BY FaultFreeWorkers
<1>4. SUFFICES ASSUME NEW w \in Worker
               PROVE  load'[w] = Flight(w)' /\ (w \notin registered' => load'[w] = 0)
  BY DEF LoadsExact
<1> DEFINE Goal == load'[w] = Flight(w)' /\ (w \notin registered' => load'[w] = 0)
           done == "handle_job_completed"
           failed == "handle_task_failed"
\* Steps that change neither a load nor a term of Flight.
<1>5. ASSUME UNCHANGED <<load, tasks, Counted(w), OnTheWay(w), Open(done, w), Open(failed, w)>>
      PROVE  Goal
  BY <1>2, <1>3, <1>5 DEF Flight
<1> HIDE DEF Goal
<1>6. CASE HandleRegister
  <2> DEFINE v == First("handle_register").worker
  <2>1. v \in Worker /\ v \notin registered
    BY <1>6, InboxAfter, Handlers
    DEF RegistersOnce, HandleRegister, Consume, EventFor
  <2>2. load' = [load EXCEPT ![v] = 0] /\ UNCHANGED <<assigner, tasks>>
    BY <1>6 DEF HandleRegister
  <2> HIDE DEF v
  <2>3. load' = load
    BY <1>1, <1>2, <2>1, <2>2
  <2>4. inbox' = [inbox EXCEPT !["handle_register"] = Tail(@)] /\ UNCHANGED stage
    BY <1>6 DEF HandleRegister, Consume
  <2>5. UNCHANGED <<inbox["send_to_worker"], inbox[done], inbox[failed]>>
    BY <2>4, InboxAfter, Handlers
  <2>6. UNCHANGED <<Counted(w), OnTheWay(w), Open(done, w), Open(failed, w)>>
    BY <2>2, <2>4, <2>5, FlightFrame DEF Accounting
  <2> QED
    BY <1>5, <2>2, <2>3, <2>6 DEF Goal
<1>7. CASE IncrementLoad
  <2> DEFINE v == assigner.worker
  <2>1. /\ v \in registered /\ assigner.pc = "increment"
        /\ assigner'.pc = "publish" /\ assigner'.worker = v
    BY <1>1, <1>7 DEF IncrementLoad, AssignerOK, GivenToRegistered, Holding
  <2>2. load' = [load EXCEPT ![v] = @ + 1] /\ UNCHANGED <<inbox, stage, tasks>>
    BY <1>7, <2>1 DEF IncrementLoad
  <2>3. Counted(w) = 0 /\ Counted(w)' = OneIf(v = w)
    BY <2>1 DEF Counted, OneIf
  <2>4. UNCHANGED <<OnTheWay(w), Open(done, w), Open(failed, w)>>
    BY <2>2, FlightFrame DEF Accounting
  <2> HIDE DEF v
  <2>5. load'[w] = load[w] + OneIf(v = w) /\ (w \notin registered => v # w)
    BY <1>1, <2>1, <2>2 DEF OneIf
  <2>6. OneIf(v = w) \in Nat /\ (v # w => OneIf(v = w) = 0)
    BY DEF OneIf
  <2> QED
    BY <1>2, <1>3, <2>2, <2>3, <2>4, <2>5, <2>6, SMTT(30) DEF Flight, Goal
<1>8. CASE PublishAssignment
  <2> DEFINE v == assigner.worker
  <2>1. Counted(w) = OneIf(v = w) /\ Counted(w)' = 0
    BY <1>8 DEF PublishAssignment, Counted, OneIf, Idle
  <2>2. OnTheWay(w)' = OnTheWay(w) + OneIf(v = w)
    BY <1>8, OnTheWayMoves
  <2>3. UNCHANGED <<load, tasks, stage>>
    BY <1>8 DEF PublishAssignment
  <2>4. UNCHANGED <<inbox[done], inbox[failed]>>
    BY <1>8, InboxAfter, Handlers DEF PublishAssignment, Subscriptions
  <2>5. UNCHANGED <<Open(done, w), Open(failed, w)>>
    BY <2>3, <2>4, FlightFrame DEF Accounting
  <2>6. OneIf(v = w) \in Nat
    BY DEF OneIf
  <2> HIDE DEF v
  <2> QED
    BY <1>2, <1>3, <2>1, <2>2, <2>3, <2>5, <2>6 DEF Flight, Goal
<1>9. CASE SendToWorker
  <2> DEFINE e == First("send_to_worker")
             v == e.worker
  <2>1. /\ v \in registered /\ v \in alive /\ e.job \in Copy
    BY <1>9, InboxAfter, Handlers
    DEF GivenToRegistered, SendToWorker, Consume, EventFor
  <2>2. /\ tasks' = [tasks EXCEPT ![v] = Append(@, e.job)]
        /\ inbox' = [inbox EXCEPT !["send_to_worker"] = Tail(@)]
        /\ UNCHANGED <<load, stage, assigner>>
    BY <1>9, <2>1 DEF SendToWorker, Consume
  <2>3. OnTheWay(w) = OnTheWay(w)' + OneIf(v = w) /\ OnTheWay(w)' \in Nat
    BY <1>9, OnTheWayMoves
  <2>4. Len(tasks'[w]) = Len(tasks[w]) + OneIf(v = w)
    <3>1. \A c \in Copy : Len(Append(tasks[w], c)) = Len(tasks[w]) + 1
      BY <1>1, AppendProperties
    <3> HIDE DEF e, v
    <3>2. CASE v = w
      <4>1. tasks'[w] = Append(tasks[w], e.job)
        BY <1>1, <2>1, <2>2, <3>2
      <4> QED
        BY <2>1, <3>1, <3>2, <4>1 DEF OneIf
    <3>3. CASE v # w
      BY <1>1, <1>2, <2>1, <2>2, <3>3 DEF OneIf
    <3> QED
      BY <3>2, <3>3
  <2>5. UNCHANGED <<inbox[done], inbox[failed]>>
    BY <2>2, InboxAfter, Handlers
  <2>6. UNCHANGED <<Counted(w), Open(done, w), Open(failed, w)>>
    BY <2>2, <2>5, FlightFrame DEF Accounting
  <2>7. OneIf(v = w) \in Nat /\ load' = load
    BY <2>2 DEF OneIf
  <2> HIDE DEF e, v
  <2> QED
    BY <1>2, <1>3, <2>3, <2>4, <2>6, <2>7, SMTT(30) DEF Flight, Goal
<1>10. ASSUME NEW v \in Worker, NEW i \in 1 .. Len(tasks[v]), ExecuteTask(v, i)
       PROVE  Goal
  <2>1. /\ tasks' = [tasks EXCEPT ![v] = RemoveAt(@, i)]
        /\ UNCHANGED <<load, assigner>>
    BY <1>10 DEF ExecuteTask
  <2>2. Len(tasks[w]) = Len(tasks'[w]) + OneIf(v = w) /\ Len(tasks'[w]) \in Nat
    <3>1. /\ Len(RemoveAt(tasks[v], i)) = Len(tasks[v]) - 1
          /\ RemoveAt(tasks[v], i) \in Seq(Copy)
      BY <1>1, CountRemoveAt, RemoveAtType
    <3>2. Len(RemoveAt(tasks[v], i)) \in Nat
      BY <3>1, LenProperties
    <3>3. CASE v = w
      BY <1>1, <1>2, <2>1, <3>1, <3>2, <3>3 DEF OneIf
    <3>4. CASE v # w
      BY <1>1, <1>2, <2>1, <3>4 DEF OneIf
    <3> QED
      BY <3>3, <3>4
  <2>3. UNCHANGED <<Counted(w), OnTheWay(w)>>
    BY <1>10, <2>1, OutcomeEvent, FlightFrame
  <2>4. \/ Open(done, w)' = Open(done, w) + OneIf(v = w) /\ UNCHANGED Open(failed, w)
        \/ Open(failed, w)' = Open(failed, w) + OneIf(v = w) /\ UNCHANGED Open(done, w)
    BY <1>10, OpenMoves
  <2>5. OneIf(v = w) \in Nat /\ load' = load
    BY <2>1 DEF OneIf
  <2>6. /\ Counted(w) \in Nat /\ OnTheWay(w) \in Nat
        /\ Open(done, w) \in Nat /\ Open(failed, w) \in Nat
        /\ load[w] = Counted(w) + OnTheWay(w) + Len(tasks[w])
                       + Open(done, w) + Open(failed, w)
    BY <1>2
  <2>7. CASE Open(done, w)' = Open(done, w) + OneIf(v = w) /\ UNCHANGED Open(failed, w)
    <3>1. load'[w] = Flight(w)'
      BY <2>2, <2>3, <2>5, <2>6, <2>7 DEF Flight
    <3> QED
      BY <1>2, <1>3, <2>5, <3>1 DEF Goal
  <2>8. CASE Open(failed, w)' = Open(failed, w) + OneIf(v = w) /\ UNCHANGED Open(done, w)
    <3>1. load'[w] = Flight(w)'
      BY <2>2, <2>3, <2>5, <2>6, <2>8, SMTT(30) DEF Flight
    <3> QED
      BY <1>2, <1>3, <2>5, <3>1 DEF Goal
  <2> QED
    BY <2>4, <2>7, <2>8
<1>11. ASSUME NEW h \in Accounting, FreeCapacity(h)
       PROVE  Goal
  <2>1. inbox[h] # <<>> /\ h \in Handler
    BY <1>11, Handlers DEF FreeCapacity, Call, Accounting
  <2>2. PICK v \in Worker : v = First(h).worker
    BY <2>1, InboxAfter, Handlers DEF Accounting, EventFor
  <2>3. \A u \in Worker : /\ Open(h, u) = Open(h, u)' + OneIf(v = u)
                          /\ Open(h, u)' \in Nat
                          /\ \A g \in Accounting \ {h} : UNCHANGED Open(g, u)
    BY <1>11, <2>2, OpenMoves
  <2>4. v \in registered /\ load[v] \in Nat \ {0}
    <3>1. Open(h, v) = Open(h, v)' + 1 /\ Open(h, v)' \in Nat
      BY <2>2, <2>3 DEF OneIf
    <3>2. load[v] = Counted(v) + OnTheWay(v) + Len(tasks[v])
                      + Open(done, v) + Open(failed, v)
      BY <1>2, <2>2
    <3>3. Open(h, v) # 0 /\ (h = done \/ h = failed)
      BY <3>1 DEF Accounting
    <3>4. /\ Counted(v) \in Nat /\ OnTheWay(v) \in Nat /\ Len(tasks[v]) \in Nat
          /\ Open(done, v) \in Nat /\ Open(failed, v) \in Nat
      BY <1>2, <2>2
    <3>5. load[v] \in Nat /\ load[v] # 0
      BY <3>2, <3>3, <3>4
    <3> QED
      BY <1>2, <2>2, <3>5
  <2>5. load' = [load EXCEPT ![v] = load[v] - 1]
    <3>1. load' = [load EXCEPT ![v] = IF load[v] > 0 THEN load[v] - 1 ELSE load[v]]
      BY <1>11, <2>2, <2>4 DEF FreeCapacity, Decremented
    <3>2. load[v] > 0
      BY <2>4
    <3> QED
      BY <3>1, <3>2
  <2>6. UNCHANGED <<tasks, assigner, inbox>>
    BY <1>11 DEF FreeCapacity, StayIn
  <2>7. UNCHANGED <<Counted(w), OnTheWay(w)>>
    BY <2>6, FlightFrame
  <2>8. /\ Open(h, w) = Open(h, w)' + OneIf(v = w) /\ Open(h, w)' \in Nat
        /\ \A g \in Accounting \ {h} : UNCHANGED Open(g, w)
    BY <2>3
  <2>9. load'[w] = load[w] - OneIf(v = w) /\ (w \notin registered => v # w)
    BY <1>1, <2>2, <2>4, <2>5 DEF OneIf
  <2>10. OneIf(v = w) \in Nat /\ (v # w => OneIf(v = w) = 0)
    BY DEF OneIf
  <2>11. /\ Counted(w) \in Nat /\ OnTheWay(w) \in Nat /\ Len(tasks[w]) \in Nat
         /\ Open(done, w) \in Nat /\ Open(failed, w) \in Nat
         /\ load[w] = Counted(w) + OnTheWay(w) + Len(tasks[w])
                        + Open(done, w) + Open(failed, w)
    BY <1>2
  <2>12. w \notin registered' => load'[w] = 0
    BY <1>2, <1>3, <2>9, <2>10
  <2>13. CASE h = done
    <3>1. UNCHANGED Open(failed, w)
      BY <2>8, <2>13 DEF Accounting
    <3>2. load'[w] = Flight(w)'
      BY <2>6, <2>7, <2>8, <2>9, <2>10, <2>11, <2>13, <3>1 DEF Flight
    <3> QED
      BY <2>12, <3>2 DEF Goal
  <2>14. CASE h = failed
    <3>1. UNCHANGED Open(done, w)
      BY <2>8, <2>14 DEF Accounting
    <3>2. load'[w] = Flight(w)'
      BY <2>6, <2>7, <2>8, <2>9, <2>10, <2>11, <2>14, <3>1 DEF Flight
    <3> QED
      BY <2>12, <3>2 DEF Goal
  <2> QED
    BY <2>13, <2>14 DEF Accounting
<1>12. CASE NoteSuccess \/ NoteFailure \/ RetryOrBury
  <2>1. UNCHANGED <<Open(done, w), Open(failed, w)>>
    BY <1>12, OpenMoves DEF Accounting
  <2>2. UNCHANGED <<load, tasks, assigner>>
    BY <1>12 DEF NoteSuccess, NoteFailure, RetryOrBury
  <2>3. UNCHANGED <<Counted(w), OnTheWay(w)>>
    <3>1. UNCHANGED inbox["send_to_worker"]
      BY <1>12, InboxAfter, Handlers
      DEF NoteSuccess, NoteFailure, RetryOrBury, StayIn, LeaveFrom
    <3> QED
      BY <2>2, <3>1, FlightFrame
  <2> QED
    BY <1>5, <2>1, <2>2, <2>3 DEF Goal
<1>13. CASE PickWorkers \/ PickNothing \/ \E v \in Worker : CheckWorker(v) \/ ChooseWorker(v)
  <2>1. UNCHANGED <<load, tasks, inbox, stage>>
    BY <1>13 DEF PickWorkers, PickNothing, CheckWorker, ChooseWorker
  <2>2. UNCHANGED Counted(w)
    <3>1. PickWorkers => assigner.pc = "idle" /\ assigner'.pc = "check"
      BY <1>1 DEF PickWorkers, AssignerOK
    <3>2. PickNothing => assigner.pc = "check" /\ assigner'.pc = "idle"
      BY DEF PickNothing, Idle
    <3>3. \A v \in Worker : CheckWorker(v) =>
             assigner.pc = "check" /\ assigner'.pc = "check"
      BY <1>1 DEF CheckWorker, AssignerOK
    <3>4. \A v \in Worker : ChooseWorker(v) =>
             assigner.pc = "check" /\ assigner'.pc = "increment"
      BY DEF ChooseWorker, Idle
    <3>5. assigner.pc # "publish" /\ assigner'.pc # "publish"
      BY <1>13, <3>1, <3>2, <3>3, <3>4
    <3> QED
      BY <3>5 DEF Counted, OneIf
  <2> QED
    BY <1>5, <2>1, <2>2, FlightFrame, SMTT(30) DEF Accounting, Goal
<1>14. ASSUME UNCHANGED <<load, tasks, assigner, stage>>,
              UNCHANGED <<inbox["send_to_worker"], inbox[done], inbox[failed]>>
       PROVE  Goal
  BY <1>5, <1>14, FlightFrame DEF Accounting
<1>15. CASE \/ \E j \in Job : Submit(j)
            \/ \E v \in Worker : Start(v)
  <2>1. \A h \in {"send_to_worker", done, failed} :
           /\ h \in Handler
           /\ h \notin Subscriptions["JOB_SUBMITTED"]
           /\ h \notin Subscriptions["REGISTER"]
    BY Handlers DEF Subscriptions
  <2>2. ASSUME NEW j \in Job, Submit(j)
        PROVE  \A h \in {"send_to_worker", done, failed} : inbox'[h] = inbox[h]
    BY <2>1, <2>2, InboxAfter DEF Submit
  <2>3. ASSUME NEW v \in Worker, Start(v)
        PROVE  \A h \in {"send_to_worker", done, failed} : inbox'[h] = inbox[h]
    BY <2>1, <2>3, InboxAfter DEF Start
  <2>4. \A h \in {"send_to_worker", done, failed} : inbox'[h] = inbox[h]
    BY <1>15, <2>2, <2>3
  <2>5. UNCHANGED <<inbox["send_to_worker"], inbox[done], inbox[failed]>>
    BY <2>4
  <2> QED
    BY <1>14, <1>15, <2>4, <2>5 DEF Submit, Start, Goal
<1>16. CASE \/ PersistWorker \/ HandleJobSubmitted \/ PersistTask
            \/ PersistTaskAssigned \/ PersistTaskCompleted
  <2>1. UNCHANGED <<inbox["send_to_worker"], inbox[done], inbox[failed]>>
    BY <1>16, InboxAfter, Handlers
    DEF PersistWorker, HandleJobSubmitted, PersistTask, PersistTaskAssigned,
        PersistTaskCompleted, Consume
  <2> QED
    BY <1>14, <1>16, <2>1
    DEF PersistWorker, HandleJobSubmitted, PersistTask, PersistTaskAssigned,
        PersistTaskCompleted, Consume, Goal
<1>17. CASE \/ \E v \in Worker : CoolDown(v) \/ SendHeartbeat(v) \/ HandleHeartbeat(v)
            \/ StoreReady \/ UNCHANGED vars
  BY <1>14, <1>17 DEF CoolDown, SendHeartbeat, HandleHeartbeat, StoreReady, vars, Goal
<1> QED
  BY <1>6, <1>7, <1>8, <1>9, <1>10, <1>11, <1>12, <1>13, <1>15, <1>16, <1>17
  DEF FaultFree, Assigner, JobCompletedHandler, TaskFailedHandler, Accounting, Goal

LEMMA CalmInit == Init => StagesOK /\ Calm
<1> SUFFICES ASSUME Init PROVE StagesOK /\ Calm
  OBVIOUS
<1>1. \A h \in Handler : inbox[h] = <<>> /\ stage[h] = 0
  BY DEF Init
<1>2. /\ inbox["handle_register"] = <<>> /\ inbox["send_to_worker"] = <<>>
      /\ inbox["handle_worker_failure"] = <<>>
      /\ inbox["handle_worker_failed"] = <<>>
      /\ \A h \in Accounting : inbox[h] = <<>> /\ stage[h] = 0
  BY <1>1, Handlers DEF Accounting
<1>3. StagesOK
  BY <1>2 DEF StagesOK
<1>4. NobodySuspected /\ RegistersOnce /\ GivenToRegistered
  BY <1>2 DEF Init, Idle, Holding, NobodySuspected, RegistersOnce, GivenToRegistered
<1>5. ASSUME NEW w \in Worker PROVE load[w] = 0 /\ Flight(w) = 0
  <2>1. Counted(w) = 0 /\ Len(tasks[w]) = 0 /\ load[w] = 0
    BY DEF Init, Idle, Counted, OneIf
  <2>2. OnTheWay(w) = 0
    BY <1>2, CountEmpty DEF OnTheWay
  <2>3. \A h \in Accounting : Rest(h) = <<>>
    BY <1>2 DEF Rest
  <2>4. \A h \in Accounting : Open(h, w) = 0
    BY <2>3, CountEmpty DEF Open
  <2> QED
    BY <2>1, <2>2, <2>4 DEF Flight, Accounting
<1> QED
  BY <1>3, <1>4, <1>5 DEF Calm, LoadsExact

LEMMA CalmStep == IInv /\ StagesOK /\ Calm /\ [Next]_vars => StagesOK' /\ Calm'
<1> SUFFICES ASSUME IInv, StagesOK, Calm, [Next]_vars PROVE StagesOK' /\ Calm'
  OBVIOUS
<1>1. StagesOK'
  BY StagesStep
<1>2. ASSUME NoFaults'
      PROVE  (NobodySuspected /\ RegistersOnce /\ GivenToRegistered /\ LoadsExact)'
  <2>1. NoFaults /\ FaultFree
    BY <1>2, FaultFreeSteps
  <2>2. NobodySuspected /\ RegistersOnce /\ GivenToRegistered /\ LoadsExact
    BY <2>1 DEF Calm
  <2>3. registered \subseteq alive
    BY <2>2 DEF GivenToRegistered
  <2> QED
    BY <2>1, <2>2, <2>3, NobodySuspectedStep, RegistersOnceStep,
       GivenToRegisteredStep, LoadsExactStep
<1> QED
  BY <1>1, <1>2 DEF Calm

LEMMA CalmAlways == Spec => [](StagesOK /\ Calm)
<1>1. Init => StagesOK /\ Calm
  BY CalmInit
<1>2. IInv /\ StagesOK /\ Calm /\ [Next]_vars => (StagesOK /\ Calm)'
  BY CalmStep
<1> QED
  BY <1>1, <1>2, Invariance, PTL DEF Spec

\* LoadIsInFlight: while no worker is lost or taken for lost, current_load of a
\* worker is the number of tasks increment_load has counted for it and
\* decrement_load has not, through assignment, delivery, execution and the two
\* outcome handlers (worker_registry.py:22-30): no capacity leaks.
THEOREM LoadIsExact == Spec => []LoadIsInFlight
<1>1. IInv /\ StagesOK /\ Calm => LoadIsInFlight
  <2> SUFFICES ASSUME IInv, StagesOK, Calm, NoFaults, NEW w \in Worker
               PROVE  load[w] = InFlight(w)
    BY DEF LoadIsInFlight
  <2> QED
    BY FlightIs DEF Calm, LoadsExact
<1> QED
  BY <1>1, CalmAlways, Invariance, PTL

-----------------------------------------------------------------------------
(* The lifecycle of a job *)

\* Copies of j that wait and copies that were given to a worker.
Out(j)   == Arriving(j) + Queued(j) + Held(j)
Given(j) == Sent(j) + OnWorkers(j) + Failed(j)

\* While no worker is lost, every submitted job is in exactly one place.
Exact == \A j \in Job : Total(j) = OneIf(j \notin unsent)

\* What a step can do to one job.
Still(j) ==
    /\ (j \in unsent') = (j \in unsent)
    /\ Out(j)' = Out(j) /\ Given(j)' = Given(j)
    /\ finished'[j] = finished[j] /\ dlq'[j] = dlq[j] /\ tracker'[j] = tracker[j]

Submitted(j) ==
    /\ j \in unsent /\ j \notin unsent'
    /\ Out(j)' = Out(j) + 1 /\ Given(j)' = Given(j)
    /\ finished'[j] = finished[j] /\ dlq'[j] = dlq[j] /\ tracker'[j] = tracker[j]

Assigned(j) ==
    /\ (j \in unsent') = (j \in unsent)
    /\ Out(j)' = Out(j) - 1 /\ Given(j)' = Given(j) + 1
    /\ finished'[j] = finished[j] /\ dlq'[j] = dlq[j] /\ tracker'[j] = tracker[j]

Completed(j) ==
    /\ (j \in unsent') = (j \in unsent)
    /\ Out(j)' = Out(j) /\ Given(j)' = Given(j) - 1
    /\ finished'[j] = finished[j] + 1 /\ dlq'[j] = dlq[j] /\ tracker'[j] = tracker[j]

Retried(j) ==
    /\ (j \in unsent') = (j \in unsent)
    /\ Out(j)' = Out(j) + 1 /\ Given(j)' = Given(j) - 1
    /\ finished'[j] = finished[j] /\ dlq'[j] = dlq[j]
    /\ tracker'[j] = tracker[j] + 1 /\ RetriesLeft(j)

Buried(j) ==
    /\ (j \in unsent') = (j \in unsent)
    /\ Out(j)' = Out(j) /\ Given(j)' = Given(j) - 1
    /\ finished'[j] = finished[j] /\ dlq'[j] = dlq[j] + 1
    /\ tracker'[j] = tracker[j] + 1 /\ ~RetriesLeft(j)

\* A step of the system while no worker is lost does one thing to one job.
LEMMA OneJobMoves ==
    ASSUME IInv, SlotsFinite, GivenToRegistered, FaultFree
    PROVE  \/ \A j \in Job : Still(j)
           \/ \E k \in Job :
                 /\ \/ Submitted(k) \/ Assigned(k) \/ Completed(k)
                    \/ Retried(k) \/ Buried(k)
                 /\ \A j \in Job \ {k} : Still(j)
<1> USE DEF busVars, regVars, dbVars, retryVars, nodeVars, envVars, histVars
<1> DEFINE Goal == \/ \A j \in Job : Still(j)
                   \/ \E k \in Job :
                         /\ \/ Submitted(k) \/ Assigned(k) \/ Completed(k)
                            \/ Retried(k) \/ Buried(k)
                         /\ \A j \in Job \ {k} : Still(j)
<1>1. \A j \in Job :
         /\ Arriving(j) \in Nat /\ Queued(j) \in Nat /\ Held(j) \in Nat
         /\ Sent(j) \in Nat /\ OnWorkers(j) \in Nat /\ Failed(j) \in Nat
  BY PlaceTypes
<1>2. ASSUME NEW k \in Job, Submit(k) PROVE Goal
  <2>1. \A j \in Job : Moves(j, OneIf(k = j), 0, 0, 0, 0, 0)
    BY <1>2, OutwardMoves
  <2>2. /\ finished' = finished /\ dlq' = dlq /\ tracker' = tracker
        /\ k \in unsent /\ unsent' = unsent \ {k}
    BY <1>2 DEF Submit
  <2>3. Submitted(k)
    BY <1>1, <2>1, <2>2 DEF Moves, Submitted, Out, Given, OneIf
  <2>4. \A j \in Job \ {k} : Still(j)
    BY <1>1, <2>1, <2>2 DEF Moves, Still, Out, Given, OneIf
  <2> QED
    BY <2>3, <2>4
<1>3. CASE HandleJobSubmitted
  <2>1. \A j \in Job : \E o \in 0 .. 1 : Moves(j, -o, o, 0, 0, 0, 0)
    BY <1>3, OutwardMoves
  <2>2. UNCHANGED <<finished, dlq, tracker, unsent>>
    BY <1>3 DEF HandleJobSubmitted
  <2>3. \A j \in Job : Still(j)
    BY <1>1, <2>1, <2>2 DEF Moves, Still, Out, Given
  <2> QED
    BY <2>3
<1>4. ASSUME NEW w \in Worker, ChooseWorker(w) PROVE Goal
  <2>1. \A j \in Job : \E o \in 0 .. 1 : Moves(j, 0, -o, o, 0, 0, 0)
    BY <1>4, OutwardMoves
  <2>2. UNCHANGED <<finished, dlq, tracker, unsent>>
    BY <1>4 DEF ChooseWorker
  <2>3. \A j \in Job : Still(j)
    BY <1>1, <2>1, <2>2 DEF Moves, Still, Out, Given
  <2> QED
    BY <2>3
<1>5. CASE PublishAssignment
  <2>1. PICK k \in Job : k = assigner.job.id
    <3>1. PassOK /\ Holding
      BY <1>5, Parts DEF PublishAssignment, Holding
    <3> QED
      BY <3>1 DEF PassOK, Copy
  <2>2. \A j \in Job : \E o \in 0 .. 1 : /\ o = OneIf(k = j)
                                         /\ Moves(j, 0, 0, -o, o, 0, 0)
    BY <1>5, <2>1, OutwardMoves
  <2>3. UNCHANGED <<finished, dlq, tracker, unsent>>
    BY <1>5 DEF PublishAssignment
  <2>4. Assigned(k)
    BY <1>1, <2>1, <2>2, <2>3 DEF Moves, Assigned, Out, Given, OneIf
  <2>5. \A j \in Job \ {k} : Still(j)
    BY <1>1, <2>2, <2>3 DEF Moves, Still, Out, Given, OneIf
  <2> QED
    BY <2>1, <2>4, <2>5
<1>6. CASE SendToWorker
  <2>1. First("send_to_worker").worker \in alive
    <3>1. inbox["send_to_worker"] # <<>>
      BY <1>6 DEF SendToWorker, Consume
    <3> QED
      BY <3>1, InboxAfter, Handlers DEF GivenToRegistered
  <2>2. \A j \in Job : \E o \in 0 .. 1 : Moves(j, 0, 0, 0, -o, o, 0)
    BY <1>6, <2>1, OutwardMoves
  <2>3. UNCHANGED <<finished, dlq, tracker, unsent>>
    BY <1>6 DEF SendToWorker
  <2>4. \A j \in Job : Still(j)
    BY <1>1, <2>2, <2>3 DEF Moves, Still, Out, Given
  <2> QED
    BY <2>4
<1>7. ASSUME NEW w \in Worker, NEW i \in 1 .. Len(tasks[w]), ExecuteTask(w, i)
      PROVE  Goal
  <2>1. PICK k \in Job : k = tasks[w][i].id
    <3>1. tasks[w] \in Seq(Copy)
      BY Parts DEF NodesOK
    <3>2. tasks[w][i] \in Copy
      BY <3>1, ElementOfSeq
    <3> QED
      BY <3>2 DEF Copy
  <2>2. UNCHANGED <<dlq, tracker, unsent>>
    BY <1>7 DEF ExecuteTask
  <2>3. \A j \in Job : \E o \in 0 .. 1 :
           /\ o = OneIf(k = j)
           /\ \/ /\ Fails(tasks[w][i])
                 /\ Moves(j, 0, 0, 0, 0, -o, o)
                 /\ finished' = finished
              \/ /\ ~Fails(tasks[w][i])
                 /\ Moves(j, 0, 0, 0, 0, -o, 0)
                 /\ finished'[j] = finished[j] + o
    BY <1>7, <2>1, InwardMoves
  <2>4. CASE Fails(tasks[w][i])
    <3>1. \A j \in Job : \E o \in 0 .. 1 :
             Moves(j, 0, 0, 0, 0, -o, o) /\ finished' = finished
      BY <2>3, <2>4
    <3>2. \A j \in Job : Still(j)
      BY <1>1, <2>2, <3>1, SMTT(30) DEF Moves, Still, Out, Given
    <3> QED
      BY <3>2
  <2>5. CASE ~Fails(tasks[w][i])
    <3>1. \A j \in Job : \E o \in 0 .. 1 :
             /\ o = OneIf(k = j)
             /\ Moves(j, 0, 0, 0, 0, -o, 0)
             /\ finished'[j] = finished[j] + o
      BY <2>3, <2>5
    <3>2. \A j \in Job : finished[j] \in Nat
      BY PlaceTypes
    <3>3. Completed(k)
      <4>1. /\ Moves(k, 0, 0, 0, 0, -1, 0)
            /\ finished'[k] = finished[k] + 1
        BY <2>1, <3>1 DEF OneIf
      <4> QED
        BY <1>1, <2>2, <4>1 DEF Moves, Completed, Out, Given
    <3>4. \A j \in Job \ {k} : Still(j)
      BY <1>1, <2>2, <3>1, <3>2, SMTT(30) DEF Moves, Still, Out, Given, OneIf
    <3> QED
      BY <2>1, <3>3, <3>4
  <2> QED
    BY <2>4, <2>5
<1>8. CASE RetryOrBury
  <2>1. PICK k \in Job : k = First("handle_task_failed").job.id
    BY <1>8, HandlerSteps, Handlers DEF RetryOrBury, EventFor, Copy
  <2>2. UNCHANGED <<finished, unsent>>
    BY <1>8 DEF RetryOrBury
  <2>3. \A j \in Job : \E o \in 0 .. 1 :
           /\ o = OneIf(k = j)
           /\ tracker'[j] = tracker[j] + o
           /\ \/ RetriesLeft(k) /\ Moves(j, 0, o, 0, 0, 0, -o) /\ dlq' = dlq
              \/ /\ ~RetriesLeft(k) /\ Moves(j, 0, 0, 0, 0, 0, -o)
                 /\ dlq'[j] = dlq[j] + o
    BY <1>8, <2>1, InwardMoves
  <2>4. \A j \in Job : dlq[j] \in Nat /\ tracker[j] \in Nat
    BY Parts DEF RetriesOK, CountsOK
  <2>5. \A j \in Job \ {k} : Still(j)
    BY <1>1, <2>2, <2>3, <2>4 DEF Moves, Still, Out, Given, OneIf
  <2>6. CASE RetriesLeft(k)
    <3>1. Retried(k)
      BY <1>1, <2>1, <2>2, <2>3, <2>6 DEF Moves, Retried, Out, Given, OneIf
    <3> QED
      BY <2>1, <2>5, <3>1
  <2>7. CASE ~RetriesLeft(k)
    <3>1. Buried(k)
      BY <1>1, <2>1, <2>2, <2>3, <2>7 DEF Moves, Buried, Out, Given, OneIf
    <3> QED
      BY <2>1, <2>5, <3>1
  <2> QED
    BY <2>6, <2>7
<1>9. CASE Elsewhere \/ UNCHANGED vars
  <2>1. \A j \in Job : Moves(j, 0, 0, 0, 0, 0, 0)
    BY <1>9, NoMoves
  <2>2. UNCHANGED <<finished, dlq, tracker, unsent>>
    BY <1>9
    DEF Elsewhere, vars, Start, GoSilent, CoolDown, StoreReady, HandleRegister,
        PersistWorker, SendHeartbeat, HandleHeartbeat, MonitorReports, HandleWorkerFailure,
        FailoverScan, PersistTask, PickWorkers, CheckWorker, PickNothing,
        IncrementLoad, PersistTaskAssigned, FreeCapacity, NoteSuccess,
        PersistTaskCompleted, NoteFailure
  <2>3. \A j \in Job : Still(j)
    BY <1>1, <2>1, <2>2 DEF Moves, Still, Out, Given
  <2> QED
    BY <2>3
<1> HIDE DEF Goal
<1>10. \/ \E k \in Job : Submit(k)
       \/ HandleJobSubmitted
       \/ \E w \in Worker : ChooseWorker(w)
       \/ PublishAssignment
       \/ SendToWorker
       \/ \E w \in Worker : \E i \in 1 .. Len(tasks[w]) : ExecuteTask(w, i)
       \/ RetryOrBury
       \/ Elsewhere \/ UNCHANGED vars
  BY DEF FaultFree, Assigner, JobCompletedHandler, TaskFailedHandler, Elsewhere
<1> QED
  BY <1>2, <1>3, <1>4, <1>5, <1>6, <1>7, <1>8, <1>9, <1>10 DEF Goal

InOnePlace == NoFaults => Exact

LEMMA InOnePlaceInit == Init => InOnePlace
<1> SUFFICES ASSUME Init, NEW j \in Job PROVE Total(j) = OneIf(j \notin unsent)
  BY DEF InOnePlace, Exact
<1>1. IInv /\ SlotsFinite /\ Conserved
  BY InitInv, ConservedInit
<1>2. OneIf(j \notin unsent) = 0 /\ failovers[j] = 0
  BY DEF Init, OneIf
<1>3. /\ Arriving(j) \in Nat /\ Queued(j) \in Nat /\ Held(j) \in Nat
      /\ Sent(j) \in Nat /\ OnWorkers(j) \in Nat /\ Failed(j) \in Nat
      /\ finished[j] \in Nat /\ dlq[j] \in Nat
  BY <1>1, PlaceTypes
<1>4. Total(j) <= 0
  <2>1. j \in unsent
    BY DEF Init
  <2> QED
    BY <1>1, <1>2, <2>1 DEF Conserved, OneIf
<1>5. Total(j) \in Nat
  BY <1>3 DEF Total
<1> QED
  BY <1>2, <1>4, <1>5

\* The next state has the counts of PlaceTypes, too.
PlacesTyped == \A j \in Job :
    /\ Arriving(j) \in Nat /\ Queued(j) \in Nat /\ Held(j) \in Nat
    /\ Sent(j) \in Nat /\ OnWorkers(j) \in Nat /\ Failed(j) \in Nat
    /\ finished[j] \in Nat /\ dlq[j] \in Nat

LEMMA TypedPlaces == IInv /\ SlotsFinite => PlacesTyped
BY PlaceTypes DEF PlacesTyped

LEMMA TypedPlacesNext == IInv' /\ SlotsFinite' => PlacesTyped'
BY TypedPlaces, PTL

LEMMA InOnePlaceStep ==
    /\ IInv /\ SlotsFinite /\ Conserved /\ Calm /\ InOnePlace
    /\ [Next]_vars
    => InOnePlace'
<1> SUFFICES ASSUME IInv, SlotsFinite, Conserved, Calm, InOnePlace, [Next]_vars,
                    NoFaults', NEW j \in Job
             PROVE  Total(j)' = OneIf(j \notin unsent')
  BY DEF InOnePlace, Exact
<1>1. NoFaults /\ FaultFree
  BY FaultFreeSteps
<1>2. GivenToRegistered /\ Total(j) = OneIf(j \notin unsent)
  BY <1>1 DEF Calm, InOnePlace, Exact
<1>3. /\ Out(j) \in Nat /\ Given(j) \in Nat /\ finished[j] \in Nat /\ dlq[j] \in Nat
      /\ Total(j) = Out(j) + Given(j) + finished[j] + dlq[j]
  BY PlaceTypes DEF Out, Given, Total
<1>4. Total(j)' = Out(j)' + Given(j)' + finished'[j] + dlq'[j]
  <2>1. PlacesTyped'
    BY StepInv, ConservedStep, TypedPlacesNext
  <2>2. /\ Arriving(j)' \in Nat /\ Queued(j)' \in Nat /\ Held(j)' \in Nat
        /\ Sent(j)' \in Nat /\ OnWorkers(j)' \in Nat /\ Failed(j)' \in Nat
        /\ finished'[j] \in Nat /\ dlq'[j] \in Nat
    BY <2>1 DEF PlacesTyped
  <2> QED
    BY <2>2 DEF Out, Given, Total
<1>5. CASE Still(j)
  BY <1>2, <1>3, <1>4, <1>5 DEF Still, OneIf
<1>6. CASE Submitted(j)
  BY <1>2, <1>3, <1>4, <1>6 DEF Submitted, OneIf
<1>7. CASE Assigned(j)
  BY <1>2, <1>3, <1>4, <1>7 DEF Assigned, OneIf
<1>8. CASE Completed(j)
  BY <1>2, <1>3, <1>4, <1>8 DEF Completed, OneIf
<1>9. CASE Retried(j)
  BY <1>2, <1>3, <1>4, <1>9 DEF Retried, OneIf
<1>10. CASE Buried(j)
  BY <1>2, <1>3, <1>4, <1>10 DEF Buried, OneIf
<1> QED
  BY <1>1, <1>2, <1>5, <1>6, <1>7, <1>8, <1>9, <1>10, OneJobMoves

\* The phase of a job says which of the counts is the one that is not zero.
PhaseMatches(j) ==
    \/ /\ PhaseOf(j) = "new"     /\ j \in unsent
       /\ Out(j) = 0 /\ Given(j) = 0 /\ finished[j] = 0 /\ dlq[j] = 0
    \/ /\ PhaseOf(j) = "waiting" /\ j \notin unsent
       /\ Out(j) = 1 /\ Given(j) = 0 /\ finished[j] = 0 /\ dlq[j] = 0
    \/ /\ PhaseOf(j) = "running" /\ j \notin unsent
       /\ Out(j) = 0 /\ Given(j) = 1 /\ finished[j] = 0 /\ dlq[j] = 0
    \/ /\ PhaseOf(j) = "done"    /\ j \notin unsent
       /\ Out(j) = 0 /\ Given(j) = 0 /\ finished[j] = 1 /\ dlq[j] = 0
    \/ /\ PhaseOf(j) = "dead"    /\ j \notin unsent
       /\ Out(j) = 0 /\ Given(j) = 0 /\ finished[j] = 0 /\ dlq[j] = 1

PhasesMatch == \A j \in Job : PhaseMatches(j)

LEMMA PhasesMatchPlaces == IInv /\ SlotsFinite /\ Exact => PhasesMatch
<1> SUFFICES ASSUME IInv, SlotsFinite, Exact, NEW j \in Job PROVE PhaseMatches(j)
  BY DEF PhasesMatch
<1>1. /\ Out(j) \in Nat /\ Given(j) \in Nat /\ finished[j] \in Nat /\ dlq[j] \in Nat
      /\ Total(j) = Out(j) + Given(j) + finished[j] + dlq[j]
  BY PlaceTypes DEF Out, Given, Total
<1>2. Out(j) + Given(j) + finished[j] + dlq[j] = IF j \notin unsent THEN 1 ELSE 0
  BY <1>1 DEF Exact, OneIf
<1>3. Running(j) = Given(j)
  BY PlacesAre DEF Given
<1>4. CASE j \in unsent
  <2>1. PhaseOf(j) = "new"
    BY <1>1, <1>2, <1>3, <1>4 DEF PhaseOf
  <2> QED
    BY <1>1, <1>2, <1>4, <2>1, SMTT(30) DEF PhaseMatches
<1>5. CASE j \notin unsent /\ finished[j] > 0
  <2>1. PhaseOf(j) = "done"
    BY <1>1, <1>2, <1>3, <1>5 DEF PhaseOf
  <2> QED
    BY <1>1, <1>2, <1>5, <2>1 DEF PhaseMatches
<1>6. CASE j \notin unsent /\ ~(finished[j] > 0) /\ dlq[j] > 0
  <2>1. PhaseOf(j) = "dead"
    BY <1>1, <1>2, <1>3, <1>6 DEF PhaseOf
  <2> QED
    BY <1>1, <1>2, <1>6, <2>1 DEF PhaseMatches
<1>7. CASE j \notin unsent /\ ~(finished[j] > 0) /\ ~(dlq[j] > 0) /\ Given(j) > 0
  <2>1. PhaseOf(j) = "running"
    BY <1>1, <1>2, <1>3, <1>7 DEF PhaseOf
  <2> QED
    BY <1>1, <1>2, <1>7, <2>1 DEF PhaseMatches
<1>8. CASE j \notin unsent /\ ~(finished[j] > 0) /\ ~(dlq[j] > 0) /\ ~(Given(j) > 0)
  <2>1. PhaseOf(j) = "waiting"
    BY <1>1, <1>2, <1>3, <1>8 DEF PhaseOf
  <2> QED
    BY <1>1, <1>2, <1>8, <2>1 DEF PhaseMatches
<1> QED
  BY <1>4, <1>5, <1>6, <1>7, <1>8

LEMMA PhasesMatchNext == IInv' /\ SlotsFinite' /\ Exact' => PhasesMatch'
BY PhasesMatchPlaces, PTL

\* What changes the phase of one job and leaves the others is a move of the
\* lifecycle.
LEMMA MoveOf ==
    ASSUME NEW k \in Job, NEW from, NEW to,
           PhaseOf(k) = from, PhaseOf(k)' = to,
           \A j \in Job \ {k} : PhaseOf(j)' = PhaseOf(j)
    PROVE  Lifecycle!Move(k, from, to)
BY DEF Lifecycle!Move

LEMMA StepIsLifecycle ==
    /\ IInv /\ SlotsFinite /\ Conserved /\ Calm /\ InOnePlace
    /\ NoFaults /\ NoFaults' /\ [Next]_vars
    => [Lifecycle!Next]_<<[j \in Job |-> PhaseOf(j)], tracker>>
<1> SUFFICES ASSUME IInv, SlotsFinite, Conserved, Calm, InOnePlace,
                    NoFaults, NoFaults', [Next]_vars
             PROVE  [Lifecycle!Next]_<<[j \in Job |-> PhaseOf(j)], tracker>>
  OBVIOUS
<1>1. FaultFree /\ GivenToRegistered
  BY FaultFreeSteps DEF Calm
<1>2. /\ PhasesMatch /\ PhasesMatch'
      /\ tracker \in [Job -> Nat] /\ tracker' \in [Job -> Nat]
  <2>1. IInv' /\ SlotsFinite' /\ InOnePlace'
    BY StepInv, ConservedStep, InOnePlaceStep
  <2>2. Exact /\ Exact'
    BY <2>1 DEF InOnePlace
  <2>3. tracker \in [Job -> Nat] /\ tracker' \in [Job -> Nat]
    BY <2>1, Parts, PartsNext DEF RetriesOK, CountsOK
  <2> QED
    BY <2>1, <2>2, <2>3, PhasesMatchPlaces, PhasesMatchNext
<1>3. ASSUME NEW j \in Job
      PROVE  PhaseMatches(j) /\ PhaseMatches(j)'
  BY <1>2 DEF PhasesMatch
<1>4. ASSUME NEW j \in Job, Still(j)
      PROVE  PhaseOf(j)' = PhaseOf(j) /\ tracker'[j] = tracker[j]
  BY <1>3, <1>4 DEF Still, PhaseMatches
<1>5. CASE \A j \in Job : Still(j)
  <2>1. [j \in Job |-> PhaseOf(j)]' = [j \in Job |-> PhaseOf(j)]
    BY <1>4, <1>5
  <2>2. tracker' = tracker
    BY <1>2, <1>4, <1>5
  <2> QED
    BY <2>1, <2>2
<1>6. ASSUME NEW k \in Job, \A j \in Job \ {k} : Still(j),
             \/ Submitted(k) \/ Assigned(k) \/ Completed(k)
             \/ Retried(k) \/ Buried(k)
      PROVE  Lifecycle!Next
  <2>1. \A j \in Job \ {k} : PhaseOf(j)' = PhaseOf(j) /\ tracker'[j] = tracker[j]
    BY <1>4, <1>6
  <2>2. PhaseMatches(k) /\ PhaseMatches(k)'
    BY <1>3
  <2>3. CASE Submitted(k)
    <3>1. PhaseOf(k) = "new" /\ PhaseOf(k)' = "waiting"
      BY <2>2, <2>3 DEF Submitted, PhaseMatches
    <3>2. Lifecycle!Move(k, "new", "waiting")
      BY <2>1, <3>1, MoveOf
    <3>3. tracker' = tracker
      BY <1>2, <2>1, <2>3 DEF Submitted
    <3> QED
      BY <3>2, <3>3 DEF Lifecycle!Next, Lifecycle!Submit
  <2>4. CASE Assigned(k)
    <3>1. PhaseOf(k) = "waiting" /\ PhaseOf(k)' = "running"
      BY <2>2, <2>4 DEF Assigned, PhaseMatches
    <3>2. Lifecycle!Move(k, "waiting", "running")
      BY <2>1, <3>1, MoveOf
    <3>3. tracker' = tracker
      BY <1>2, <2>1, <2>4 DEF Assigned
    <3> QED
      BY <3>2, <3>3 DEF Lifecycle!Next, Lifecycle!Assign
  <2>5. CASE Completed(k)
    <3>1. PhaseOf(k) = "running" /\ PhaseOf(k)' = "done"
      BY <2>2, <2>5 DEF Completed, PhaseMatches
    <3>2. Lifecycle!Move(k, "running", "done")
      BY <2>1, <3>1, MoveOf
    <3>3. tracker' = tracker
      BY <1>2, <2>1, <2>5 DEF Completed
    <3> QED
      BY <3>2, <3>3 DEF Lifecycle!Next, Lifecycle!Complete
  <2>6. CASE Retried(k)
    <3>1. PhaseOf(k) = "running" /\ PhaseOf(k)' = "waiting"
      BY <2>2, <2>6 DEF Retried, PhaseMatches
    <3>2. Lifecycle!Move(k, "running", "waiting")
      BY <2>1, <3>1, MoveOf
    <3>3. tracker' = [tracker EXCEPT ![k] = @ + 1] /\ tracker[k] < MaxRetries
      BY <1>2, <2>1, <2>6, MaxRetriesAssumption DEF Retried, RetriesLeft
    <3> QED
      BY <3>2, <3>3 DEF Lifecycle!Next, Lifecycle!Retry
  <2>7. CASE Buried(k)
    <3>1. PhaseOf(k) = "running" /\ PhaseOf(k)' = "dead" /\ dlq[k] = 0
      BY <2>2, <2>7 DEF Buried, PhaseMatches
    <3>2. Lifecycle!Move(k, "running", "dead")
      BY <2>1, <3>1, MoveOf
    <3>3. tracker' = [tracker EXCEPT ![k] = @ + 1]
      BY <1>2, <2>1, <2>7 DEF Buried
    <3>4. tracker[k] = MaxRetries
      BY <1>2, <2>7, <3>1, Parts, MaxRetriesAssumption
      DEF Buried, RetriesLeft, RetriesOK, BuriedAfterRetries
    <3> QED
      BY <3>2, <3>3, <3>4 DEF Lifecycle!Next, Lifecycle!Bury
  <2> QED
    BY <1>6, <2>3, <2>4, <2>5, <2>6, <2>7
<1> QED
  BY <1>1, <1>5, <1>6, OneJobMoves

\* LifecycleSpec: while no worker is lost, every job goes through the phases of
\* JobLifecycle and each step of the coordinator and its workers moves at most
\* one job one phase on: it is handed out again only after the attempt before
\* has failed, buried after MaxRetries + 1 failures, and final once it is done.
THEOREM ImplementsLifecycle == Spec /\ []NoFaults => LifecycleSpec
<1>1. Init => Lifecycle!Init
  <2> SUFFICES ASSUME Init PROVE Lifecycle!Init
    OBVIOUS
  <2>1. PhasesMatch
    BY InitInv, ConservedInit, InOnePlaceInit, PhasesMatchPlaces
    DEF InOnePlace, NoFaults, Init
  <2>2. \A j \in Job : PhaseOf(j) = "new"
    BY <2>1 DEF Init, PhasesMatch, PhaseMatches
  <2> QED
    BY <2>2 DEF Init, Lifecycle!Init
<1>2. Spec => [](SlotsFinite /\ Conserved /\ InOnePlace)
  <2>1. Init => SlotsFinite /\ Conserved /\ InOnePlace
    BY ConservedInit, InOnePlaceInit
  <2>2. /\ IInv /\ Calm /\ SlotsFinite /\ Conserved /\ InOnePlace
        /\ [Next]_vars
        => (SlotsFinite /\ Conserved /\ InOnePlace)'
    BY ConservedStep, InOnePlaceStep
  <2> QED
    BY <2>1, <2>2, Invariance, CalmAlways, PTL DEF Spec
<1> QED
  BY <1>1, <1>2, StepIsLifecycle, Invariance, CalmAlways, PTL
  DEF Spec, LifecycleSpec, Lifecycle!Spec

\* With the bounds of the run that checks it there is neither a crash nor a
\* silence, and the whole specification implements the lifecycle.
LEMMA NoFaultsWithin ==
    ASSUME MaxCrashes = 0, MaxSilences = 0
    PROVE  Spec => []NoFaults
<1>1. Init => NoFaults
  BY DEF Init, NoFaults
<1>2. ASSUME NoFaults, [Next]_vars PROVE NoFaults'
  <2>1. \A w \in Worker : ~Crash(w) /\ (GoSilent(w) => UNCHANGED <<crashes, silences>>)
    BY <1>2, SMTT(30) DEF NoFaults, Crash, GoSilent
  <2>2. UNCHANGED <<crashes, silences>>
    BY <1>2, <2>1
    DEF Next, Assigner, Failover, TaskFailedHandler, JobCompletedHandler, vars,
        envVars, Submit, Start, ExecuteTask, CoolDown, StoreReady, HandleRegister,
        PersistWorker, SendHeartbeat, HandleHeartbeat, MonitorReports, HandleWorkerFailure,
        FailoverScan, FailoverRequeue, HandleJobSubmitted, PersistTask, PickWorkers,
        CheckWorker, PickNothing, ChooseWorker, IncrementLoad, PublishAssignment,
        SendToWorker, PersistTaskAssigned, FreeCapacity, NoteSuccess,
        PersistTaskCompleted, NoteFailure, RetryOrBury
  <2> QED
    BY <1>2, <2>2 DEF NoFaults
<1> QED
  BY <1>1, <1>2, PTL DEF Spec

COROLLARY FaultlessImplementsLifecycle ==
    ASSUME MaxCrashes = 0, MaxSilences = 0
    PROVE  Spec => LifecycleSpec
BY NoFaultsWithin, ImplementsLifecycle, PTL
=============================================================================
