------------------------ MODULE TaskRepositoryProofs ------------------------
(***************************************************************************)
(* The record of a task, for any number of workers, retries and faults:    *)
(* types, the agreement of the cached copy with the row while no two calls *)
(* overlap, the count of failures in the row, which no overlap breaks, and *)
(* what is shown of a finished task once the calls have returned.          *)
(***************************************************************************)
EXTENDS TaskRepository, SequenceTheorems, TLAPS

\* A call under way has a step that its operation has, and its copy in hand.
StepOK(h) ==
    /\ step[h] # "get" => Busy(h) /\ Current(h).op # "list"
    /\ step[h] = "set" => held[h] # NoTask /\ Current(h).op \in {"update", "increment"}

\* The operations each handler calls.
OpsOK(h) ==
    \A i \in 1..Len(calls[h]) :
        /\ calls[h][i].op = "save" <=> h = "persist_task"
        /\ calls[h][i].op = "increment" => h = "handle_task_failed"
        /\ calls[h][i].op = "list" => h = "handle_worker_failed"

\* While nothing has disturbed the calls, only one is under way, and the copy is the
\* row until it is written, and what the row will be from then on.
CopyOK(h) ==
    /\ \A g \in Handlers \ {h} : step[h] = "get" \/ step[g] = "get"
    /\ step[h] = "set" => copy = row /\ held[h] = row
    /\ step[h] = "row" => copy = IF Writes(h) THEN ChangedRow(h) ELSE row

AgreementOK ==
    ~disturbed => /\ \A h \in Handlers : CopyOK(h)
                  /\ (\A h \in Handlers : step[h] = "get") => copy = row

\* The calls of a failure come in pairs, of which the first may have been made.
Alternates(q) ==
    \A i \in 1..Len(q) : q[i].op = "increment" <=> (Len(q) - i) % 2 = 1

Failing == calls["handle_task_failed"]

\* Before the task is submitted there is nothing of it; a worker may fail.
UnsubmittedOK ==
    ~submitted =>
        /\ waiting = 0 /\ running = [w \in Workers |-> 0]
        /\ row = NoTask /\ failures = 0
        /\ \A h \in Handlers \ {"handle_worker_failed"} : calls[h] = <<>>
        /\ \A i \in 1..Len(calls["handle_worker_failed"]) :
              calls["handle_worker_failed"][i].op = "list"

\* The row is saved once, and before the first failure when no outcome was early; the
\* increments that are still to be made complete its count.
CountOK ==
    /\ Alternates(Failing)
    /\ Len(calls["persist_task"]) <= 1
    /\ ~late /\ Busy("persist_task") => failures = 0 /\ Failing = <<>>
    /\ row # NoTask => online /\ ~Busy("persist_task")
    /\ row # NoTask /\ faults = 0 /\ ~late =>
          2 * (failures - row.retries) = Len(Failing) - (Len(Failing) % 2)

CallsOK ==
    /\ calls \in [Handlers -> Seq(Call)]
    /\ \A h \in Handlers : StepOK(h) /\ OpsOK(h)

IInv == TypeOK /\ CallsOK /\ AgreementOK /\ UnsubmittedOK /\ CountOK

-----------------------------------------------------------------------------
(* Calls and records                                                       *)

\* What the operation of a call says of its other fields.
LEMMA CallFields ==
    ASSUME NEW c \in Call
    PROVE  /\ c.op \in {"save", "increment", "list", "update"}
           /\ c.op = "update" => c.status \in Status /\ c.worker \in Workers \cup {NoWorker}
           /\ c.op = "list" => c.worker \in Workers
BY DEF Call, Saving, Incrementing, Listing, Updating

\* The calls the handlers make.
LEMMA CallsTyped ==
    /\ Saving \in Call /\ Saving.op = "save"
    /\ Incrementing \in Call /\ Incrementing.op = "increment"
    /\ \A w \in Workers : Listing(w) \in Call /\ Listing(w).op = "list"
    /\ \A st \in Status, w \in Workers \cup {NoWorker} :
          Updating(st, w) \in Call /\ Updating(st, w).op = "update"
<1>1. /\ Saving \in Call /\ Saving.op = "save"
      /\ Incrementing \in Call /\ Incrementing.op = "increment"
  BY DEF Call, Saving, Incrementing
<1>2. ASSUME NEW w \in Workers PROVE Listing(w) \in Call /\ Listing(w).op = "list"
  <2>1. Listing(w).op = "list"
    BY DEF Listing
  <2>2. Listing(w) \in {Listing(v) : v \in Workers}
    OBVIOUS
  <2> QED BY <2>1, <2>2 DEF Call
<1>3. ASSUME NEW st \in Status, NEW w \in Workers \cup {NoWorker}
      PROVE  Updating(st, w) \in Call /\ Updating(st, w).op = "update"
  <2>1. Updating(st, w).op = "update"
    BY DEF Updating
  <2>2. Updating(st, w) \in {Updating(s, v) : s \in Status, v \in Workers \cup {NoWorker}}
    OBVIOUS
  <2> QED BY <2>1, <2>2 DEF Call
<1> QED
  BY <1>1, <1>2, <1>3

\* The record a call leaves is one, and only an increment changes its count.
LEMMA ChangedRecord ==
    ASSUME NEW c \in Call, c.op # "list", NEW t, c.op # "save" => t \in Record
    PROVE  /\ Changed(c, t) \in Record
           /\ c.op = "save" => Changed(c, t).retries = 0
           /\ c.op = "increment" => Changed(c, t).retries = t.retries + 1
           /\ c.op = "update" => Changed(c, t).retries = t.retries
<1>1. CASE c.op = "save"
  BY <1>1 DEF Changed, Record, Status
<1>2. CASE c.op = "update"
  BY <1>2, CallFields DEF Changed, Record
<1>3. CASE c.op = "increment"
  BY <1>3 DEF Changed, Record
<1> QED
  BY <1>1, <1>2, <1>3, CallFields

\* The first call of a handler, and the rest.
LEMMA FirstCall ==
    ASSUME NEW q \in Seq(Call), q # <<>>
    PROVE  /\ Head(q) \in Call /\ Head(q) = q[1] /\ Len(q) \in Nat /\ Len(q) >= 1
           /\ Tail(q) \in Seq(Call) /\ Len(Tail(q)) = Len(q) - 1
           /\ \A i \in 1..Len(Tail(q)) : Tail(q)[i] = q[i + 1]
BY HeadTailProperties, EmptySeq, LenProperties

\* Calls that are added come after those that wait.
LEMMA AddedCalls ==
    ASSUME NEW q \in Seq(Call), NEW p \in Seq(Call)
    PROVE  /\ q \o p \in Seq(Call) /\ Len(q \o p) = Len(q) + Len(p)
           /\ Len(q) \in Nat /\ Len(p) \in Nat
           /\ \A i \in 1..Len(q) : (q \o p)[i] = q[i]
           /\ \A i \in 1..Len(p) : (q \o p)[Len(q) + i] = p[i]
           /\ q # <<>> => q \o p # <<>> /\ Head(q \o p) = Head(q)
<1>1. /\ q \o p \in Seq(Call) /\ Len(q \o p) = Len(q) + Len(p)
      /\ Len(q) \in Nat /\ Len(p) \in Nat
      /\ \A i \in 1..Len(q) + Len(p) :
            (q \o p)[i] = IF i <= Len(q) THEN q[i] ELSE p[i - Len(q)]
  BY ConcatProperties, LenProperties
<1>2. \A i \in 1..Len(q) : (q \o p)[i] = q[i]
  BY <1>1
<1>3. ASSUME NEW i \in 1..Len(p) PROVE (q \o p)[Len(q) + i] = p[i]
  BY <1>1
<1>4. ASSUME q # <<>> PROVE q \o p # <<>> /\ Head(q \o p) = Head(q)
  BY <1>1, <1>2, <1>4, FirstCall, EmptySeq
<1> QED
  BY <1>1, <1>2, <1>3, <1>4

-----------------------------------------------------------------------------
(* Steps that only add calls                                               *)

\* Calls of its own operations that are added to those of a handler disturb neither
\* the calls under way nor what they will leave.
LEMMA AddingCalls ==
    ASSUME CallsOK, AgreementOK, NEW h \in Handlers, NEW p \in Seq(Call),
           \A i \in 1..Len(p) : /\ p[i].op = "save" <=> h = "persist_task"
                                /\ p[i].op = "increment" => h = "handle_task_failed"
                                /\ p[i].op = "list" => h = "handle_worker_failed",
           calls' = [calls EXCEPT ![h] = @ \o p],
           UNCHANGED <<step, held, copy, row, disturbed>>
    PROVE  CallsOK' /\ AgreementOK'
<1>1. /\ calls' \in [Handlers -> Seq(Call)]
      /\ calls'[h] = calls[h] \o p
      /\ \A g \in Handlers \ {h} : calls'[g] = calls[g]
  BY AddedCalls DEF CallsOK
<1>2. ASSUME NEW g \in Handlers, Busy(g) PROVE Busy(g)' /\ Current(g)' = Current(g)
  <2>1. CASE g = h
    BY <1>1, <1>2, <2>1, AddedCalls DEF Busy, Current, CallsOK
  <2>2. CASE g # h
    BY <1>1, <1>2, <2>2 DEF Busy, Current
  <2> QED BY <2>1, <2>2
<1>3. ASSUME NEW g \in Handlers PROVE StepOK(g)'
  BY <1>2, <1>3 DEF StepOK, CallsOK
<1>4. ASSUME NEW g \in Handlers PROVE OpsOK(g)'
  <2>1. CASE g # h
    BY <1>1, <2>1 DEF OpsOK, CallsOK
  <2>2. CASE g = h
    <3>1. ASSUME NEW i \in 1..Len(calls'[h])
          PROVE  /\ calls'[h][i].op = "save" <=> h = "persist_task"
                 /\ calls'[h][i].op = "increment" => h = "handle_task_failed"
                 /\ calls'[h][i].op = "list" => h = "handle_worker_failed"
      <4>1. CASE i <= Len(calls[h])
        BY <1>1, <4>1, AddedCalls DEF OpsOK, CallsOK
      <4>2. CASE i > Len(calls[h])
        <5> DEFINE j == i - Len(calls[h])
        <5>1. j \in 1..Len(p) /\ i = Len(calls[h]) + j
          BY <1>1, <4>2, AddedCalls DEF CallsOK
        <5>2. calls'[h][i] = p[j]
          BY <1>1, <5>1, AddedCalls DEF CallsOK
        <5> QED BY <5>1, <5>2
      <4> QED BY <4>1, <4>2, <1>1, AddedCalls DEF CallsOK
    <3> QED BY <3>1, <2>2 DEF OpsOK
  <2> QED BY <2>1, <2>2
<1>5. ASSUME NEW g \in Handlers, CopyOK(g) PROVE CopyOK(g)'
  <2>1. step[g] = "row" => Writes(g)' = Writes(g) /\ ChangedRow(g)' = ChangedRow(g)
    BY <1>2, <1>5 DEF CallsOK, StepOK, Writes, ChangedRow
  <2> QED BY <2>1, <1>5 DEF CopyOK
<1> QED
  BY <1>1, <1>3, <1>4, <1>5 DEF CallsOK, AgreementOK

\* The same of one call.
LEMMA AddingCall ==
    ASSUME CallsOK, AgreementOK, NEW h \in Handlers, NEW c \in Call,
           c.op = "save" <=> h = "persist_task",
           c.op = "increment" => h = "handle_task_failed",
           c.op = "list" => h = "handle_worker_failed",
           calls' = [calls EXCEPT ![h] = Append(@, c)],
           UNCHANGED <<step, held, copy, row, disturbed>>
    PROVE  CallsOK' /\ AgreementOK'
<1>1. Append(calls[h], c) = calls[h] \o <<c>>
  BY AppendIsConcat DEF CallsOK
<1>2. calls' = [calls EXCEPT ![h] = @ \o <<c>>]
  BY <1>1
<1>3. <<c>> \in Seq(Call) /\ Len(<<c>>) = 1 /\ <<c>>[1] = c
  OBVIOUS
<1>4. \A i \in 1..Len(<<c>>) : /\ <<c>>[i].op = "save" <=> h = "persist_task"
                               /\ <<c>>[i].op = "increment" => h = "handle_task_failed"
                               /\ <<c>>[i].op = "list" => h = "handle_worker_failed"
  BY <1>3
<1> QED
  BY <1>2, <1>3, <1>4, AddingCalls

-----------------------------------------------------------------------------
(* The steps of a call                                                     *)

\* A step of a call leaves the calls of the other handlers alone.
LEMMA OthersKept ==
    ASSUME NEW g \in Handlers, CallsOK,
           calls'[g] = calls[g], step'[g] = step[g], held'[g] = held[g]
    PROVE  StepOK(g)' /\ OpsOK(g)'
BY DEF CallsOK, StepOK, OpsOK, Busy, Current

LEMMA ReadCopyStep ==
    ASSUME Assumptions, TypeOK, CallsOK, AgreementOK, NEW h \in Handlers, ReadCopy(h)
    PROVE  TypeOK' /\ CallsOK' /\ AgreementOK'
<1>1. /\ Busy(h) /\ step[h] = "get" /\ Current(h).op \in {"update", "increment"}
      /\ calls' = calls /\ copy' = copy /\ row' = row
      /\ held' \in {[held EXCEPT ![h] = copy], [held EXCEPT ![h] = NoTask]}
      /\ step' = [step EXCEPT ![h] = IF held'[h] = NoTask THEN "row" ELSE "set"]
      /\ faults' \in Nat /\ failovers' = failovers /\ failovers + faults' <= MaxFaults
      /\ faults' = faults => held' = [held EXCEPT ![h] = copy]
  BY DEF ReadCopy, Fault, Works, TypeOK, Assumptions
<1>d. ~disturbed' => ~disturbed /\ faults' = faults /\ ~Overlaps(h)
  BY Zenon DEF ReadCopy
<1>2. TypeOK'
  BY <1>1 DEF TypeOK, ReadCopy, job
<1>3. StepOK(h)' /\ OpsOK(h)'
  BY <1>1 DEF StepOK, OpsOK, CallsOK, TypeOK, Busy, Current
<1>4. ASSUME NEW g \in Handlers \ {h}
      PROVE  step'[g] = step[g] /\ StepOK(g)' /\ OpsOK(g)'
  <2>1. calls'[g] = calls[g] /\ step'[g] = step[g] /\ held'[g] = held[g]
    BY <1>1 DEF TypeOK
  <2> QED BY <2>1, OthersKept
<1>5. CallsOK'
  BY <1>2, <1>3, <1>4 DEF CallsOK, TypeOK
<1>6. AgreementOK'
  <2> SUFFICES ASSUME ~disturbed' PROVE /\ \A g \in Handlers : CopyOK(g)'
                                       /\ \E g \in Handlers : step'[g] # "get"
    BY DEF AgreementOK
  <2>1. \A g \in Handlers \ {h} : step[g] = "get" /\ step'[g] = "get"
    BY <1>4, <1>d DEF Overlaps
  <2>2. copy = row
    BY <1>1, <1>d, <2>1 DEF AgreementOK
  <2>3. step'[h] # "get" /\ held'[h] = row
    BY <1>1, <1>d, <2>2 DEF TypeOK
  <2>4. step'[h] = "row" => ~Writes(h)'
    BY <1>1, <2>3 DEF TypeOK, Writes, Current
  <2>5. CopyOK(h)'
    BY <1>1, <2>1, <2>2, <2>3, <2>4 DEF CopyOK
  <2>6. ASSUME NEW g \in Handlers \ {h} PROVE CopyOK(g)'
    BY <2>1, <2>6 DEF CopyOK
  <2> QED BY <2>3, <2>5, <2>6
<1> QED
  BY <1>2, <1>5, <1>6

LEMMA WriteCopyStep ==
    ASSUME Assumptions, TypeOK, CallsOK, AgreementOK, NEW h \in Handlers, WriteCopy(h)
    PROVE  TypeOK' /\ CallsOK' /\ AgreementOK'
<1>1. /\ Busy(h)
      /\ step[h] = "set" \/ (step[h] = "get" /\ Current(h).op = "save")
      /\ calls' = calls /\ row' = row
      /\ copy' \in {Changed(Current(h), held[h]), copy}
      /\ held' = [held EXCEPT ![h] = NoTask]
      /\ step' = [step EXCEPT ![h] = "row"]
      /\ faults' \in Nat /\ failovers' = failovers /\ failovers + faults' <= MaxFaults
      /\ faults' = faults => copy' = Changed(Current(h), held[h])
  BY DEF WriteCopy, Fault, Works, TypeOK, Assumptions
<1>d. ~disturbed' => ~disturbed /\ faults' = faults /\ ~Overlaps(h)
  BY Zenon DEF WriteCopy
<1>2. /\ Current(h) \in Call /\ Current(h).op # "list"
      /\ Current(h).op # "save" => step[h] = "set" /\ held[h] \in Record
  BY <1>1, FirstCall DEF CallsOK, StepOK, Busy, Current, TypeOK
<1>3. copy' \in Record \cup {NoTask}
  BY <1>1, <1>2, ChangedRecord DEF TypeOK
<1>4. TypeOK'
  BY <1>1, <1>3 DEF TypeOK, WriteCopy, job
<1>5. StepOK(h)' /\ OpsOK(h)'
  BY <1>1, <1>2 DEF StepOK, OpsOK, CallsOK, TypeOK, Busy, Current
<1>6. ASSUME NEW g \in Handlers \ {h}
      PROVE  step'[g] = step[g] /\ StepOK(g)' /\ OpsOK(g)'
  <2>1. calls'[g] = calls[g] /\ step'[g] = step[g] /\ held'[g] = held[g]
    BY <1>1 DEF TypeOK
  <2> QED BY <2>1, OthersKept
<1>7. CallsOK'
  BY <1>4, <1>5, <1>6 DEF CallsOK, TypeOK
<1>8. AgreementOK'
  <2> SUFFICES ASSUME ~disturbed' PROVE /\ \A g \in Handlers : CopyOK(g)'
                                       /\ \E g \in Handlers : step'[g] # "get"
    BY DEF AgreementOK
  <2>1. \A g \in Handlers \ {h} : step[g] = "get" /\ step'[g] = "get"
    BY <1>6, <1>d DEF Overlaps
  <2>2. step'[h] = "row"
    BY <1>1 DEF TypeOK
  <2>3. Writes(h)' /\ copy' = ChangedRow(h)'
    <3>1. Current(h)' = Current(h) /\ copy' = Changed(Current(h), held[h])
      BY <1>1, <1>d DEF Current
    <3>2. CASE Current(h).op = "save"
      BY <3>1, <3>2 DEF Writes, ChangedRow, Changed
    <3>3. CASE Current(h).op # "save"
      <4>1. copy = row /\ held[h] = row
        BY <1>1, <1>2, <1>d, <3>3 DEF AgreementOK, CopyOK
      <4>2. row # NoTask
        BY <1>2, <3>3, <4>1 DEF CallsOK, StepOK
      <4> QED BY <1>1, <3>1, <4>1, <4>2 DEF Writes, ChangedRow
    <3> QED BY <3>2, <3>3
  <2>4. CopyOK(h)'
    BY <2>1, <2>2, <2>3 DEF CopyOK
  <2>5. ASSUME NEW g \in Handlers \ {h} PROVE CopyOK(g)'
    BY <2>1, <2>5 DEF CopyOK
  <2> QED BY <2>2, <2>4, <2>5
<1> QED
  BY <1>4, <1>7, <1>8

\* The end of a call: the row is written, or not, and the next call begins.
LEMMA WriteRowStep ==
    ASSUME Assumptions, TypeOK, CallsOK, AgreementOK, NEW h \in Handlers, WriteRow(h)
    PROVE  TypeOK' /\ CallsOK' /\ AgreementOK'
<1>1. /\ Busy(h) /\ step[h] = "row"
      /\ calls' = [calls EXCEPT ![h] = Tail(@)]
      /\ step' = [step EXCEPT ![h] = "get"]
      /\ held' = held /\ copy' = copy
      /\ row' = row \/ (online /\ Writes(h) /\ row' = ChangedRow(h))
      /\ waiting' \in Nat
      /\ faults' \in Nat /\ failovers' = failovers /\ failovers + faults' <= MaxFaults
  BY DEF WriteRow, Fault, Works, TypeOK, Assumptions
<1>2. Current(h) \in Call /\ Current(h).op # "list"
  BY <1>1, FirstCall DEF CallsOK, StepOK, Busy, Current
<1>3. row' \in Record \cup {NoTask}
  <2>1. Writes(h) => ChangedRow(h) \in Record
    BY <1>2, ChangedRecord DEF TypeOK, Writes, ChangedRow
  <2> QED BY <1>1, <2>1 DEF TypeOK
<1>4. Tail(calls[h]) \in Seq(Call)
  BY <1>1, FirstCall DEF CallsOK, Busy
<1>5. calls' \in [Handlers -> Seq(Call)]
  BY <1>1, <1>4 DEF CallsOK
<1>6. TypeOK'
  <2>1. disturbed' \in BOOLEAN
    BY Zenon DEF WriteRow
  <2> QED BY <1>1, <1>3, <1>5, <2>1 DEF TypeOK, WriteRow
<1>7. StepOK(h)'
  BY <1>1 DEF StepOK, TypeOK
<1>8. OpsOK(h)'
  BY <1>1, FirstCall DEF OpsOK, CallsOK, Busy
<1>9. ASSUME NEW g \in Handlers \ {h}
      PROVE  step'[g] = step[g] /\ StepOK(g)' /\ OpsOK(g)'
  <2>1. calls'[g] = calls[g] /\ step'[g] = step[g] /\ held'[g] = held[g]
    BY <1>1 DEF TypeOK
  <2> QED BY <2>1, OthersKept
<1>10. CallsOK'
  BY <1>5, <1>7, <1>8, <1>9 DEF CallsOK
<1>11. AgreementOK'
  <2> SUFFICES ASSUME ~disturbed' PROVE /\ \A g \in Handlers : CopyOK(g)'
                                       /\ copy' = row'
    BY DEF AgreementOK
  <2>1. ~disturbed /\ online /\ faults' = faults
    BY Zenon DEF WriteRow
  <2>2. row' = IF Writes(h) THEN ChangedRow(h) ELSE row
    BY <2>1 DEF WriteRow, Fault, TypeOK
  <2>3. \A g \in Handlers \ {h} : step'[g] = "get"
    BY <1>1, <1>9, <2>1 DEF AgreementOK, CopyOK
  <2>4. step'[h] = "get"
    BY <1>1 DEF TypeOK
  <2>5. copy' = row'
    BY <1>1, <2>1, <2>2 DEF AgreementOK, CopyOK
  <2> QED BY <2>3, <2>4, <2>5 DEF CopyOK
<1> QED
  BY <1>6, <1>10, <1>11

\* A failover replaces its scan by the calls it leads to.
LEMMA ListAssignedStep ==
    ASSUME Assumptions, TypeOK, CallsOK, AgreementOK, NEW h \in Handlers, ListAssigned(h)
    PROVE  TypeOK' /\ CallsOK' /\ AgreementOK'
<1> DEFINE next == <<Updating("PENDING", NoWorker)>> \o Tail(calls[h])
<1>1. /\ Busy(h) /\ Current(h).op = "list"
      /\ \/ calls' = [calls EXCEPT ![h] = Tail(@)]
         \/ calls' = [calls EXCEPT ![h] = next]
      /\ step' = step /\ held' = held /\ copy' = copy /\ row' = row
      /\ disturbed' = disturbed
      /\ faults' \in Nat /\ failovers' = failovers /\ failovers + faults' <= MaxFaults
  BY DEF ListAssigned, Fault, Works, TypeOK, Assumptions
<1>2. /\ Tail(calls[h]) \in Seq(Call)
      /\ \A i \in 1..Len(Tail(calls[h])) : Tail(calls[h])[i] = calls[h][i + 1]
      /\ Len(calls[h]) \in Nat /\ Len(calls[h]) >= 1
      /\ Len(Tail(calls[h])) = Len(calls[h]) - 1
      /\ calls[h][1].op = "list"
  BY <1>1, FirstCall DEF CallsOK, Busy, Current
<1>3. h = "handle_worker_failed"
  BY <1>2 DEF CallsOK, OpsOK
<1>4. /\ <<Updating("PENDING", NoWorker)>> \in Seq(Call)
      /\ Len(<<Updating("PENDING", NoWorker)>>) = 1
      /\ <<Updating("PENDING", NoWorker)>>[1].op = "update"
  BY CallsTyped DEF Status
<1>5. /\ next \in Seq(Call) /\ Len(next) = Len(calls[h])
      /\ next[1].op = "update"
      /\ \A i \in 1..Len(Tail(calls[h])) : next[1 + i] = Tail(calls[h])[i]
  BY <1>2, <1>4, AddedCalls
<1>6. calls' \in [Handlers -> Seq(Call)]
  BY <1>1, <1>2, <1>5 DEF CallsOK
<1>7. TypeOK'
  BY <1>1, <1>6 DEF TypeOK, ListAssigned, job
<1>8. step[h] = "get"
  BY <1>1 DEF CallsOK, StepOK, TypeOK
<1>9. OpsOK(h)'
  <2>1. CASE calls'[h] = Tail(calls[h])
    BY <1>2, <2>1 DEF OpsOK, CallsOK
  <2>2. CASE calls'[h] = next
    <3>1. ASSUME NEW i \in 1..Len(calls[h])
          PROVE  /\ next[i].op # "save"
                 /\ next[i].op = "increment" => h = "handle_task_failed"
      <4>1. CASE i = 1
        BY <4>1, <1>5
      <4>2. CASE i > 1
        <5> DEFINE j == i - 1
        <5>1. j \in 1..Len(Tail(calls[h])) /\ i = 1 + j
          BY <4>2, <1>2
        <5>2. next[i] = calls[h][i]
          BY <5>1, <1>5, <1>2
        <5> QED BY <5>2, <1>3 DEF CallsOK, OpsOK
      <4> QED BY <4>1, <4>2, <1>2
    <3> QED BY <3>1, <2>2, <1>3, <1>5 DEF OpsOK
  <2> QED BY <1>1, <2>1, <2>2 DEF CallsOK
<1>10. StepOK(h)'
  BY <1>1, <1>8 DEF StepOK
<1>11. ASSUME NEW g \in Handlers \ {h} PROVE StepOK(g)' /\ OpsOK(g)'
  <2>1. calls'[g] = calls[g]
    BY <1>1 DEF CallsOK
  <2> QED BY <2>1, <1>1, OthersKept
<1>12. CallsOK'
  BY <1>6, <1>9, <1>10, <1>11 DEF CallsOK
<1>13. ASSUME NEW g \in Handlers, CopyOK(g) PROVE CopyOK(g)'
  <2>1. CASE g = h
    BY <1>1, <1>8, <1>13, <2>1 DEF CopyOK
  <2>2. CASE g # h
    <3>1. calls'[g] = calls[g]
      BY <1>1, <2>2 DEF CallsOK
    <3> QED BY <1>1, <1>13, <3>1 DEF CopyOK, Writes, ChangedRow, Current
  <2> QED BY <2>1, <2>2
<1>14. AgreementOK'
  BY <1>1, <1>13 DEF AgreementOK
<1> QED
  BY <1>7, <1>12, <1>14

-----------------------------------------------------------------------------
(* The events                                                              *)

LEMMA SubmitStep ==
    ASSUME TypeOK, CallsOK, AgreementOK, Submit
    PROVE  TypeOK' /\ CallsOK' /\ AgreementOK'
<1>1. CallsOK' /\ AgreementOK'
  BY AddingCall, CallsTyped DEF Submit, Handlers, history
<1> QED
  BY <1>1 DEF TypeOK, CallsOK, Submit, history

LEMMA AssignStep ==
    ASSUME TypeOK, CallsOK, AgreementOK, NEW w \in Workers, Assign(w)
    PROVE  TypeOK' /\ CallsOK' /\ AgreementOK'
<1>1. /\ Updating("ASSIGNED", w) \in Call /\ Updating("ASSIGNED", w).op = "update"
      /\ "persist_task_assigned" \in Handlers
  BY CallsTyped DEF Status, Handlers
<1>2. CallsOK' /\ AgreementOK'
  BY <1>1, AddingCall DEF Assign, history
<1> QED
  BY <1>2 DEF TypeOK, CallsOK, Assign, history

LEMMA CompleteStep ==
    ASSUME TypeOK, CallsOK, AgreementOK, NEW w \in Workers, Complete(w)
    PROVE  TypeOK' /\ CallsOK' /\ AgreementOK'
<1>1. /\ Updating("COMPLETED", NoWorker) \in Call
      /\ Updating("COMPLETED", NoWorker).op = "update"
      /\ "persist_task_completed" \in Handlers
  BY CallsTyped DEF Status, Handlers
<1>2. CallsOK' /\ AgreementOK'
  BY <1>1, AddingCall DEF Complete
<1>3. completed' \in BOOLEAN /\ late' \in BOOLEAN
  BY Zenon DEF Complete
<1> QED
  BY <1>2, <1>3 DEF TypeOK, CallsOK, Complete

\* The calls of a failure.
LEMMA RetryCallsTyped ==
    ASSUME NEW n
    PROVE  /\ RetryCalls(n) \in Seq(Call) /\ Len(RetryCalls(n)) = 2
           /\ RetryCalls(n)[1].op = "increment" /\ RetryCalls(n)[2].op = "update"
<1> DEFINE c == Updating(IF n <= MaxRetries THEN "RETRYING" ELSE "DLQ", NoWorker)
<1>1. c \in Call /\ c.op = "update"
  BY CallsTyped DEF Status
<1>2. RetryCalls(n) = <<Incrementing, c>>
  BY DEF RetryCalls
<1> QED
  BY <1>1, <1>2, CallsTyped

LEMMA FailStep ==
    ASSUME TypeOK, CallsOK, AgreementOK, NEW w \in Workers, Fail(w)
    PROVE  TypeOK' /\ CallsOK' /\ AgreementOK'
<1>1. \A i \in 1..Len(RetryCalls(failures')) :
         /\ RetryCalls(failures')[i].op \in {"increment", "update"}
         /\ "handle_task_failed" \in Handlers
  BY RetryCallsTyped DEF Handlers
<1>2. CallsOK' /\ AgreementOK'
  BY <1>1, RetryCallsTyped, AddingCalls DEF Fail, Handlers
<1>3. late' \in BOOLEAN
  BY Zenon DEF Fail
<1> QED
  BY <1>2, <1>3 DEF TypeOK, CallsOK, Fail

LEMMA LoseWorkerStep ==
    ASSUME Assumptions, TypeOK, CallsOK, AgreementOK, NEW w \in Workers, LoseWorker(w)
    PROVE  TypeOK' /\ CallsOK' /\ AgreementOK'
<1>1. /\ Listing(w) \in Call /\ Listing(w).op = "list"
      /\ "handle_worker_failed" \in Handlers
  BY CallsTyped DEF Handlers
<1>2. CallsOK' /\ AgreementOK'
  BY <1>1, AddingCall DEF LoseWorker
<1>3. running' \in [Workers -> Nat]
  BY DEF TypeOK, LoseWorker
<1>4. failovers' \in Nat /\ failovers' + faults' <= MaxFaults
  BY DEF TypeOK, LoseWorker, Assumptions
<1> QED
  BY <1>2, <1>3, <1>4 DEF TypeOK, CallsOK, LoseWorker

LEMMA StoreReadyStep ==
    ASSUME TypeOK, CallsOK, AgreementOK, StoreReady
    PROVE  TypeOK' /\ CallsOK' /\ AgreementOK'
BY DEF TypeOK, CallsOK, AgreementOK, CopyOK, StepOK, OpsOK, Busy, Current, Writes,
       ChangedRow, StoreReady, job, history

LEMMA EvictStep ==
    ASSUME Assumptions, TypeOK, CallsOK, AgreementOK, Evict
    PROVE  TypeOK' /\ CallsOK' /\ AgreementOK'
<1>1. faults' \in Nat /\ failovers' = failovers /\ failovers + faults' <= MaxFaults
  BY DEF TypeOK, Evict, Fault, Assumptions
<1>2. TypeOK'
  BY <1>1 DEF TypeOK, Evict, job
<1>3. CallsOK'
  BY DEF CallsOK, StepOK, OpsOK, Busy, Current, Evict
<1>4. AgreementOK'
  BY DEF AgreementOK, Evict
<1> QED
  BY <1>2, <1>3, <1>4

LEMMA Stutter ==
    ASSUME TypeOK, CallsOK, AgreementOK, UNCHANGED vars
    PROVE  TypeOK' /\ CallsOK' /\ AgreementOK'
BY DEF TypeOK, CallsOK, AgreementOK, CopyOK, StepOK, OpsOK, Busy, Current, Writes,
       ChangedRow, vars, job, history

-----------------------------------------------------------------------------
(* Types, and the agreement of copy and row                                *)

LEMMA InitialCalls ==
    ASSUME Assumptions, Init
    PROVE  TypeOK /\ CallsOK /\ AgreementOK
<1>1. calls \in [Handlers -> Seq(Call)] /\ \A h \in Handlers : Len(calls[h]) = 0
  BY EmptySeq DEF Init
<1>2. TypeOK
  <2>1. failovers \in Nat /\ faults \in Nat /\ failovers + faults <= MaxFaults
    BY DEF Init, Assumptions
  <2>2. /\ step \in [Handlers -> {"get", "set", "row"}]
        /\ held \in [Handlers -> Record \cup {NoTask}]
        /\ running \in [Workers -> Nat]
    BY DEF Init
  <2>3. /\ online \in BOOLEAN /\ submitted \in BOOLEAN
        /\ completed \in BOOLEAN /\ disturbed \in BOOLEAN /\ late \in BOOLEAN
    BY DEF Init
  <2>4. failures \in Nat /\ waiting \in Nat
    BY DEF Init
  <2> QED BY <1>1, <2>1, <2>2, <2>3, <2>4 DEF Init, TypeOK
<1>3. CallsOK
  BY <1>1 DEF Init, CallsOK, StepOK, OpsOK
<1>4. AgreementOK
  BY DEF Init, AgreementOK, CopyOK
<1> QED
  BY <1>2, <1>3, <1>4

LEMMA NextCalls ==
    ASSUME Assumptions, TypeOK, CallsOK, AgreementOK, [Next]_vars
    PROVE  TypeOK' /\ CallsOK' /\ AgreementOK'
<1>1. ASSUME NEW h \in Handlers, Step(h) PROVE TypeOK' /\ CallsOK' /\ AgreementOK'
  BY <1>1, ReadCopyStep, WriteCopyStep, WriteRowStep, ListAssignedStep DEF Step
<1>2. ASSUME NEW w \in Workers, Assign(w) \/ Complete(w) \/ Fail(w) \/ LoseWorker(w)
      PROVE  TypeOK' /\ CallsOK' /\ AgreementOK'
  BY <1>2, AssignStep, CompleteStep, FailStep, LoseWorkerStep
<1> QED
  BY <1>1, <1>2, SubmitStep, StoreReadyStep, EvictStep, Stutter DEF Next

LEMMA Calls ==
    ASSUME Assumptions
    PROVE  Spec => [](TypeOK /\ CallsOK /\ AgreementOK)
<1>1. Init => TypeOK /\ CallsOK /\ AgreementOK
  BY InitialCalls
<1>2. TypeOK /\ CallsOK /\ AgreementOK /\ [Next]_vars
         => (TypeOK /\ CallsOK /\ AgreementOK)'
  BY NextCalls
<1> QED
  BY <1>1, <1>2, PTL DEF Spec

\* The record of a task keeps its type: no handler changes the row or the copy of a
\* task that is not there, and none writes back a copy it has not read
\* (task_repository.py:48-64).
THEOREM TypeCorrect ==
    ASSUME Assumptions
    PROVE  Spec => []TypeOK
BY Calls, PTL

\* While no two calls overlap and none fails, what a client is shown is what the
\* database has, whatever the order in which the five threads make their calls
\* (task_repository.py:47-73).
THEOREM CopyAgrees ==
    ASSUME Assumptions
    PROVE  Spec => []UndisturbedCopyIsRow
<1>1. AgreementOK => UndisturbedCopyIsRow
  BY DEF AgreementOK, UndisturbedCopyIsRow
<1> QED
  BY <1>1, Calls, PTL

-----------------------------------------------------------------------------
(* Before the task is submitted                                            *)

\* No handler but that of WORKER_FAILED has a call, and that one only scans.
LEMMA NoCallBefore ==
    ASSUME TypeOK, CallsOK, UnsubmittedOK, ~submitted, NEW h \in Handlers, Busy(h)
    PROVE  h = "handle_worker_failed" /\ Current(h).op = "list" /\ step[h] = "get"
<1>1. h = "handle_worker_failed"
  BY DEF UnsubmittedOK, Busy
<1>2. Current(h).op = "list"
  BY <1>1, FirstCall DEF UnsubmittedOK, Busy, Current, CallsOK
<1> QED
  BY <1>1, <1>2 DEF CallsOK, StepOK, TypeOK

LEMMA UnsubmittedStep ==
    ASSUME TypeOK, CallsOK, UnsubmittedOK, [Next]_vars
    PROVE  UnsubmittedOK'
<1> SUFFICES ASSUME ~submitted' PROVE UnsubmittedOK'
  BY DEF UnsubmittedOK
<1> DEFINE f == "handle_worker_failed"
<1>1. CASE UNCHANGED vars
  BY <1>1 DEF UnsubmittedOK, vars, job
<1>2. ASSUME NEW h \in Handlers, Step(h) PROVE UnsubmittedOK'
  <2>1. submitted' = submitted /\ Busy(h)
    BY <1>2 DEF Step, ReadCopy, WriteCopy, WriteRow, ListAssigned, job
  <2>2. h = f /\ Current(h).op = "list" /\ step[h] = "get"
    BY <2>1, NoCallBefore
  <2>3. ListAssigned(h)
    BY <1>2, <2>2 DEF Step, ReadCopy, WriteCopy, WriteRow
  <2>4. row = NoTask
    BY <2>1 DEF UnsubmittedOK
  <2>5. calls' = [calls EXCEPT ![f] = Tail(@)]
    BY <2>2, <2>3, <2>4 DEF ListAssigned
  <2>6. /\ \A g \in Handlers \ {f} : calls'[g] = calls[g]
        /\ calls'[f] = Tail(calls[f])
    BY <2>5, <2>2 DEF CallsOK
  <2>7. \A i \in 1..Len(calls'[f]) : calls'[f][i].op = "list"
    BY <2>1, <2>2, <2>6, FirstCall DEF UnsubmittedOK, CallsOK, Busy
  <2>8. UNCHANGED <<row, failures, waiting, running>>
    BY <2>3 DEF ListAssigned, job
  <2> QED BY <2>1, <2>6, <2>7, <2>8 DEF UnsubmittedOK
<1>3. CASE Submit
  BY <1>3 DEF Submit
<1>4. CASE StoreReady \/ Evict
  BY <1>4 DEF UnsubmittedOK, StoreReady, Evict, job
<1>5. ASSUME NEW w \in Workers, Assign(w) \/ Complete(w) \/ Fail(w) PROVE FALSE
  BY <1>5 DEF UnsubmittedOK, Assign, Complete, Fail
<1>6. ASSUME NEW w \in Workers, LoseWorker(w) PROVE UnsubmittedOK'
  <2>1. f \in Handlers /\ calls[f] \in Seq(Call) /\ Listing(w) \in Call
        /\ Listing(w).op = "list"
    BY CallsTyped DEF CallsOK, Handlers
  <2>2. /\ \A g \in Handlers \ {f} : calls'[g] = calls[g]
        /\ calls'[f] = Append(calls[f], Listing(w))
    BY <1>6, <2>1 DEF LoseWorker, CallsOK
  <2>3. \A i \in 1..Len(calls'[f]) : i = Len(calls[f]) + 1 \/ i \in 1..Len(calls[f])
    BY <2>1, <2>2, AppendProperties, LenProperties
  <2>4. \A i \in 1..Len(calls'[f]) : calls'[f][i].op = "list"
    BY <1>6, <2>1, <2>2, <2>3, AppendProperties DEF UnsubmittedOK, LoseWorker
  <2>5. running' = [v \in Workers |-> 0]
    BY <1>6 DEF UnsubmittedOK, LoseWorker
  <2> QED BY <1>6, <2>2, <2>4, <2>5 DEF UnsubmittedOK, LoseWorker
<1> QED
  BY <1>1, <1>2, <1>3, <1>4, <1>5, <1>6 DEF Next

-----------------------------------------------------------------------------
(* The count of failures                                                   *)

\* Taking the first call and adding a pair keep the order of the calls.
LEMMA AlternatesTail ==
    ASSUME NEW q \in Seq(Call), q # <<>>, Alternates(q)
    PROVE  /\ Alternates(Tail(q))
           /\ Head(q).op = "increment" <=> Len(q) % 2 = 0
<1>1. /\ Len(q) \in Nat /\ Len(q) >= 1 /\ Len(Tail(q)) = Len(q) - 1 /\ Head(q) = q[1]
      /\ \A i \in 1..Len(Tail(q)) : Tail(q)[i] = q[i + 1]
  BY FirstCall
<1>2. ASSUME NEW i \in 1..Len(Tail(q))
      PROVE  Tail(q)[i].op = "increment" <=> (Len(Tail(q)) - i) % 2 = 1
  <2>1. i + 1 \in 1..Len(q) /\ Len(q) - (i + 1) = Len(Tail(q)) - i
    BY <1>1
  <2> QED BY <1>1, <2>1 DEF Alternates
<1>3. Head(q).op = "increment" <=> (Len(q) - 1) % 2 = 1
  BY <1>1 DEF Alternates
<1>4. (Len(q) - 1) % 2 = 1 <=> Len(q) % 2 = 0
  BY <1>1
<1> QED
  BY <1>2, <1>3, <1>4 DEF Alternates

LEMMA AlternatesPair ==
    ASSUME NEW q \in Seq(Call), Alternates(q), NEW p \in Seq(Call), Len(p) = 2,
           p[1].op = "increment", p[2].op = "update"
    PROVE  Alternates(q \o p) /\ Len(q \o p) = Len(q) + 2
<1>1. /\ Len(q) \in Nat /\ Len(q \o p) = Len(q) + 2
      /\ \A i \in 1..Len(q) : (q \o p)[i] = q[i]
      /\ (q \o p)[Len(q) + 1] = p[1] /\ (q \o p)[Len(q) + 2] = p[2]
  BY AddedCalls, SMTT(30)
<1>2. ASSUME NEW i \in 1..Len(q) + 2
      PROVE  (q \o p)[i].op = "increment" <=> (Len(q) + 2 - i) % 2 = 1
  <2>1. CASE i \in 1..Len(q)
    <3>1. (Len(q) + 2 - i) % 2 = (Len(q) - i) % 2
      BY <1>1, <2>1
    <3> QED BY <1>1, <2>1, <3>1 DEF Alternates
  <2>2. CASE i = Len(q) + 1
    <3>1. Len(q) + 2 - i = 1
      BY <1>1, <2>2
    <3> QED BY <1>1, <2>2, <3>1
  <2>3. CASE i = Len(q) + 2
    <3>1. Len(q) + 2 - i = 0
      BY <1>1, <2>3
    <3> QED BY <1>1, <2>3, <3>1
  <2> QED BY <1>1, <2>1, <2>2, <2>3
<1> QED
  BY <1>1, <1>2 DEF Alternates

\* What does not touch the row, nor the calls that save it or count its failures,
\* keeps the count.
LEMMA CountKept ==
    ASSUME TypeOK, CountOK,
           calls'["persist_task"] = calls["persist_task"], Failing' = Failing,
           row' = row, failures' = failures, online => online',
           ~late' => ~late, faults' = 0 => faults = 0
    PROVE  CountOK'
BY DEF CountOK, Busy

\* Half of the waiting calls of failures, rounded down, are increments.
LEMMA CountArithmetic ==
    ASSUME NEW n \in Nat, n >= 1, NEW f \in Nat, NEW r \in Nat, 2 * (f - r) = n - (n % 2)
    PROVE  /\ n % 2 = 0 => 2 * (f - (r + 1)) = (n - 1) - ((n - 1) % 2)
           /\ n % 2 # 0 => 2 * (f - r) = (n - 1) - ((n - 1) % 2)
<1>1. n % 2 = 0 => (n - 1) % 2 = 1
  OBVIOUS
<1>2. n % 2 # 0 => n % 2 = 1 /\ (n - 1) % 2 = 0
  OBVIOUS
<1> QED
  BY <1>1, <1>2

LEMMA CountOfWrite ==
    ASSUME Assumptions, TypeOK, CallsOK, UnsubmittedOK, CountOK,
           NEW h \in Handlers, WriteRow(h)
    PROVE  CountOK'
<1> DEFINE p == "persist_task" f == "handle_task_failed"
<1> USE DEF Failing
<1>1. /\ Busy(h) /\ step[h] = "row"
      /\ calls' = [calls EXCEPT ![h] = Tail(@)]
      /\ row' = row \/ (online /\ Writes(h) /\ row' = ChangedRow(h))
      /\ faults' = 0 =>
            faults = 0 /\ row' = IF online /\ Writes(h) THEN ChangedRow(h) ELSE row
      /\ UNCHANGED <<online, failures, late>>
  BY DEF WriteRow, Fault, Works, TypeOK
<1>2. /\ Current(h) \in Call /\ Current(h).op # "list" /\ Current(h) = calls[h][1]
      /\ Len(calls[h]) \in Nat /\ Len(calls[h]) >= 1
      /\ Tail(calls[h]) \in Seq(Call) /\ Len(Tail(calls[h])) = Len(calls[h]) - 1
  BY <1>1, FirstCall DEF CallsOK, StepOK, Busy, Current
<1>3. /\ Current(h).op = "save" <=> h = p
      /\ Current(h).op = "increment" => h = f
  BY <1>2 DEF CallsOK, OpsOK
<1>4. /\ calls'[h] = Tail(calls[h])
      /\ \A g \in Handlers \ {h} : calls'[g] = calls[g]
  BY <1>1 DEF CallsOK
<1>5. p \in Handlers /\ f \in Handlers /\ p # f
  BY DEF Handlers
<1>6. ChangedRow(h) = Changed(Current(h), row) /\ (Writes(h) /\ h # p => row \in Record)
  BY <1>3 DEF ChangedRow, Writes, TypeOK
<1>7. CASE h = p
  <2>1. row = NoTask /\ Len(calls[p]) = 1 /\ Failing' = Failing
    <3>1. row = NoTask /\ Len(calls[p]) <= 1
      BY <1>1, <1>7 DEF CountOK
    <3>2. Failing' = Failing
      BY <1>4, <1>5, <1>7
    <3>3. Len(calls[p]) \in Nat /\ Len(calls[p]) >= 1
      BY <1>2, <1>7, Zenon
    <3>4. \A n \in Nat : n >= 1 /\ n <= 1 => n = 1
      OBVIOUS
    <3>5. Len(calls[p]) = 1
      BY <3>1, <3>3, <3>4, Zenon
    <3> QED BY <3>1, <3>2, <3>5
  <2>2. calls'[p] = <<>>
    <3>1. Len(Tail(calls[h])) = 0
      BY <1>2, <1>7, <2>1
    <3>2. Tail(calls[h]) = <<>>
      BY <1>2, <3>1, EmptySeq
    <3> QED BY <1>4, <1>7, <3>2
  <2>3. ~Busy(p)' /\ Len(calls'[p]) <= 1
    BY <2>2 DEF Busy
  <2>4. row' # NoTask => online' /\ row'.retries = 0
    BY <1>1, <1>2, <1>3, <1>6, <1>7, <2>1, ChangedRecord
  <2>5. ~late => failures = 0 /\ Failing = <<>>
    BY <1>1, <1>7 DEF CountOK
  <2>6. row' # NoTask /\ ~late' =>
           2 * (failures' - row'.retries) = Len(Failing') - (Len(Failing') % 2)
    <3>1. ~late' => failures' = 0 /\ Len(Failing') = 0
      BY <1>1, <2>1, <2>5
    <3>2. 0 % 2 = 0
      OBVIOUS
    <3> HIDE DEF Failing
    <3> QED BY <3>1, <3>2, <2>4
  <2> QED BY <2>1, <2>3, <2>4, <2>6 DEF CountOK
<1>8. CASE h # p
  <2>1. calls'[p] = calls[p]
    BY <1>4, <1>5, <1>8
  <2>2. row' # NoTask => row # NoTask
    BY <1>1, <1>3, <1>8 DEF Writes
  <2>3. row # NoTask => Writes(h) /\ row \in Record
    BY DEF Writes, TypeOK
  <2>4. CASE h = f
    <3>0. Len(Failing) >= 1
      BY <1>2, <2>4
    <3>1. Alternates(Failing') /\ Len(Failing) \in Nat /\ Len(Failing') = Len(Failing) - 1
      BY <1>1, <1>2, <1>4, <2>4, AlternatesTail DEF CountOK, CallsOK, Busy
    <3>2. Current(h).op = "increment" <=> Len(Failing) % 2 = 0
      BY <1>1, <2>4, AlternatesTail DEF CountOK, CallsOK, Busy, Current
    <3>3. row' # NoTask /\ faults' = 0 /\ ~late' =>
             2 * (failures' - row'.retries) = Len(Failing') - (Len(Failing') % 2)
      <4> SUFFICES ASSUME row' # NoTask, faults' = 0, ~late'
                   PROVE  2 * (failures' - row'.retries)
                             = Len(Failing') - (Len(Failing') % 2)
        OBVIOUS
      <4>1. /\ row \in Record /\ row' = Changed(Current(h), row)
            /\ 2 * (failures - row.retries) = Len(Failing) - (Len(Failing) % 2)
        BY <1>1, <1>6, <2>2, <2>3 DEF CountOK
      <4>2. row.retries \in Nat /\ failures \in Nat /\ failures' = failures
        BY <4>1, <1>1 DEF Record, TypeOK
      <4>3. CASE Current(h).op = "increment"
        <5>1. row'.retries = row.retries + 1
          BY <4>1, <4>3, <1>2, ChangedRecord
        <5> HIDE DEF Failing
        <5>2. Len(Failing) % 2 = 0
          BY <3>2, <4>3
        <5>3. 2 * (failures - (row.retries + 1))
                 = (Len(Failing) - 1) - ((Len(Failing) - 1) % 2)
          BY <3>0, <3>1, <4>1, <4>2, <5>2, CountArithmetic
        <5> QED BY <3>1, <4>2, <5>1, <5>3
      <4>4. CASE Current(h).op # "increment"
        <5>1. row'.retries = row.retries
          BY <4>1, <4>4, <1>2, <1>3, <1>8, CallFields, ChangedRecord
        <5> HIDE DEF Failing
        <5>2. Len(Failing) % 2 # 0
          BY <3>2, <4>4
        <5>3. 2 * (failures - row.retries) = (Len(Failing) - 1) - ((Len(Failing) - 1) % 2)
          BY <3>0, <3>1, <4>1, <4>2, <5>2, CountArithmetic
        <5> QED BY <3>1, <4>2, <5>1, <5>3
      <4> QED BY <4>3, <4>4
    <3>4. ~late => ~Busy(p)
      BY <1>1, <2>4 DEF CountOK, Busy
    <3> QED BY <1>1, <2>1, <2>2, <3>1, <3>3, <3>4 DEF CountOK, Busy
  <2>5. CASE h # f
    <3>1. Failing' = Failing
      BY <1>4, <1>5, <2>5
    <3>2. row' # NoTask => row'.retries = row.retries
      BY <1>1, <1>2, <1>3, <1>6, <1>8, <2>2, <2>3, <2>5, CallFields, ChangedRecord
    <3> QED BY <1>1, <2>1, <2>2, <3>1, <3>2 DEF CountOK, Busy
  <2> QED BY <2>4, <2>5
<1> QED
  BY <1>7, <1>8

\* A step that changes neither the failures nor the row.
LEMMA CountOfOtherSteps ==
    ASSUME Assumptions, TypeOK, CallsOK, CountOK, NEW h \in Handlers,
           ReadCopy(h) \/ WriteCopy(h) \/ ListAssigned(h)
    PROVE  CountOK'
<1>1. UNCHANGED <<row, failures, online, late>> /\ (faults' = 0 => faults = 0)
  BY DEF ReadCopy, WriteCopy, ListAssigned, Fault, Works, job, TypeOK
<1>2. "persist_task" \in Handlers /\ "handle_task_failed" \in Handlers
  BY DEF Handlers
<1>3. /\ calls'["persist_task"] = calls["persist_task"]
      /\ calls'["handle_task_failed"] = calls["handle_task_failed"]
  <2>1. CASE ReadCopy(h) \/ WriteCopy(h)
    BY <2>1 DEF ReadCopy, WriteCopy
  <2>2. CASE ListAssigned(h)
    <3>1. /\ calls[h] \in Seq(Call) /\ calls[h] # <<>>
          /\ Head(calls[h]).op = "list"
      BY <2>2 DEF ListAssigned, CallsOK, Busy, Current
    <3>2. calls[h][1].op = "list" /\ 1 \in 1..Len(calls[h])
      BY <3>1, FirstCall
    <3>3. h = "handle_worker_failed"
      BY <3>2 DEF CallsOK, OpsOK
    <3> QED BY <2>2, <3>3, <1>2 DEF ListAssigned, CallsOK
  <2> QED BY <2>1, <2>2
<1> QED
  BY <1>1, <1>3, CountKept DEF Failing

\* The task begins without a row.
LEMMA CountOfSubmit ==
    ASSUME TypeOK, CallsOK, UnsubmittedOK, CountOK, Submit
    PROVE  CountOK'
<1>1. /\ row' = NoTask /\ failures' = 0 /\ calls["persist_task"] = <<>>
      /\ calls["handle_task_failed"] = <<>>
      /\ calls' = [calls EXCEPT !["persist_task"] = Append(@, Saving)]
  BY DEF Submit, UnsubmittedOK, Handlers
<1>2. /\ calls'["persist_task"] = Append(<<>>, Saving)
      /\ calls'["handle_task_failed"] = <<>>
  BY <1>1 DEF CallsOK, Handlers
<1>3. Len(Append(<<>>, Saving)) <= 1
  BY EmptySeq, AppendProperties, CallsTyped
<1> QED
  BY <1>1, <1>2, <1>3, EmptySeq DEF CountOK, Alternates, Failing

\* A failure that does not overtake the record of the task finds it saved.
LEMMA CountOfFailure ==
    ASSUME TypeOK, CallsOK, UnsubmittedOK, CountOK, NEW w \in Workers, Fail(w)
    PROVE  CountOK'
<1> DEFINE f == "handle_task_failed" p == RetryCalls(failures')
<1>1. /\ calls' = [calls EXCEPT ![f] = @ \o p] /\ failures' = failures + 1
      /\ UNCHANGED <<online, row, faults>>
  BY DEF Fail
<1>2. ~late' => ~late /\ ~Busy("persist_task")
  BY Zenon DEF Fail, Overtakes
<1>3. /\ "persist_task" \in Handlers /\ f \in Handlers
      /\ calls'["persist_task"] = calls["persist_task"]
      /\ calls'[f] = calls[f] \o p /\ calls[f] \in Seq(Call)
  BY <1>1 DEF CallsOK, Handlers
<1>4. /\ Alternates(calls[f] \o p) /\ Len(calls[f] \o p) = Len(calls[f]) + 2
      /\ Len(calls[f]) \in Nat
  BY <1>3, RetryCallsTyped, AlternatesPair, LenProperties DEF CountOK, Failing
<1>5. row' # NoTask /\ faults' = 0 /\ ~late' =>
         2 * (failures' - row'.retries) = Len(calls'[f]) - (Len(calls'[f]) % 2)
  <2> SUFFICES ASSUME row' # NoTask, faults' = 0, ~late'
               PROVE  2 * (failures' - row'.retries)
                         = Len(calls'[f]) - (Len(calls'[f]) % 2)
    OBVIOUS
  <2>1. 2 * (failures - row.retries) = Len(calls[f]) - (Len(calls[f]) % 2)
    BY <1>1, <1>2 DEF CountOK, Failing
  <2>2. row'.retries = row.retries /\ row.retries \in Nat /\ failures \in Nat
    BY <1>1 DEF TypeOK, Record
  <2>3. \A n \in Nat : (n + 2) % 2 = n % 2
    OBVIOUS
  <2>4. Len(calls'[f]) = Len(calls[f]) + 2 /\ Len(calls'[f]) % 2 = Len(calls[f]) % 2
    BY <1>3, <1>4, <2>3, Zenon
  <2>5. \A k, r, n \in Nat :
           2 * (k - r) = n - (n % 2) => 2 * ((k + 1) - r) = (n + 2) - (n % 2)
    OBVIOUS
  <2>6. 2 * ((failures + 1) - row.retries) = (Len(calls[f]) + 2) - (Len(calls[f]) % 2)
    BY <1>4, <2>1, <2>2, <2>5, ZenonT(40)
  <2> QED BY <1>1, <2>2, <2>4, <2>6
<1> QED
  BY <1>1, <1>2, <1>3, <1>4, <1>5 DEF CountOK, Busy, Failing

\* The other events concern neither the failures nor the row.
LEMMA CountOfOtherEvents ==
    ASSUME Assumptions, TypeOK, CallsOK, CountOK,
           \/ StoreReady \/ Evict \/ UNCHANGED vars
           \/ \E w \in Workers : Assign(w) \/ Complete(w) \/ LoseWorker(w)
    PROVE  CountOK'
<1>1. /\ UNCHANGED <<row, failures>> /\ (online => online')
      /\ faults' = 0 => faults = 0
  BY DEF StoreReady, Evict, Assign, Complete, LoseWorker, Fault, TypeOK, vars, job, history
<1>2. ~late' => ~late
  BY Zenon DEF StoreReady, Evict, Assign, Complete, LoseWorker, vars, history
<1>3. /\ calls'["persist_task"] = calls["persist_task"]
      /\ calls'["handle_task_failed"] = calls["handle_task_failed"]
  BY DEF StoreReady, Evict, Assign, Complete, LoseWorker, vars, CallsOK, Handlers
<1> QED
  BY <1>1, <1>2, <1>3, CountKept DEF Failing

LEMMA CountStep ==
    ASSUME Assumptions, TypeOK, CallsOK, UnsubmittedOK, CountOK, [Next]_vars
    PROVE  CountOK'
<1>1. ASSUME NEW h \in Handlers, Step(h) PROVE CountOK'
  BY <1>1, CountOfWrite, CountOfOtherSteps DEF Step
<1>2. ASSUME NEW w \in Workers, Assign(w) \/ Complete(w) \/ Fail(w) \/ LoseWorker(w)
      PROVE  CountOK'
  BY <1>2, CountOfFailure, CountOfOtherEvents
<1> QED
  BY <1>1, <1>2, CountOfSubmit, CountOfOtherEvents DEF Next

LEMMA InitialCount ==
    ASSUME Assumptions, Init
    PROVE  UnsubmittedOK /\ CountOK
<1>1. \A h \in Handlers : calls[h] = <<>>
  BY DEF Init
<1>2. /\ "persist_task" \in Handlers /\ "handle_task_failed" \in Handlers
      /\ "handle_worker_failed" \in Handlers
  BY DEF Handlers
<1>3. UnsubmittedOK
  BY <1>1, <1>2, EmptySeq DEF Init, UnsubmittedOK
<1>4. CountOK
  BY <1>1, <1>2, EmptySeq DEF Init, CountOK, Alternates, Failing, Busy
<1> QED
  BY <1>3, <1>4

LEMMA Invariance ==
    ASSUME Assumptions
    PROVE  Spec => []IInv
<1>1. Init => IInv
  BY InitialCalls, InitialCount DEF IInv
<1>2. IInv /\ [Next]_vars => IInv'
  BY NextCalls, UnsubmittedStep, CountStep DEF IInv
<1> QED
  BY <1>1, <1>2, PTL DEF Spec

\* The row counts every failure of the task, although its increments run among the
\* calls of four other handlers: the increment is made inside a session, on the row
\* and not on the copy (task_repository.py:88-91).
THEOREM RowCountsFailures ==
    ASSUME Assumptions
    PROVE  Spec => []FailuresCounted
<1>1. IInv => FailuresCounted
  <2> SUFFICES ASSUME IInv, row # NoTask, faults = 0, ~late, ~Busy("handle_task_failed")
               PROVE  row.retries = failures
    BY DEF FailuresCounted
  <2>1. Failing = <<>> /\ Len(<<>>) = 0
    BY EmptySeq DEF Busy, Failing
  <2>2. 2 * (failures - row.retries) = 0 - (0 % 2)
    BY <2>1 DEF IInv, CountOK
  <2>3. row.retries \in Nat /\ failures \in Nat
    BY DEF IInv, TypeOK, Record
  <2>4. 0 % 2 = 0
    OBVIOUS
  <2> QED BY <2>2, <2>3, <2>4
<1> QED
  BY <1>1, Invariance, PTL

-----------------------------------------------------------------------------
(* What is shown of a finished task: the invariant                         *)

\* No outcome was early, no worker was reported failed, and nothing failed.
Calm == ~late /\ failovers = 0 /\ faults = 0

\* Once the task is finished and every call of the five handlers has returned, a client
\* is shown the outcome, and the row agrees (task_repository.py:48-73).
FinishedIsFinal ==
    (Calm /\ Finished /\ \A h \in Handlers : ~Busy(h)) =>
        Shown \in Final /\ (row # NoTask => row.status = Shown)

\* Where the task is.  Its handlers may lag behind while it waits or runs, but those
\* that record an outcome have no call then.
NoneRuns == \A w \in Workers : running[w] = 0
Undecided ==
    /\ submitted /\ ~completed /\ failures <= MaxRetries
    /\ ~Busy("persist_task_completed") /\ ~Busy("handle_task_failed")

Queued  == Undecided /\ waiting = 1 /\ NoneRuns
Running == Undecided /\ waiting = 0 /\ \E w \in Workers :
               running[w] = 1 /\ \A v \in Workers \ {w} : running[v] = 0

\* Only h has calls, of which the last writes st.
LastCall(st) == Updating(st, NoWorker)
Ending(h, st) ==
    /\ submitted /\ waiting = 0 /\ NoneRuns
    /\ \A g \in Handlers \ {h} : ~Busy(g)
    /\ calls[h] \in {<<Incrementing, LastCall(st)>>, <<LastCall(st)>>, <<>>}
    /\ calls[h] = <<LastCall(st)>> /\ step[h] = "row" => copy.status = st
    /\ calls[h] = <<>> => copy.status = st /\ (row # NoTask => row.status = st)

Retrying  == /\ ~completed /\ failures <= MaxRetries /\ Busy("handle_task_failed")
             /\ Ending("handle_task_failed", "RETRYING")
Completed == /\ completed /\ failures <= MaxRetries
             /\ Ending("persist_task_completed", "COMPLETED")
Buried    == /\ ~completed /\ failures > MaxRetries
             /\ Ending("handle_task_failed", "DLQ")

\* The copy is there from the moment persist_task has written it.
CopyThere ==
    submitted => copy # NoTask \/ (Busy("persist_task") /\ step["persist_task"] = "get")

\* persist_task_assigned records nothing else.
AssignsOnly ==
    LET A == calls["persist_task_assigned"]
    IN  \A i \in 1..Len(A) : A[i].op = "update" /\ A[i].status = "ASSIGNED"

FateOK ==
    Calm =>
        /\ ~Busy("handle_worker_failed") /\ CopyThere /\ AssignsOnly
        /\ IF submitted THEN Queued \/ Running \/ Retrying \/ Completed \/ Buried
                        ELSE ~completed

-----------------------------------------------------------------------------
(* What is shown of a finished task: the steps                             *)

\* What a call of the repository writes.
LEMMA LastFields ==
    ASSUME NEW st \in Status
    PROVE  /\ LastCall(st).op = "update" /\ LastCall(st).status = st
           /\ Incrementing.op = "increment"
           /\ \A t \in Record : Changed(LastCall(st), t).status = st
           /\ <<Incrementing, LastCall(st)>> # <<>> /\ <<LastCall(st)>> # <<>>
           /\ <<Incrementing, LastCall(st)>> # <<LastCall(st)>>
           /\ Head(<<Incrementing, LastCall(st)>>) = Incrementing
           /\ Head(<<LastCall(st)>>) = LastCall(st)
           /\ Tail(<<Incrementing, LastCall(st)>>) = <<LastCall(st)>>
           /\ Tail(<<LastCall(st)>>) = <<>>
<1>1. LastCall(st).op = "update" /\ LastCall(st).status = st /\ Incrementing.op = "increment"
  BY DEF LastCall, Updating, Incrementing
<1>2. ASSUME NEW t \in Record PROVE Changed(LastCall(st), t).status = st
  BY <1>1 DEF Changed, Record
<1>3. /\ Len(<<Incrementing, LastCall(st)>>) = 2 /\ Len(<<LastCall(st)>>) = 1 /\ Len(<<>>) = 0
      /\ Head(<<Incrementing, LastCall(st)>>) = Incrementing
      /\ Head(<<LastCall(st)>>) = LastCall(st)
      /\ Tail(<<Incrementing, LastCall(st)>>) = <<LastCall(st)>>
      /\ Tail(<<LastCall(st)>>) = <<>>
  OBVIOUS
<1> QED
  BY <1>1, <1>2, <1>3

\* In a calm state nothing of a step fails.
LEMMA CalmRead ==
    ASSUME IInv, NEW h \in Handlers, ReadCopy(h), Calm'
    PROVE  /\ Calm /\ Busy(h) /\ step[h] = "get" /\ Current(h).op \in {"update", "increment"}
           /\ held'[h] = copy
           /\ step' = [step EXCEPT ![h] = IF copy = NoTask THEN "row" ELSE "set"]
           /\ UNCHANGED <<copy, row, calls, failures, submitted, waiting, running, completed>>
<1>1. faults' = faults
  BY DEF ReadCopy, Works, Fault, Calm, IInv, TypeOK
<1>2. held' = [held EXCEPT ![h] = copy]
  BY <1>1 DEF ReadCopy, Fault, IInv, TypeOK
<1>3. held'[h] = copy
  BY <1>2 DEF IInv, TypeOK
<1> QED
  BY <1>1, <1>3 DEF ReadCopy, Calm, job

LEMMA CalmWrite ==
    ASSUME IInv, NEW h \in Handlers, WriteCopy(h), Calm'
    PROVE  /\ Calm /\ Busy(h)
           /\ step[h] = "set" \/ (step[h] = "get" /\ Current(h).op = "save")
           /\ copy' = Changed(Current(h), held[h])
           /\ step' = [step EXCEPT ![h] = "row"]
           /\ UNCHANGED <<row, calls, failures, submitted, waiting, running, completed>>
<1>1. faults' = faults
  BY DEF WriteCopy, Works, Fault, Calm, IInv, TypeOK
<1>2. copy' = Changed(Current(h), held[h])
  BY <1>1 DEF WriteCopy, Fault, IInv, TypeOK
<1> QED
  BY <1>1, <1>2 DEF WriteCopy, Calm, job

LEMMA CalmRow ==
    ASSUME IInv, NEW h \in Handlers, WriteRow(h), Calm'
    PROVE  /\ Calm /\ Busy(h) /\ step[h] = "row"
           /\ row' = IF online /\ Writes(h) THEN ChangedRow(h) ELSE row
           /\ calls' = [calls EXCEPT ![h] = Tail(@)]
           /\ step' = [step EXCEPT ![h] = "get"]
           /\ waiting' = IF Requeues(Current(h)) THEN waiting + 1 ELSE waiting
           /\ UNCHANGED <<copy, failures, submitted, running, completed>>
<1>1. faults' = faults
  BY DEF WriteRow, Works, Fault, Calm, IInv, TypeOK
<1>2. row' = IF online /\ Writes(h) THEN ChangedRow(h) ELSE row
  BY <1>1 DEF WriteRow, Fault, IInv, TypeOK
<1> QED
  BY <1>1, <1>2 DEF WriteRow, Calm

\* A step of a call that leaves the calls as they are, and the copy there.
LEMMA FateOfCopy ==
    ASSUME Assumptions, IInv, FateOK, Calm, NEW h \in Handlers, Busy(h),
           copy' = copy \/ copy' \in Record,
           step' \in [Handlers -> {"get", "set", "row"}],
           \A g \in Handlers \ {h} : step'[g] = step[g],
           h = "persist_task" /\ step[h] = "get" => copy' \in Record \/ step'[h] = "get",
           \A st \in Status : calls[h] = <<LastCall(st)>> /\ step'[h] = "row" /\ copy # NoTask
                                 => copy'.status = st,
           UNCHANGED <<row, calls, failures, submitted, waiting, running, completed>>
    PROVE  FateOK'
<1>1. \A g \in Handlers : Busy(g)' = Busy(g)
  BY DEF Busy
<1>2. CopyThere'
  BY <1>1 DEF CopyThere, FateOK, Assumptions, Handlers
<1>3. AssignsOnly'
  BY DEF AssignsOnly, FateOK
<1>4. ASSUME NEW g \in {"persist_task_completed", "handle_task_failed"}, NEW st \in Status,
             Ending(g, st)
      PROVE  Ending(g, st)'
  <2>1. h = g
    BY <1>4 DEF Ending, Handlers
  <2>2. calls[g] # <<>>
    BY <2>1 DEF Busy
  <2>3. copy # NoTask
    BY <1>4, <2>1 DEF FateOK, CopyThere, Ending, Handlers
  <2> QED
    BY <1>1, <1>4, <2>1, <2>2, <2>3 DEF Ending, NoneRuns, LastCall, Updating
<1>5. Undecided' = Undecided
  BY <1>1 DEF Undecided, Handlers
<1>6. Queued => Queued'
  BY <1>5 DEF Queued, NoneRuns
<1>7. Running => Running'
  BY <1>5 DEF Running
<1>8. /\ Retrying => Retrying'
      /\ Completed => Completed'
      /\ Buried => Buried'
  BY <1>1, <1>4 DEF Retrying, Completed, Buried, Status, Handlers
<1> QED
  BY <1>1, <1>2, <1>3, <1>6, <1>7, <1>8 DEF FateOK, Handlers

LEMMA FateOfRead ==
    ASSUME Assumptions, IInv, FateOK, NEW h \in Handlers, ReadCopy(h), Calm'
    PROVE  FateOK'
<1>1. /\ h # "persist_task"
      /\ Current(h) = calls[h][1] /\ calls[h] \in Seq(Call) /\ Len(calls[h]) >= 1
  <2>1. Current(h) = calls[h][1] /\ calls[h] \in Seq(Call) /\ Len(calls[h]) >= 1
    BY CalmRead, FirstCall DEF IInv, CallsOK, Busy, Current
  <2>2. calls[h][1].op # "save"
    BY <2>1, CalmRead
  <2> QED
    BY <2>1, <2>2 DEF IInv, CallsOK, OpsOK
<1>2. /\ step' \in [Handlers -> {"get", "set", "row"}]
      /\ \A g \in Handlers \ {h} : step'[g] = step[g]
      /\ step'[h] = "row" => copy = NoTask
  BY CalmRead DEF IInv, TypeOK
<1> QED
  BY <1>1, <1>2, CalmRead, FateOfCopy

LEMMA FateOfWrite ==
    ASSUME Assumptions, IInv, FateOK, NEW h \in Handlers, WriteCopy(h), Calm'
    PROVE  FateOK'
<1>1. Current(h) \in Call /\ Current(h).op # "list"
  BY CalmWrite, FirstCall DEF IInv, CallsOK, StepOK, Busy, Current
<1>2. Current(h).op # "save" => held[h] \in Record
  BY CalmWrite DEF IInv, CallsOK, StepOK, TypeOK
<1>3. copy' \in Record
  BY <1>1, <1>2, CalmWrite, ChangedRecord
<1>4. ASSUME NEW st \in Status, calls[h] = <<LastCall(st)>> PROVE copy'.status = st
  <2>1. Head(<<LastCall(st)>>) = LastCall(st) /\ LastCall(st).op = "update"
    BY LastFields
  <2>2. Current(h) = LastCall(st)
    BY <1>4, <2>1 DEF Current
  <2>3. copy' = Changed(LastCall(st), held[h]) /\ held[h] \in Record
    BY <1>2, <2>1, <2>2, CalmWrite
  <2> QED
    BY <2>3, LastFields
<1>5. /\ step' \in [Handlers -> {"get", "set", "row"}]
      /\ \A g \in Handlers \ {h} : step'[g] = step[g]
  BY CalmWrite DEF IInv, TypeOK
<1> QED
  BY <1>3, <1>4, <1>5, CalmWrite, FateOfCopy

\* A session ends a call.  The last call of a failure that is retried queues the task.
LEMMA EndingRow ==
    ASSUME Assumptions, IInv, FateOK, NEW st \in Status,
           NEW h \in {"persist_task_completed", "handle_task_failed"},
           Ending(h, st), WriteRow(h), Calm'
    PROVE  \/ /\ calls[h] = <<Incrementing, LastCall(st)>>
              /\ calls'[h] = <<LastCall(st)>> /\ waiting' = waiting
              /\ Ending(h, st)'
           \/ /\ calls[h] = <<LastCall(st)>> /\ calls'[h] = <<>>
              /\ st \in {"PENDING", "RETRYING"} => waiting' = 1
              /\ st \notin {"PENDING", "RETRYING"} => Ending(h, st)'
<1>1. /\ h \in Handlers /\ calls'[h] = Tail(calls[h]) /\ step'[h] = "get"
      /\ \A g \in Handlers \ {h} : calls'[g] = calls[g]
      /\ calls[h] # <<>>
  BY CalmRow DEF Handlers, IInv, CallsOK, TypeOK, Busy
<1>2. /\ submitted' /\ NoneRuns' /\ waiting = 0
      /\ \A g \in Handlers \ {h} : ~Busy(g)'
  BY <1>1, CalmRow DEF Ending, NoneRuns, Busy
<1>3. CASE calls[h] = <<Incrementing, LastCall(st)>>
  <2>1. calls'[h] = <<LastCall(st)>> /\ <<LastCall(st)>> # <<>> /\ Current(h) = Incrementing
    BY <1>1, <1>3, LastFields DEF Current
  <2>2. ~Requeues(Current(h))
    BY <2>1, LastFields DEF Requeues
  <2>3. waiting' = waiting
    BY <2>2, CalmRow, <1>1
  <2> QED
    BY <1>1, <1>2, <1>3, <2>1, <2>3 DEF Ending
<1>4. CASE calls[h] = <<LastCall(st)>>
  <2>1. calls'[h] = <<>> /\ Current(h) = LastCall(st) /\ <<LastCall(st)>> # <<>>
        /\ <<Incrementing, LastCall(st)>> # <<>>
    BY <1>1, <1>4, LastFields DEF Current
  <2>2. Current(h).op = "update" /\ Current(h).status = st
    BY <2>1, LastFields
  <2>3. waiting' = IF st \in {"PENDING", "RETRYING"} THEN 1 ELSE 0
    <3>1. waiting' = IF Requeues(Current(h)) THEN waiting + 1 ELSE waiting
      BY <1>1, CalmRow
    <3>2. Requeues(Current(h)) <=> st \in {"PENDING", "RETRYING"}
      BY <2>2 DEF Requeues
    <3> QED
      BY <1>2, <3>1, <3>2
  <2>4. copy'.status = st
    BY <1>1, <1>4, CalmRow DEF Ending
  <2>5. row' # NoTask => row'.status = st
    <3>1. Writes(h) <=> row # NoTask
      BY <2>2 DEF Writes
    <3>2. row # NoTask => online /\ row \in Record
      BY DEF IInv, CountOK, TypeOK
    <3>3. row # NoTask => row' = Changed(LastCall(st), row)
      BY <1>1, <2>1, <3>1, <3>2, CalmRow DEF ChangedRow
    <3>4. row = NoTask => row' = NoTask
      BY <1>1, <3>1, CalmRow
    <3> QED
      BY <3>2, <3>3, <3>4, LastFields
  <2>6. st \notin {"PENDING", "RETRYING"} => Ending(h, st)'
    BY <1>2, <2>1, <2>3, <2>4, <2>5 DEF Ending
  <2> QED
    BY <1>4, <2>1, <2>3, <2>6
<1> QED
  BY <1>1, <1>3, <1>4 DEF Ending

LEMMA FateOfRow ==
    ASSUME Assumptions, IInv, FateOK, NEW h \in Handlers, WriteRow(h), Calm'
    PROVE  FateOK'
<1>1. /\ Calm /\ Busy(h) /\ step[h] = "row"
      /\ calls'[h] = Tail(calls[h]) /\ step'[h] = "get"
      /\ \A g \in Handlers \ {h} : calls'[g] = calls[g] /\ step'[g] = step[g]
      /\ calls[h] \in Seq(Call) /\ calls[h] # <<>>
  BY CalmRow DEF IInv, CallsOK, TypeOK, Busy
<1>0. UNCHANGED <<copy, failures, submitted, running, completed>>
  BY CalmRow
<1>2. submitted
  BY <1>1, NoCallBefore DEF IInv
<1>3. ~Busy("handle_worker_failed") /\ ~Busy("handle_worker_failed")'
      /\ h # "handle_worker_failed"
  BY <1>1 DEF FateOK, Busy, Handlers
<1>4. CopyThere'
  <2>1. CASE h = "persist_task"
    <3>1. copy # NoTask
      BY <1>1, <1>2, <2>1 DEF FateOK, CopyThere
    <3> QED
      BY <3>1, CalmRow DEF CopyThere
  <2>2. CASE h # "persist_task"
    <3>1. calls'["persist_task"] = calls["persist_task"]
          /\ step'["persist_task"] = step["persist_task"]
      BY <1>1, <2>2 DEF Handlers
    <3> QED
      BY <1>1, <1>2, <3>1, CalmRow DEF FateOK, CopyThere, Busy
  <2> QED
    BY <2>1, <2>2
<1>5. AssignsOnly'
  <2>1. CASE h = "persist_task_assigned"
    <3> DEFINE A == calls["persist_task_assigned"]
    <3>1. \A k \in 1..Len(A) : A[k].op = "update" /\ A[k].status = "ASSIGNED"
      BY <1>1 DEF FateOK, AssignsOnly
    <3>2. calls'["persist_task_assigned"] = Tail(A) /\ A \in Seq(Call) /\ A # <<>>
      BY <1>1, <2>1
    <3> HIDE DEF A
    <3>3. \A k \in 1..Len(Tail(A)) : Tail(A)[k] = A[k + 1] /\ k + 1 \in 1..Len(A)
      BY <3>2, FirstCall
    <3> QED
      BY <3>1, <3>2, <3>3 DEF AssignsOnly
  <2>2. CASE h # "persist_task_assigned"
    BY <1>1, <2>2 DEF FateOK, AssignsOnly, Handlers
  <2> QED
    BY <2>1, <2>2
<1>6. ASSUME Undecided PROVE Undecided' /\ waiting' = waiting
  <2>1. h \in {"persist_task", "persist_task_assigned"}
    BY <1>1, <1>3, <1>6 DEF Undecided, Handlers
  <2>2. Undecided'
    <3>1. calls'["persist_task_completed"] = calls["persist_task_completed"]
          /\ calls'["handle_task_failed"] = calls["handle_task_failed"]
      BY <1>1, <2>1 DEF Handlers
    <3> QED
      BY <1>0, <1>6, <3>1 DEF Undecided, Busy
  <2>3. Current(h) = calls[h][1] /\ 1 \in 1..Len(calls[h])
    BY <1>1, FirstCall DEF Current
  <2>4. ~Requeues(Current(h))
    <3>1. CASE h = "persist_task"
      <4>1. Current(h).op = "save"
        BY <2>3, <3>1 DEF IInv, CallsOK, OpsOK
      <4> QED
        BY <4>1 DEF Requeues
    <3>2. CASE h = "persist_task_assigned"
      <4>1. Current(h).status = "ASSIGNED"
        BY <1>1, <2>3, <3>2 DEF FateOK, AssignsOnly
      <4> QED
        BY <4>1 DEF Requeues
    <3> QED
      BY <2>1, <3>1, <3>2
  <2> QED
    BY <2>2, <2>4, CalmRow
<1>7. ASSUME Queued PROVE Queued'
  BY <1>6, <1>0, <1>7 DEF Queued, NoneRuns
<1>8. ASSUME Running PROVE Running'
  BY <1>6, <1>0, <1>8 DEF Running
<1>9. ASSUME Retrying PROVE Queued' \/ Retrying'
  <2>1. h = "handle_task_failed" /\ Ending(h, "RETRYING")
    BY <1>1, <1>9 DEF Retrying, Ending
  <2>2. "RETRYING" \in Status /\ <<LastCall("RETRYING")>> # <<>>
    BY LastFields DEF Status
  <2>3. CASE calls'[h] = <<LastCall("RETRYING")>> /\ Ending(h, "RETRYING")'
    BY <1>9, <2>1, <2>2, <1>0, <2>3 DEF Retrying, Busy
  <2>4. CASE calls'[h] = <<>> /\ waiting' = 1
    <3>1. NoneRuns' /\ submitted' /\ ~completed' /\ failures' <= MaxRetries
      BY <1>0, <1>9 DEF Retrying, Ending, NoneRuns
    <3>2. ~Busy("handle_task_failed")'
      BY <2>1, <2>4 DEF Busy
    <3>3. ~Busy("persist_task_completed")'
      BY <1>1, <1>9, <2>1 DEF Retrying, Ending, Busy, Handlers
    <3> QED
      BY <2>4, <3>1, <3>2, <3>3 DEF Queued, Undecided
  <2> QED
    BY <2>1, <2>2, <2>3, <2>4, EndingRow
<1>10. ASSUME Completed PROVE Completed'
  <2>1. h = "persist_task_completed" /\ Ending(h, "COMPLETED")
    BY <1>1, <1>10 DEF Completed, Ending
  <2>2. Ending(h, "COMPLETED")'
    BY <2>1, EndingRow DEF Status
  <2> QED
    BY <1>10, <2>1, <2>2, <1>0 DEF Completed
<1>11. ASSUME Buried PROVE Buried'
  <2>1. h = "handle_task_failed" /\ Ending(h, "DLQ")
    BY <1>1, <1>11 DEF Buried, Ending
  <2>2. Ending(h, "DLQ")'
    BY <2>1, EndingRow DEF Status
  <2> QED
    BY <1>11, <2>1, <2>2, <1>0 DEF Buried
<1>12. submitted' /\ (Queued \/ Running \/ Retrying \/ Completed \/ Buried)'
  BY <1>1, <1>2, <1>7, <1>8, <1>9, <1>10, <1>11, <1>0 DEF FateOK
<1> QED
  BY <1>3, <1>4, <1>5, <1>12 DEF FateOK

-----------------------------------------------------------------------------
(* What is shown of a finished task: the events                            *)

LEMMA FateOfSubmit ==
    ASSUME Assumptions, IInv, FateOK, Submit, Calm'
    PROVE  FateOK'
<1>1. /\ Calm /\ ~submitted /\ submitted' /\ waiting' = 1
      /\ UNCHANGED <<copy, step, failures, running, completed>>
      /\ calls'["persist_task"] = Append(calls["persist_task"], Saving)
      /\ \A g \in Handlers \ {"persist_task"} : calls'[g] = calls[g]
  BY DEF Submit, history, Calm, IInv, CallsOK, Handlers
<1>2. /\ \A g \in Handlers \ {"handle_worker_failed"} : calls[g] = <<>>
      /\ NoneRuns /\ failures = 0 /\ ~completed /\ ~Busy("handle_worker_failed")
  <2>1. UnsubmittedOK /\ ~completed /\ ~Busy("handle_worker_failed")
    BY <1>1 DEF IInv, FateOK
  <2>2. running = [v \in Workers |-> 0] /\ failures = 0
        /\ \A g \in Handlers \ {"handle_worker_failed"} : calls[g] = <<>>
    BY <1>1, <2>1 DEF UnsubmittedOK
  <2> QED
    BY <2>1, <2>2 DEF NoneRuns
<1>3. step["persist_task"] = "get" /\ calls'["persist_task"] # <<>>
  <2>1. step["persist_task"] = "get"
    BY <1>2 DEF IInv, CallsOK, StepOK, Busy, Handlers
  <2>2. calls["persist_task"] \in Seq(Call) /\ Saving \in Call
    BY CallsTyped DEF IInv, CallsOK, Handlers
  <2>3. Append(calls["persist_task"], Saving) # <<>>
    BY <2>2, AppendProperties
  <2> QED
    BY <1>1, <2>1, <2>3
<1>4. CopyThere'
  BY <1>1, <1>3 DEF CopyThere, Busy
<1>5. AssignsOnly'
  BY <1>1 DEF AssignsOnly, FateOK, Handlers
<1>6. Queued'
  BY <1>1, <1>2 DEF Queued, Undecided, NoneRuns, Busy, Handlers, Assumptions
<1>7. ~Busy("handle_worker_failed")'
  BY <1>1, <1>2 DEF Busy, Handlers
<1> QED
  BY <1>1, <1>4, <1>5, <1>6, <1>7 DEF FateOK

LEMMA FateOfAssign ==
    ASSUME Assumptions, IInv, FateOK, NEW w \in Workers, Assign(w), Calm'
    PROVE  FateOK'
<1> DEFINE A == calls["persist_task_assigned"]
           c == Updating("ASSIGNED", w)
<1>1. /\ Calm /\ waiting > 0 /\ waiting' = waiting - 1
      /\ running' = [running EXCEPT ![w] = @ + 1]
      /\ UNCHANGED <<copy, step, failures, submitted, completed>>
      /\ calls'["persist_task_assigned"] = Append(A, c)
      /\ \A g \in Handlers \ {"persist_task_assigned"} : calls'[g] = calls[g]
  BY DEF Assign, history, Calm, IInv, CallsOK, Handlers
<1>2. Queued
  BY <1>1 DEF FateOK, Running, Retrying, Completed, Buried, Ending, IInv, UnsubmittedOK
<1>3. Running'
  <2>1. Undecided'
    BY <1>1, <1>2 DEF Queued, Undecided, Busy, Handlers
  <2>2. waiting' = 0
    BY <1>1, <1>2 DEF Queued
  <2>3. running'[w] = 1 /\ \A v \in Workers \ {w} : running'[v] = 0
    BY <1>1, <1>2 DEF Queued, NoneRuns, IInv, TypeOK
  <2> QED
    BY <2>1, <2>2, <2>3 DEF Running
<1>4. CopyThere'
  BY <1>1 DEF FateOK, CopyThere, Busy, Handlers
<1>5. AssignsOnly'
  <2>1. A \in Seq(Call) /\ c \in Call /\ c.op = "update" /\ c.status = "ASSIGNED"
    BY CallsTyped DEF IInv, CallsOK, Handlers, Status, Updating
  <2> HIDE DEF c
  <2>2. \A i \in 1..Len(A) : A[i].op = "update" /\ A[i].status = "ASSIGNED"
    BY <1>1 DEF FateOK, AssignsOnly
  <2> HIDE DEF A
  <2>3. \A i \in 1..Len(Append(A, c)) :
           Append(A, c)[i].op = "update" /\ Append(A, c)[i].status = "ASSIGNED"
    BY <2>1, <2>2, AppendProperties
  <2> QED
    BY <1>1, <2>3 DEF AssignsOnly
<1>6. ~Busy("handle_worker_failed")' /\ submitted'
  BY <1>1, <1>2 DEF FateOK, Busy, Handlers, Queued, Undecided
<1> QED
  BY <1>3, <1>4, <1>5, <1>6 DEF FateOK

\* The outcome of the task is on time: only the handler that records it has calls.
LEMMA FateOfOutcome ==
    ASSUME Assumptions, IInv, FateOK, NEW w \in Workers, running[w] > 0, Calm, ~Overtakes,
           running' = [running EXCEPT ![w] = @ - 1],
           UNCHANGED <<copy, step, submitted, waiting>>,
           NEW h \in {"persist_task_completed", "handle_task_failed"}, NEW st \in Status,
           calls'[h] \in {calls[h] \o <<Incrementing, LastCall(st)>>,
                          calls[h] \o <<LastCall(st)>>},
           \A g \in Handlers \ {h} : calls'[g] = calls[g]
    PROVE  /\ Ending(h, st)' /\ ~completed /\ failures <= MaxRetries /\ Busy(h)'
           /\ ~Busy("handle_worker_failed")' /\ CopyThere' /\ AssignsOnly' /\ submitted'
<1>1. Running
  <2>1. submitted
    BY DEF IInv, UnsubmittedOK
  <2>2. ~NoneRuns
    BY DEF NoneRuns, IInv, TypeOK
  <2> QED
    BY <2>1, <2>2 DEF FateOK, Queued, Retrying, Completed, Buried, Ending
<1>2. /\ submitted /\ waiting = 0 /\ ~completed /\ failures <= MaxRetries
      /\ ~Busy("persist_task_completed") /\ ~Busy("handle_task_failed")
  BY <1>1 DEF Running, Undecided
<1>3. NoneRuns'
  <2>1. PICK v \in Workers : running[v] = 1 /\ \A u \in Workers \ {v} : running[u] = 0
    BY <1>1 DEF Running
  <2>2. v = w
    BY <2>1 DEF IInv, TypeOK
  <2> QED
    BY <2>1, <2>2 DEF NoneRuns, IInv, TypeOK
<1>4. \A g \in Handlers : ~Busy(g)
  BY <1>2 DEF FateOK, Overtakes, Handlers
<1>5. \A g \in Handlers \ {h} : ~Busy(g)'
  BY <1>4 DEF Busy
<1>6. calls'[h] \in {<<Incrementing, LastCall(st)>>, <<LastCall(st)>>} /\ h \in Handlers
  <2>1. Incrementing \in Call /\ LastCall(st) \in Call /\ h \in Handlers
    BY CallsTyped DEF LastCall, Handlers
  <2>2. calls[h] = <<>>
    BY <1>4, <2>1 DEF Busy
  <2>3. /\ <<>> \o <<Incrementing, LastCall(st)>> = <<Incrementing, LastCall(st)>>
        /\ <<>> \o <<LastCall(st)>> = <<LastCall(st)>>
    BY <2>1, ConcatEmptySeq
  <2> QED
    BY <2>1, <2>2, <2>3
<1>7. step[h] = "get"
  BY <1>4, <1>6 DEF IInv, CallsOK, StepOK
<1>8. calls'[h] # <<>>
  BY <1>6, LastFields
<1>9. Ending(h, st)' /\ Busy(h)'
  BY <1>2, <1>3, <1>5, <1>6, <1>7, <1>8 DEF Ending, Busy
<1>10. CopyThere'
  BY <1>2, <1>4 DEF FateOK, CopyThere, Handlers
<1>11. AssignsOnly'
  BY DEF FateOK, AssignsOnly, Handlers
<1> QED
  BY <1>2, <1>5, <1>9, <1>10, <1>11 DEF Handlers

LEMMA FateOfComplete ==
    ASSUME Assumptions, IInv, FateOK, NEW w \in Workers, Complete(w), Calm'
    PROVE  FateOK'
<1> DEFINE h == "persist_task_completed"
<1>1. Calm /\ ~Overtakes
  BY Zenon DEF Complete, Calm
<1>2. /\ running[w] > 0 /\ running' = [running EXCEPT ![w] = @ - 1] /\ completed'
      /\ UNCHANGED <<copy, step, failures, submitted, waiting>>
      /\ calls'[h] = Append(calls[h], LastCall("COMPLETED"))
      /\ \A g \in Handlers \ {h} : calls'[g] = calls[g]
  BY DEF Complete, LastCall, IInv, CallsOK, Handlers
<1>3. Append(calls[h], LastCall("COMPLETED")) = calls[h] \o <<LastCall("COMPLETED")>>
  <2>1. calls[h] \in Seq(Call) /\ LastCall("COMPLETED") \in Call
    BY CallsTyped, SMTT(30) DEF IInv, CallsOK, Handlers, LastCall, Status
  <2> QED
    BY <2>1, AppendIsConcat
<1>4. /\ Ending(h, "COMPLETED")' /\ failures <= MaxRetries /\ submitted'
      /\ ~Busy("handle_worker_failed")' /\ CopyThere' /\ AssignsOnly'
  BY <1>1, <1>2, <1>3, FateOfOutcome DEF Status
<1>5. Completed'
  BY <1>2, <1>4 DEF Completed
<1> QED
  BY <1>4, <1>5 DEF FateOK

LEMMA FateOfFail ==
    ASSUME Assumptions, IInv, FateOK, NEW w \in Workers, Fail(w), Calm'
    PROVE  FateOK'
<1> DEFINE h == "handle_task_failed"
<1>1. Calm /\ ~Overtakes
  BY Zenon DEF Fail, Calm
<1>2. /\ running[w] > 0 /\ running' = [running EXCEPT ![w] = @ - 1]
      /\ failures' = failures + 1 /\ completed' = completed
      /\ UNCHANGED <<copy, step, submitted, waiting>>
      /\ calls'[h] = calls[h] \o RetryCalls(failures')
      /\ \A g \in Handlers \ {h} : calls'[g] = calls[g]
  BY DEF Fail, IInv, CallsOK, Handlers
<1>3. ASSUME NEW st \in Status, RetryCalls(failures') = <<Incrementing, LastCall(st)>>
      PROVE  /\ Ending(h, st)' /\ ~completed /\ Busy(h)' /\ submitted'
             /\ ~Busy("handle_worker_failed")' /\ CopyThere' /\ AssignsOnly'
  BY <1>1, <1>2, <1>3, FateOfOutcome
<1>4. CASE failures' <= MaxRetries
  <2>1. RetryCalls(failures') = <<Incrementing, LastCall("RETRYING")>> /\ "RETRYING" \in Status
    BY <1>4 DEF RetryCalls, LastCall, Status
  <2>2. Retrying'
    BY <1>2, <1>3, <1>4, <2>1 DEF Retrying
  <2> QED
    BY <1>3, <2>1, <2>2 DEF FateOK
<1>5. CASE ~(failures' <= MaxRetries)
  <2>1. RetryCalls(failures') = <<Incrementing, LastCall("DLQ")>> /\ "DLQ" \in Status
    BY <1>5 DEF RetryCalls, LastCall, Status
  <2>2. failures' > MaxRetries
    BY <1>2, <1>5 DEF IInv, TypeOK, Assumptions
  <2>3. Buried'
    BY <1>2, <1>3, <2>1, <2>2 DEF Buried
  <2> QED
    BY <1>3, <2>1, <2>3 DEF FateOK
<1> QED
  BY <1>4, <1>5

\* Steps that are not calm afterwards, or change nothing that matters.
LEMMA FateOfFaults ==
    ASSUME Assumptions, IInv, Calm'
    PROVE  /\ ~Evict /\ \A w \in Workers : ~LoseWorker(w)
BY DEF IInv, TypeOK, Evict, Fault, LoseWorker, Calm

LEMMA FateKept ==
    ASSUME FateOK,
           UNCHANGED <<copy, row, calls, step, failures, submitted, waiting, running,
                       completed, late, failovers, faults>>
    PROVE  FateOK'
BY DEF FateOK, Calm, CopyThere, AssignsOnly, Queued, Running, Retrying, Completed, Buried,
       Undecided, NoneRuns, Ending, Busy

LEMMA FateStep ==
    ASSUME Assumptions, IInv, FateOK, [Next]_vars
    PROVE  FateOK'
<1> SUFFICES ASSUME Calm' PROVE FateOK'
  BY DEF FateOK
<1>1. ASSUME NEW h \in Handlers, Step(h) PROVE FateOK'
  <2>1. CASE ListAssigned(h)
    <3>1. Calm
      BY <2>1 DEF ListAssigned, Works, Fault, Calm, IInv, TypeOK
    <3>2. h = "handle_worker_failed" /\ Busy(h)
      <4>1. Current(h) = calls[h][1] /\ 1 \in 1..Len(calls[h])
        BY <2>1, FirstCall DEF ListAssigned, IInv, CallsOK, Busy, Current
      <4> QED
        BY <2>1, <4>1 DEF ListAssigned, IInv, CallsOK, OpsOK
    <3> QED
      BY <3>1, <3>2 DEF FateOK
  <2> QED
    BY <1>1, <2>1, FateOfRead, FateOfWrite, FateOfRow DEF Step
<1>2. ASSUME NEW w \in Workers, Assign(w) \/ Complete(w) \/ Fail(w) \/ LoseWorker(w)
      PROVE  FateOK'
  BY <1>2, FateOfAssign, FateOfComplete, FateOfFail, FateOfFaults
<1>3. CASE StoreReady
  BY <1>3, FateKept DEF StoreReady, job, history
<1>4. CASE UNCHANGED vars
  BY <1>4, FateKept DEF vars, job, history
<1> QED
  BY <1>1, <1>2, <1>3, <1>4, FateOfSubmit, FateOfFaults DEF Next

\* Once a task is finished and every call of the five handlers has returned, a client is
\* shown the outcome and the row agrees, although the handlers of its submission and its
\* assignments made their calls in threads of their own and may have overlapped: unless
\* an outcome came before those calls were over, a worker was reported failed, or an
\* operation failed (task_repository.py:48-73).  Of FinalStatusShown this leaves to the
\* fairness of the threads only that the calls, two of one handler, are made.
THEOREM FinalStatusIsOutcome ==
    ASSUME Assumptions
    PROVE  Spec => []FinishedIsFinal
<1>1. Init => FateOK
  <2> SUFFICES ASSUME Init PROVE FateOK
    OBVIOUS
  <2>1. ~submitted /\ ~completed /\ \A h \in Handlers : calls[h] = <<>>
    BY DEF Init
  <2>2. ~Busy("handle_worker_failed") /\ CopyThere
    BY <2>1 DEF Busy, CopyThere, Handlers
  <2>3. AssignsOnly
    <3>1. calls["persist_task_assigned"] = <<>> /\ Len(<<>>) = 0
      BY <2>1 DEF Handlers
    <3> QED
      BY <3>1 DEF AssignsOnly
  <2> QED
    BY <2>1, <2>2, <2>3 DEF FateOK
<1>2. IInv /\ FateOK /\ [Next]_vars => FateOK'
  BY FateStep
<1>3. IInv /\ FateOK => FinishedIsFinal
  <2> SUFFICES ASSUME IInv, FateOK, Calm, Finished, \A h \in Handlers : ~Busy(h)
               PROVE  Shown \in Final /\ (row # NoTask => row.status = Shown)
    BY DEF FinishedIsFinal
  <2>1. submitted
    BY DEF IInv, UnsubmittedOK, TypeOK, FateOK, Finished, Assumptions
  <2>2. Completed \/ Buried
    BY <2>1 DEF FateOK, Queued, Running, Undecided, Retrying, Finished, Handlers, IInv,
                TypeOK, Assumptions
  <2>3. copy # NoTask
    BY <2>1 DEF FateOK, CopyThere, Handlers
  <2>4. \E st \in Final : copy.status = st /\ (row # NoTask => row.status = st)
    BY <2>2 DEF Completed, Buried, Ending, Busy, Handlers, Final
  <2> QED
    BY <2>3, <2>4 DEF Shown
<1> QED
  BY <1>1, <1>2, <1>3, Invariance, PTL DEF Spec
=============================================================================
