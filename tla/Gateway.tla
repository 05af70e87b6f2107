------------------------------ MODULE Gateway ------------------------------
(***************************************************************************)
(* The submission of jobs: the gateway's threads, one per request, that    *)
(* share a pool of connections to the coordinator, and the coordinator's   *)
(* event loop, which reads each connection, publishes the lines that are   *)
(* whole, and replies "ACK" once per read.  A request is answered 202 when *)
(* its thread has received anything.                                       *)
(*                                                                         *)
(* A body is one piece on the wire, or two when it is cut: by TCP, or      *)
(* because it is longer than a read of 4096 bytes.  A read takes any       *)
(* number of the pieces that have arrived.                                 *)
(***************************************************************************)
EXTENDS Naturals, Sequences, FiniteSets

CONSTANTS
    Requests,       \* POST /submit, each by a client of its own
    Long,           \* those whose body may be cut in two
    Odd,            \* those whose body is not an object on one line
    InitialSize,    \* connections made by init_pool
    MaxSize,        \* max_size of the pool
    NoConnection,
    MaxTroubles     \* bound: ends of the coordinator, clients that leave before
                    \* their answer, events the broker does not take

Connection == 1..(InitialSize + Cardinality(Requests))
Tasks      == Requests \ Odd     \* their lines parse, and are published
Piece      == [req : Requests, part : {"all", "first", "rest"}]

\* What is assumed of the constants.
Assumptions ==
    /\ IsFiniteSet(Requests)
    /\ Long \subseteq Requests /\ Odd \subseteq Requests
    /\ InitialSize \in Nat /\ MaxSize \in Nat /\ InitialSize <= MaxSize
    /\ NoConnection \notin Connection
    /\ MaxTroubles \in Nat

VARIABLES
    up,             \* the coordinator runs
    pool,           \* EventBusConnectionPool.pool
    conn,           \* the gateway's end: "unused", "open" or "closed"
    peer,           \* the coordinator's end: "up", "fin" or "rst"
    wire,           \* the pieces the coordinator has not read
    buffer,         \* EventLoop.buffers
    acks,           \* the replies the gateway has not received
    pc,             \* where the thread of each request is
    using,          \* its bus_sock, which the variable keeps naming
    answer,         \* what the client was answered
    published,      \* the requests whose event the broker took
    dropped,        \* history: those the broker did not take
    lost,           \* history: those of which a piece was discarded unread
    long,           \* history: the connections that carried a body in two
    ends, gone      \* histories, for the bounds

loop    == <<up, peer, wire, buffer, published, dropped, ends>>
link    == <<pool, conn, acks, lost, long, gone>>
thread  == <<pc, using, answer>>
vars    == <<loop, link, thread>>

Troubles == ends + gone + Cardinality(dropped)

InUse == {"sending", "waiting", "releasing"}

\* init_pool, with the coordinator up.
Init ==
    /\ up = TRUE
    /\ pool = [i \in 1..InitialSize |-> i]
    /\ conn = [c \in Connection |-> IF c <= InitialSize THEN "open" ELSE "unused"]
    /\ peer = [c \in Connection |-> "up"]
    /\ wire = [c \in Connection |-> <<>>]
    /\ buffer = [c \in Connection |-> <<>>]
    /\ acks = [c \in Connection |-> 0]
    /\ pc = [r \in Requests |-> "new"]
    /\ using = [r \in Requests |-> NoConnection]
    /\ answer = [r \in Requests |-> "none"]
    /\ published = {} /\ dropped = {} /\ lost = {} /\ long = {}
    /\ ends = 0 /\ gone = 0

Carried(pieces) == {pieces[i].req : i \in 1..Len(pieces)}

-----------------------------------------------------------------------------
(* The thread of a request.                                                *)

\* parse_http_request and the middlewares let it pass, or answer it themselves.
Arrive(r) ==
    /\ pc[r] = "new"
    /\ \/ pc' = [pc EXCEPT ![r] = "getting"] /\ UNCHANGED answer
       \/ pc' = [pc EXCEPT ![r] = "done"] /\ answer' = [answer EXCEPT ![r] = "rejected"]
    /\ UNCHANGED <<loop, link, using>>

\* get_connection: a pooled one, whatever became of it.
TakePooled(r) ==
    /\ pc[r] = "getting" /\ pool # <<>>
    /\ pool' = Tail(pool)
    /\ using' = [using EXCEPT ![r] = Head(pool)]
    /\ pc' = [pc EXCEPT ![r] = "sending"]
    /\ UNCHANGED <<loop, conn, acks, lost, long, gone, answer>>

\* get_connection when the pool stays empty: a new one.
OpenNew(r) ==
    /\ pc[r] = "getting" /\ pool = <<>> /\ up
    /\ LET c == CHOOSE d \in Connection :
                   conn[d] = "unused" /\ \A e \in Connection : e < d => conn[e] # "unused"
       IN  /\ conn' = [conn EXCEPT ![c] = "open"]
           /\ using' = [using EXCEPT ![r] = c]
    /\ pc' = [pc EXCEPT ![r] = "sending"]
    /\ UNCHANGED <<loop, pool, acks, lost, long, gone, answer>>

\* 503: the pool stays empty and connect fails.
Unavailable(r) ==
    /\ pc[r] = "getting" /\ pool = <<>> /\ ~up
    /\ pc' = [pc EXCEPT ![r] = "done"]
    /\ answer' = [answer EXCEPT ![r] = "503"]
    /\ UNCHANGED <<loop, link, using>>

\* sock.close(): with replies unread it resets the connection, and what the
\* coordinator has not read may be discarded.
Close(c) ==
    /\ conn' = [conn EXCEPT ![c] = "closed"]
    /\ \/ UNCHANGED <<wire, lost>>
       \/ /\ conn[c] = "open" /\ acks[c] > 0
          /\ wire' = [wire EXCEPT ![c] = <<>>]
          /\ lost' = lost \cup Carried(wire[c])

\* An exception in sendall or recv: release_connection(bus_sock, False), and 500.
Raise(r) ==
    /\ Close(using[r])
    /\ pc' = [pc EXCEPT ![r] = "done"]
    /\ answer' = [answer EXCEPT ![r] = "500"]
    /\ UNCHANGED <<up, peer, buffer, published, dropped, ends, pool, acks, long, gone, using>>

\* The pieces a body may be sent in.
Bodies(r) ==
    {<<[req |-> r, part |-> "all"]>>}
    \cup (IF r \in Long THEN {<<[req |-> r, part |-> "first"], [req |-> r, part |-> "rest"]>>}
                        ELSE {})

\* bus_sock.sendall(payload).  The first write to a connection the coordinator has
\* closed succeeds, and is lost; it makes the next operation fail.
Send(r) ==
    LET c == using[r] IN
    /\ pc[r] = "sending"
    /\ conn[c] = "open"
    /\ \/ /\ peer[c] = "up"
          /\ \E body \in Bodies(r) :
                /\ wire' = [wire EXCEPT ![c] = @ \o body]
                /\ long' = IF Len(body) > 1 THEN long \cup {c} ELSE long
          /\ UNCHANGED <<peer, lost>>
       \/ \* the reset comes at once, or after recv has found the end of the stream
          /\ peer[c] = "fin"
          /\ peer' \in {peer, [peer EXCEPT ![c] = "rst"]}
          /\ lost' = lost \cup {r}
          /\ UNCHANGED <<wire, long>>
    /\ pc' = [pc EXCEPT ![r] = "waiting"]
    /\ UNCHANGED <<up, buffer, published, dropped, ends, pool, conn, acks, gone, using, answer>>

SendRaises(r) ==
    /\ pc[r] = "sending"
    /\ conn[using[r]] = "closed" \/ peer[using[r]] = "rst"
    /\ Raise(r)

\* bus_sock.recv(1024): some replies, or, when the coordinator has closed the
\* connection, nothing at all; the thread looks at neither.
Receive(r) ==
    LET c == using[r] IN
    /\ pc[r] = "waiting"
    /\ \/ \E n \in 1..acks[c] : acks' = [acks EXCEPT ![c] = @ - n]
       \/ acks[c] = 0 /\ peer[c] = "fin" /\ acks' = acks
    /\ pc' = [pc EXCEPT ![r] = "releasing"]
    /\ UNCHANGED <<loop, pool, conn, lost, long, gone, using, answer>>

ReceiveRaises(r) ==
    /\ pc[r] = "waiting"
    /\ conn[using[r]] = "closed" \/ peer[using[r]] = "rst"
    /\ Raise(r)

\* Mutant: the pool has no limit.
RoomAlways == TRUE

\* queue.Queue(maxsize=max_size) takes one more.
Room == Len(pool) < MaxSize

\* release_connection(bus_sock, True)
Release(r) ==
    LET c == using[r] IN
    /\ pc[r] = "releasing"
    /\ pc' = [pc EXCEPT ![r] = "answering"]
    /\ IF Room
       THEN pool' = Append(pool, c) /\ UNCHANGED <<conn, wire, lost>>
       ELSE Close(c) /\ UNCHANGED pool
    /\ UNCHANGED <<up, peer, buffer, published, dropped, ends, acks, long, gone, using, answer>>

\* Mutant: the connection is put back instead of closed.
PutBackAgain(c) ==
    pool' = Append(pool, c) /\ UNCHANGED <<conn, wire, lost>>

\* release_connection(bus_sock, False) of a connection that was put back already.
ReleaseAgain(c) == Close(c) /\ UNCHANGED pool

\* sendall of the 202; when the client has gone it raises, inside the same try.
Answer(r) ==
    /\ pc[r] = "answering"
    /\ pc' = [pc EXCEPT ![r] = "done"]
    /\ \/ answer' = [answer EXCEPT ![r] = "202"] /\ UNCHANGED <<pool, conn, wire, lost, gone>>
       \/ /\ Troubles < MaxTroubles /\ gone' = gone + 1
          /\ ReleaseAgain(using[r])
          /\ UNCHANGED answer
    /\ UNCHANGED <<up, peer, buffer, published, dropped, ends, acks, long, using>>

-----------------------------------------------------------------------------
(* The coordinator's event loop.                                           *)

\* A line ends with a piece, and is all there.
Whole(text, i) ==
    \/ text[i].part = "all"
    \/ text[i].part = "rest" /\ i > 1 /\ text[i - 1].req = text[i].req

\* Mutant: what follows the last line end is not kept.
RemainderDropped(text) == <<>>

\* What follows the last line end.
Remainder(text) == IF text[Len(text)].part = "first" THEN <<text[Len(text)]>> ELSE <<>>

\* Mutant: only a read in which a task was found is acknowledged.
RepliesToTasks(tasks) == IF tasks = {} THEN 0 ELSE 1

\* Mutant: one acknowledgement for the read and one for each task.
RepliesTwice(tasks) == 1 + Cardinality(tasks)

\* sendall(b"ACK\n")
Replies(tasks) == 1

\* The tasks of the first n pieces are given to event_bus.publish, which may drop
\* them without a word (event_bus.py:99).
Publish(text, n) ==
    LET tasks == {text[i].req : i \in {j \in 1..n : Whole(text, j)}} \cap Tasks
    IN  \E d \in SUBSET tasks :
           /\ Cardinality(d) <= MaxTroubles - Troubles
           /\ dropped' = dropped \cup d
           /\ published' = published \cup (tasks \ d)

\* read_wrapper.  The lines of an odd body do not parse (JSONDecodeError), and are
\* passed over.
Read(c) ==
    /\ peer[c] = "up"
    /\ \E n \in 1..Len(wire[c]) :
          LET text == buffer[c] \o SubSeq(wire[c], 1, n) IN
          /\ Publish(text, Len(text))
          /\ buffer' = [buffer EXCEPT ![c] = Remainder(text)]
          /\ wire' = [wire EXCEPT ![c] = SubSeq(@, n + 1, Len(@))]
          /\ acks' = [acks EXCEPT ![c] =
                @ + Replies(published' \ published)]
    /\ UNCHANGED <<up, peer, ends, pool, conn, lost, long, gone, thread>>

\* read_wrapper, the line of an odd body being a list, say: event.get raises what the
\* loop over the lines does not catch, and the connection is closed.
ReadRaises(c) ==
    /\ peer[c] = "up"
    /\ \E n \in 1..Len(wire[c]) :
          LET text == buffer[c] \o SubSeq(wire[c], 1, n) IN
          \E stop \in 1..Len(text) :
              /\ Whole(text, stop) /\ text[stop].req \in Odd
              /\ Publish(text, stop)
              /\ lost' = lost \cup Carried(SubSeq(text, stop + 1, Len(text)))
                              \cup Carried(SubSeq(wire[c], n + 1, Len(wire[c])))
              /\ peer' = [peer EXCEPT ![c] = IF n < Len(wire[c]) THEN "rst" ELSE "fin"]
    /\ buffer' = [buffer EXCEPT ![c] = <<>>]
    /\ wire' = [wire EXCEPT ![c] = <<>>]
    /\ UNCHANGED <<up, ends, pool, conn, acks, long, gone, thread>>

\* The coordinator ends: its connections are closed, or reset when it had not read
\* all of them.
EndCoordinator ==
    /\ up /\ Troubles < MaxTroubles
    /\ ends' = ends + 1
    /\ up' = FALSE
    /\ peer' = [c \in Connection |->
          IF conn[c] = "unused" \/ peer[c] # "up" THEN peer[c]
          ELSE IF wire[c] = <<>> THEN "fin" ELSE "rst"]
    /\ lost' = lost \cup UNION {Carried(buffer[c] \o wire[c]) : c \in Connection}
    /\ wire' = [c \in Connection |-> <<>>]
    /\ buffer' = [c \in Connection |-> <<>>]
    /\ UNCHANGED <<pool, conn, acks, published, dropped, long, gone, thread>>

StartCoordinator ==
    /\ ~up
    /\ up' = TRUE
    /\ UNCHANGED <<peer, wire, buffer, published, dropped, ends, link, thread>>

Get(r) == TakePooled(r) \/ OpenNew(r) \/ Unavailable(r)
Proceed(r) == \/ Send(r) \/ SendRaises(r) \/ Receive(r) \/ ReceiveRaises(r)
              \/ Release(r) \/ Answer(r)

Next ==
    \/ \E r \in Requests : Arrive(r) \/ Get(r) \/ Proceed(r)
    \/ \E c \in Connection : Read(c) \/ ReadRaises(c)
    \/ EndCoordinator \/ StartCoordinator

Spec == Init /\ [][Next]_vars

\* The threads of the gateway and the event loop keep running.
Fairness ==
    /\ \A r \in Requests : WF_vars(Get(r)) /\ WF_vars(Proceed(r))
    /\ \A c \in Connection : WF_vars(Read(c) \/ ReadRaises(c))
FairSpec == Spec /\ Fairness

-----------------------------------------------------------------------------
TypeOK ==
    /\ up \in BOOLEAN
    /\ pool \in Seq(Connection) /\ Len(pool) <= MaxSize
    /\ conn \in [Connection -> {"unused", "open", "closed"}]
    /\ peer \in [Connection -> {"up", "fin", "rst"}]
    /\ wire \in [Connection -> Seq(Piece)] /\ buffer \in [Connection -> Seq(Piece)]
    /\ acks \in [Connection -> Nat]
    /\ pc \in [Requests -> InUse \cup {"new", "getting", "answering", "done"}]
    /\ using \in [Requests -> Connection \cup {NoConnection}]
    /\ answer \in [Requests -> {"none", "rejected", "202", "500", "503"}]
    /\ published \subseteq Tasks /\ dropped \subseteq Tasks
    /\ lost \subseteq Requests /\ long \subseteq Connection
    /\ ends \in Nat /\ gone \in Nat /\ Troubles <= MaxTroubles

\* An open connection has one owner: the pool, once, or one thread that uses it; a
\* thread is given a closed one only after a client has gone, whose thread closes
\* what it has put back already (router.py:233-243).
OneOwner ==
    \A c \in Connection :
        LET owners == Cardinality({i \in 1..Len(pool) : pool[i] = c})
                      + Cardinality({r \in Requests : using[r] = c /\ pc[r] \in InUse})
        IN  /\ conn[c] = "open" => owners = 1
            /\ conn[c] = "closed" /\ gone = 0 => owners = 0

\* The fate of a task that was sent is settled: the broker has its event, or did not
\* take it, or the connection was closed on it.
Settled == published \cup dropped \cup lost

\* A thread that asks for a connection answers its client, whatever its body, the
\* state of its connection and the coordinator (router.py:224-245).
EveryRequestAnswered == <>[](\A r \in Requests : pc[r] \in {"new", "done"})

\* A task that was answered 202 gets settled, though not always by then, and though
\* its body came in parts or behind another's.
AcceptedIsSettled == <>[](\A r \in Tasks : answer[r] = "202" => r \in Settled)

\* On a connection that has carried no body in two pieces, the 202 tells the truth:
\* the fate of the task is settled before its client has the answer.  After one that
\* was acknowledged twice, each thread takes the reply to the one before it.
AnsweredWhenSettled ==
    \A r \in Tasks : (answer[r] = "202" /\ using[r] \notin long) => r \in Settled
=============================================================================
