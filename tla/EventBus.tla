------------------------------ MODULE EventBus ------------------------------
(***************************************************************************)
(* The broker and its clients for one topic.  PubSubBroker is one thread   *)
(* with a set of subscribed connections; a subscriber is a thread of       *)
(* InternalEventBus that connects, sends SUB, takes the reply and then     *)
(* handles one event after the other, and begins again when the connection *)
(* ends; publish opens a connection, sends PUB and waits for the reply.    *)
(* The broker writes to a subscriber without waiting: when the socket      *)
(* takes no more, it closes the connection.  The broker may end and start  *)
(* again, which leaves its clients with closed connections.                *)
(*                                                                         *)
(* Events are numbered in the order in which the broker handles them.      *)
(***************************************************************************)
EXTENDS Naturals, Sequences

CONSTANTS
    Subscribers, Publishers,
    SocketSize,     \* events the sockets of one connection hold
    MaxEvents,      \* bound: events published
    MaxCrashes      \* bound: ends of the broker

ASSUME SizeAssumption == SocketSize \in Nat
ASSUME BoundAssumption == MaxEvents \in Nat /\ MaxCrashes \in Nat

VARIABLES
    up,             \* the broker runs
    subscribers,    \* PubSubBroker.subscribers[topic]
    log,            \* number of events the broker has handled
    pc,             \* where each subscriber is: "closed", "subscribing", "reading"
    reply,          \* the subscribers whose "+OK Subscribed" is unread
    stream,         \* the events in the sockets of each subscriber
    ended,          \* the subscribers whose connection the broker has closed
    publishing,     \* the publishers that wait for a reply
    handled,        \* history: the last event each subscriber handled
    started,        \* history: the subscribers that handled one since they connected
    crashes         \* history, for the bound

vars == <<up, subscribers, log, pc, reply, stream, ended, publishing, handled,
          started, crashes>>
broker  == <<up, log, publishing, crashes>>
history == <<handled, started>>

Init ==
    /\ up = TRUE
    /\ subscribers = {}
    /\ log = 0
    /\ pc = [s \in Subscribers |-> "closed"]
    /\ reply = {}
    /\ stream = [s \in Subscribers |-> <<>>]
    /\ ended = {}
    /\ publishing = {}
    /\ handled = [s \in Subscribers |-> 0]
    /\ started = {}
    /\ crashes = 0

-----------------------------------------------------------------------------
(* A subscriber.                                                           *)

\* connect and sendall("SUB ...")
Connect(s) ==
    /\ up
    /\ pc[s] = "closed"
    /\ pc' = [pc EXCEPT ![s] = "subscribing"]
    /\ started' = started \ {s}
    /\ UNCHANGED <<broker, subscribers, reply, stream, ended, handled>>

\* resp = recv(1024): the reply, and the events that came in the same read,
\* which are not looked at.
TakeReply(s) ==
    /\ pc[s] = "subscribing" /\ s \in reply
    /\ pc' = [pc EXCEPT ![s] = "reading"]
    /\ reply' = reply \ {s}
    /\ \E n \in 0..Len(stream[s]) :
          stream' = [stream EXCEPT ![s] = SubSeq(@, n + 1, Len(@))]
    /\ UNCHANGED <<broker, subscribers, ended, history>>

\* recv and handler_func
HandleEvent(s) ==
    /\ pc[s] = "reading" /\ stream[s] # <<>>
    /\ handled' = [handled EXCEPT ![s] = Head(stream[s])]
    /\ stream' = [stream EXCEPT ![s] = Tail(@)]
    /\ started' = started \cup {s}
    /\ UNCHANGED <<broker, subscribers, pc, reply, ended>>

\* Mutant: the thread of a subscriber ends with its connection.
AfterEndStops == "stopped"

\* The loop begins again.
AfterEnd == "closed"

\* recv returns nothing: the connection is over, before the reply or after the
\* last event.
EndOfStream(s) ==
    /\ s \in ended \ reply /\ stream[s] = <<>>
    /\ pc' = [pc EXCEPT ![s] = AfterEnd]
    /\ ended' = ended \ {s}
    /\ UNCHANGED <<broker, subscribers, reply, stream, history>>

-----------------------------------------------------------------------------
(* The broker, and publish.                                                *)

\* handle_client on SUB
Subscribe(s) ==
    /\ up
    /\ pc[s] = "subscribing" /\ s \notin subscribers \cup reply \cup ended
    /\ subscribers' = subscribers \cup {s}
    /\ reply' = reply \cup {s}
    /\ UNCHANGED <<broker, pc, stream, ended, history>>

\* publish up to the reply; without a broker the event is given up.
SendPublish(p) ==
    /\ up
    /\ p \notin publishing
    /\ log < MaxEvents
    /\ publishing' = publishing \cup {p}
    /\ UNCHANGED <<up, subscribers, log, pc, reply, stream, ended, history, crashes>>

\* Mutant: a socket takes one event too many.
SlowLate == {s \in subscribers : Len(stream[s]) > SocketSize}

\* The subscribers whose socket takes no more: sendall raises.
Slow == {s \in subscribers : Len(stream[s]) >= SocketSize}

\* Mutant: the links on which sendall raised are kept.
KeptLinks(slow) == {}

\* dead_links
DeadLinks(slow) == slow

\* Mutant: the first dead link ends the loop over the subscribers.
ReceiversUntilDead(slow) == IF slow = {} THEN subscribers ELSE {}

Receivers(slow) == subscribers \ slow

\* handle_client on PUB, and the reply.
BrokerPublish(p) ==
    /\ up
    /\ p \in publishing
    /\ log' = log + 1
    /\ stream' = [s \in Subscribers |->
          IF s \in Receivers(Slow) THEN Append(stream[s], log') ELSE stream[s]]
    /\ subscribers' = subscribers \ DeadLinks(Slow)
    /\ ended' = ended \cup DeadLinks(Slow)
    /\ publishing' = publishing \ {p}
    /\ UNCHANGED <<up, pc, reply, history, crashes>>

\* The broker ends: every connection is closed, events not yet handled are lost.
CrashBroker ==
    /\ up /\ crashes < MaxCrashes
    /\ crashes' = crashes + 1
    /\ up' = FALSE
    /\ ended' = {s \in Subscribers : pc[s] # "closed"}
    /\ subscribers' = {}
    /\ publishing' = {}
    /\ UNCHANGED <<log, pc, reply, stream, history>>

StartBroker ==
    /\ ~up
    /\ up' = TRUE
    /\ UNCHANGED <<subscribers, log, pc, reply, stream, ended, publishing, history,
                   crashes>>

Next ==
    \/ \E s \in Subscribers :
          Connect(s) \/ Subscribe(s) \/ TakeReply(s) \/ HandleEvent(s) \/ EndOfStream(s)
    \/ \E p \in Publishers : SendPublish(p) \/ BrokerPublish(p)
    \/ CrashBroker \/ StartBroker

Spec == Init /\ [][Next]_vars

\* The subscriber threads and the broker's thread keep running.
Fairness ==
    /\ \A s \in Subscribers :
          /\ WF_vars(Connect(s)) /\ WF_vars(Subscribe(s)) /\ WF_vars(TakeReply(s))
          /\ WF_vars(HandleEvent(s)) /\ WF_vars(EndOfStream(s))
    /\ \A p \in Publishers : WF_vars(BrokerPublish(p))

-----------------------------------------------------------------------------
\* Types; a socket holds no more than it takes; the broker writes to open
\* connections only, and a closed one has nothing left in it.
TypeOK ==
    /\ up \in BOOLEAN /\ log \in Nat
    /\ subscribers \subseteq Subscribers /\ reply \subseteq Subscribers
    /\ ended \subseteq Subscribers \ subscribers
    /\ publishing \subseteq Publishers /\ started \subseteq Subscribers
    /\ pc \in [Subscribers -> {"closed", "subscribing", "reading"}]
    /\ stream \in [Subscribers -> Seq(Nat)] /\ handled \in [Subscribers -> Nat]
    /\ crashes \in 0..MaxCrashes
    /\ \A s \in Subscribers :
          /\ Len(stream[s]) <= SocketSize
          /\ pc[s] = "closed" =>
                s \notin subscribers \cup reply \cup ended /\ stream[s] = <<>>

\* From the first event it handles on a connection, a subscriber handles every
\* event of the topic until the connection ends, and in the order of the broker;
\* over all its connections it handles none twice and none out of order, however
\* often it was dropped while its socket still held events (event_bus.py:52-67,
\* broker_service.py:109-116).
HandlesInSequence ==
    [][\A s \in Subscribers : handled'[s] # handled[s] =>
          /\ handled'[s] > handled[s]
          /\ s \in started => handled'[s] = handled[s] + 1]_vars

\* A topic loses events only between two subscriptions and at the start of one.
\* This is what Coordinator takes for granted of connected subscribers: an event
\* is in the inbox of each of them in one step.
PromisedTopic == INSTANCE Topic WITH
    attached <- subscribers,
    admitted <- {s \in Subscribers : pc[s] = "reading"},
    inbox <- stream
ImplementsTopic == PromisedTopic!Spec

\* While the broker stays up, every subscriber that was dropped or cut off comes
\* back and handles all it was sent.
SubscribersReturn ==
    <>[]up => <>[](\A s \in Subscribers :
                      s \in subscribers /\ pc[s] = "reading" /\ stream[s] = <<>>)
=============================================================================
