------------------------------- MODULE Topic -------------------------------
(***************************************************************************)
(* What the event bus promises for one topic.  Events are numbered in the  *)
(* order in which the broker handles them.  An attached subscriber gets    *)
(* every event, in that order; it may be detached, and what was put into   *)
(* its inbox before is still handled.  Only at the start of a subscription *)
(* may events be lost: until it is admitted, the oldest of its inbox.      *)
(***************************************************************************)
EXTENDS Naturals, Sequences

CONSTANT Subscribers

VARIABLES
    log,        \* number of events published
    attached,   \* the subscribers an event goes to
    admitted,   \* the subscribers that handle what they get
    inbox       \* [Subscribers -> sequence of events]

vars == <<log, attached, admitted, inbox>>

Init ==
    /\ log = 0
    /\ attached = {}
    /\ admitted = {}
    /\ inbox = [s \in Subscribers |-> <<>>]

\* The next event; the subscribers of slow are detached instead of getting it.
Publish(slow) ==
    /\ log' = log + 1
    /\ attached' = attached \ slow
    /\ inbox' = [s \in Subscribers |->
          IF s \in attached' THEN Append(inbox[s], log') ELSE inbox[s]]
    /\ UNCHANGED admitted

Attach(s) ==
    /\ s \notin attached \cup admitted
    /\ inbox[s] = <<>>
    /\ attached' = attached \cup {s}
    /\ UNCHANGED <<log, admitted, inbox>>

Admit(s) ==
    /\ s \notin admitted
    /\ admitted' = admitted \cup {s}
    /\ \E n \in 0..Len(inbox[s]) :
          inbox' = [inbox EXCEPT ![s] = SubSeq(@, n + 1, Len(@))]
    /\ UNCHANGED <<log, attached>>

Handle(s) ==
    /\ s \in admitted
    /\ inbox[s] # <<>>
    /\ inbox' = [inbox EXCEPT ![s] = Tail(@)]
    /\ UNCHANGED <<log, attached, admitted>>

DetachAll ==
    /\ attached' = {}
    /\ UNCHANGED <<log, admitted, inbox>>

Leave(s) ==
    /\ s \in admitted \ attached
    /\ inbox[s] = <<>>
    /\ admitted' = admitted \ {s}
    /\ UNCHANGED <<log, attached, inbox>>

Next ==
    \/ \E slow \in SUBSET attached : Publish(slow)
    \/ \E s \in Subscribers : Attach(s) \/ Admit(s) \/ Handle(s) \/ Leave(s)
    \/ DetachAll

Spec == Init /\ [][Next]_vars
=============================================================================
