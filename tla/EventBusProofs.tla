--------------------------- MODULE EventBusProofs ---------------------------
(***************************************************************************)
(* The bus for any number of subscribers, publishers, events and ends of   *)
(* the broker: types, the order and completeness of what a subscriber      *)
(* handles, and that the broker and its clients implement Topic.           *)
(***************************************************************************)
EXTENDS EventBus, SequenceTheorems, TLAPS

\* The events of a sequence follow one another without a gap.
Consecutive(q) == \A i \in 1..Len(q) : q[i] = q[1] + (i - 1)

\* What is in the sockets of a subscriber: events without a gap, up to the last
\* one published while it is subscribed, and nothing before it is subscribed.
StreamOK(s) ==
    /\ Consecutive(stream[s])
    /\ \A i \in 1..Len(stream[s]) : handled[s] < stream[s][i] /\ stream[s][i] <= log
    /\ s \in subscribers /\ stream[s] # <<>> => stream[s][Len(stream[s])] = log
    /\ pc[s] = "subscribing" /\ s \notin reply =>
          s \notin subscribers /\ stream[s] = <<>>

\* What a subscriber handled on this connection ends where its sockets begin.
HandledOK(s) ==
    /\ handled[s] <= log
    /\ pc[s] = "subscribing" => s \notin started
    /\ s \in started /\ stream[s] # <<>> => stream[s][1] = handled[s] + 1
    /\ s \in started /\ s \in subscribers /\ stream[s] = <<>> => handled[s] = log

IInv == TypeOK /\ \A s \in Subscribers : StreamOK(s) /\ HandledOK(s)

-----------------------------------------------------------------------------
(* Sequences of consecutive events                                         *)

LEMMA AppendConsecutive ==
    ASSUME NEW q \in Seq(Nat), NEW n \in Nat, Consecutive(q),
           q # <<>> => q[Len(q)] = n
    PROVE  /\ Append(q, n + 1) \in Seq(Nat)
           /\ Len(Append(q, n + 1)) = Len(q) + 1
           /\ Append(q, n + 1)[Len(q) + 1] = n + 1
           /\ \A i \in 1..Len(q) : Append(q, n + 1)[i] = q[i]
           /\ Consecutive(Append(q, n + 1))
<1> DEFINE a == Append(q, n + 1)
<1>1. /\ a \in Seq(Nat) /\ Len(a) = Len(q) + 1 /\ a[Len(q) + 1] = n + 1
      /\ \A i \in 1..Len(q) : a[i] = q[i]
  BY AppendProperties
<1>2. Len(q) \in Nat /\ (q = <<>> <=> Len(q) = 0)
  BY LenProperties, EmptySeq
<1>3. CASE Len(q) = 0
  BY <1>1, <1>2, <1>3 DEF Consecutive
<1>4. CASE Len(q) > 0
  <2>1. a[1] = q[1] /\ q[Len(q)] = q[1] + (Len(q) - 1) /\ q[Len(q)] = n
    BY <1>1, <1>2, <1>4 DEF Consecutive
  <2>2. q[1] \in Nat
    BY <1>2, <1>4, ElementOfSeq
  <2>3. ASSUME NEW i \in 1..Len(a) PROVE a[i] = a[1] + (i - 1)
    <3>1. CASE i \in 1..Len(q)
      BY <3>1, <2>1, <1>1 DEF Consecutive
    <3>2. CASE i = Len(q) + 1
      BY <3>2, <2>1, <2>2, <1>1, <1>2
    <3> QED BY <3>1, <3>2, <1>1, <1>2
  <2> QED BY <2>3, <1>1 DEF Consecutive
<1> QED
  BY <1>2, <1>3, <1>4

\* What is left of a sequence when its first n events are taken.
LEMMA SuffixConsecutive ==
    ASSUME NEW q \in Seq(Nat), Consecutive(q), NEW n \in 0..Len(q)
    PROVE  LET t == SubSeq(q, n + 1, Len(q))
           IN  /\ t \in Seq(Nat) /\ Len(t) = Len(q) - n
               /\ \A i \in 1..Len(t) : t[i] = q[n + i]
               /\ Consecutive(t)
<1> DEFINE t == SubSeq(q, n + 1, Len(q))
<1>1. Len(q) \in Nat
  BY LenProperties
<1>2. CASE n = Len(q)
  <2>1. t = <<>>
    BY <1>1, <1>2, SubSeqProperties
  <2> QED
    BY <2>1, <1>1, <1>2, EmptySeq DEF Consecutive
<1>3. CASE n < Len(q)
  <2>1. /\ t \in Seq(Nat) /\ Len(t) = Len(q) - n
        /\ \A i \in 1..Len(t) : t[i] = q[n + i]
    BY <1>1, <1>3, SubSeqProperties
  <2> HIDE DEF t
  <2>2. ASSUME NEW i \in 1..Len(t) PROVE t[i] = q[1] + (n + i - 1)
    <3>1. n + i \in 1..Len(q) /\ i \in Nat /\ n \in Nat
      BY <2>1, <1>1, <1>3
    <3>2. q[n + i] = q[1] + (n + i - 1)
      BY <3>1 DEF Consecutive
    <3> QED BY <3>2, <2>1
  <2>3. q[1] \in Nat /\ 1 \in 1..Len(t) /\ n \in Nat
    BY <2>1, <1>1, <1>3, ElementOfSeq
  <2>4. \A i \in 1..Len(t) : t[i] = t[1] + (i - 1)
    <3>1. t[1] = q[1] + (n + 1 - 1)
      BY <2>2, <2>3
    <3> QED BY <3>1, <2>1, <2>2, <2>3, <1>1
  <2>5. Consecutive(t)
    BY <2>4 DEF Consecutive
  <2> QED BY <2>1, <2>5 DEF t
<1> QED
  BY <1>1, <1>2, <1>3

LEMMA TailConsecutive ==
    ASSUME NEW q \in Seq(Nat), Consecutive(q), q # <<>>
    PROVE  /\ Tail(q) \in Seq(Nat) /\ Len(Tail(q)) = Len(q) - 1
           /\ \A i \in 1..Len(Tail(q)) : Tail(q)[i] = q[i + 1]
           /\ \A i \in 1..Len(Tail(q)) : Tail(q)[i] = q[1] + i
           /\ Consecutive(Tail(q))
<1>1. /\ Tail(q) \in Seq(Nat) /\ Len(Tail(q)) = Len(q) - 1 /\ Len(q) \in Nat
      /\ \A i \in 1..Len(Tail(q)) : Tail(q)[i] = q[i + 1]
  BY HeadTailProperties, LenProperties, EmptySeq
<1>2. q[1] \in Nat
  BY EmptySeq, LenProperties, ElementOfSeq
<1>3. \A i \in 1..Len(Tail(q)) : Tail(q)[i] = q[1] + i
  BY <1>1, <1>2 DEF Consecutive
<1> QED
  BY <1>1, <1>2, <1>3 DEF Consecutive

-----------------------------------------------------------------------------
(* The invariant                                                           *)

LEMMA InitInv == ASSUME Init PROVE IInv
<1>1. \A s \in Subscribers : stream[s] = <<>> /\ stream[s] \in Seq(Nat) /\ Len(stream[s]) = 0
  BY EmptySeq DEF Init
<1>2. stream \in [Subscribers -> Seq(Nat)]
  BY <1>1 DEF Init
<1>3. TypeOK
  BY <1>1, <1>2, SizeAssumption, BoundAssumption DEF Init, TypeOK
<1>4. ASSUME NEW s \in Subscribers PROVE StreamOK(s) /\ HandledOK(s)
  BY <1>1 DEF Init, StreamOK, HandledOK, Consecutive
<1> QED BY <1>3, <1>4 DEF IInv

LEMMA ConnectInv ==
    ASSUME IInv, NEW s \in Subscribers, Connect(s) PROVE IInv'
<1>1. TypeOK'
  BY DEF IInv, Connect, broker, TypeOK
<1>2. ASSUME NEW r \in Subscribers PROVE StreamOK(r)' /\ HandledOK(r)'
  BY DEF IInv, Connect, broker, TypeOK, StreamOK, HandledOK, Consecutive
<1> QED BY <1>1, <1>2 DEF IInv

LEMMA TakeReplyInv ==
    ASSUME IInv, NEW s \in Subscribers, TakeReply(s) PROVE IInv'
<1> USE DEF IInv
<1>1. PICK n \in 0..Len(stream[s]) :
         stream' = [stream EXCEPT ![s] = SubSeq(@, n + 1, Len(@))]
  BY DEF TakeReply
<1> DEFINE q == stream[s]
           t == SubSeq(q, n + 1, Len(q))
<1>2. /\ q \in Seq(Nat) /\ Consecutive(q) /\ Len(q) \in Nat
      /\ \A i \in 1..Len(q) : handled[s] < q[i] /\ q[i] <= log
  BY LenProperties DEF TypeOK, StreamOK
<1>3. /\ t \in Seq(Nat) /\ Len(t) = Len(q) - n /\ Consecutive(t)
      /\ \A i \in 1..Len(t) : t[i] = q[n + i]
  BY <1>2, SuffixConsecutive
<1>4. stream'[s] = t /\ \A r \in Subscribers \ {s} : stream'[r] = stream[r]
  BY <1>1 DEF TypeOK
<1> HIDE DEF t
<1>5. TypeOK'
  <2>1. stream' \in [Subscribers -> Seq(Nat)]
    BY <1>1, <1>3 DEF t, TypeOK
  <2>2. \A r \in Subscribers : Len(stream'[r]) <= SocketSize
    BY <1>2, <1>3, <1>4, SizeAssumption DEF TypeOK
  <2> QED
    BY <1>4, <2>1, <2>2 DEF TakeReply, broker, history, TypeOK
<1>6. StreamOK(s)' /\ HandledOK(s)'
  <2>1. \A i \in 1..Len(t) : n + i \in 1..Len(q)
    BY <1>2, <1>3
  <2>2. ASSUME t # <<>> PROVE t[Len(t)] = q[Len(q)] /\ q # <<>>
    <3>1. Len(t) \in 1..Len(t) /\ n + Len(t) = Len(q) /\ Len(q) # 0
      BY <1>2, <1>3, <2>2, EmptySeq
    <3>2. t[Len(t)] = q[n + Len(t)]
      BY <3>1, <1>3
    <3> QED BY <3>1, <3>2, EmptySeq
  <2>3. StreamOK(s)'
    <3>1. /\ log' = log /\ handled' = handled /\ subscribers' = subscribers
          /\ pc'[s] = "reading"
      BY DEF TakeReply, broker, history, TypeOK
    <3>2. \A i \in 1..Len(t) : handled[s] < t[i] /\ t[i] <= log
      BY <1>2, <1>3, <2>1
    <3>3. s \in subscribers /\ t # <<>> => t[Len(t)] = log
      BY <2>2 DEF StreamOK
    <3>4. Consecutive(stream[s])'
      BY <1>3, <1>4 DEF Consecutive
    <3> QED
      BY <1>4, <3>1, <3>2, <3>3, <3>4 DEF StreamOK
  <2>4. HandledOK(s)'
    BY <1>2, <1>4 DEF TakeReply, broker, history, TypeOK, HandledOK
  <2> QED BY <2>3, <2>4
<1>7. ASSUME NEW r \in Subscribers \ {s} PROVE StreamOK(r)' /\ HandledOK(r)'
  BY <1>4 DEF TakeReply, broker, history, TypeOK, StreamOK, HandledOK, Consecutive
<1> QED BY <1>5, <1>6, <1>7

LEMMA HandleEventInv ==
    ASSUME IInv, NEW s \in Subscribers, HandleEvent(s) PROVE IInv'
<1> USE DEF IInv
<1> DEFINE q == stream[s]
           t == Tail(q)
<1>1. /\ q \in Seq(Nat) /\ Consecutive(q) /\ q # <<>> /\ Head(q) = q[1]
      /\ Len(q) \in Nat \ {0} /\ q[1] \in Nat
      /\ \A i \in 1..Len(q) : handled[s] < q[i] /\ q[i] <= log
  BY LenProperties, EmptySeq, ElementOfSeq DEF HandleEvent, TypeOK, StreamOK
<1>2. /\ t \in Seq(Nat) /\ Len(t) = Len(q) - 1 /\ Consecutive(t)
      /\ \A i \in 1..Len(t) : t[i] = q[i + 1]
      /\ \A i \in 1..Len(t) : t[i] = q[1] + i
  BY <1>1, TailConsecutive
<1>3. /\ stream'[s] = t /\ handled'[s] = q[1]
      /\ \A r \in Subscribers \ {s} : stream'[r] = stream[r] /\ handled'[r] = handled[r]
  BY <1>1 DEF HandleEvent, TypeOK
<1>4. TypeOK'
  <2>1. /\ stream' \in [Subscribers -> Seq(Nat)]
        /\ handled' \in [Subscribers -> Nat]
    BY <1>1, <1>2 DEF HandleEvent, TypeOK
  <2>2. Len(q) <= SocketSize /\ Len(stream'[s]) = Len(q) - 1
    BY <1>2, <1>3 DEF TypeOK
  <2>3. \A r \in Subscribers : Len(stream'[r]) <= SocketSize
    BY <1>1, <1>3, <2>2, SizeAssumption, SMTT(30) DEF TypeOK
  <2> QED
    BY <1>3, <2>1, <2>3 DEF HandleEvent, broker, TypeOK
<1>5. StreamOK(s)'
  <2>1. \A i \in 1..Len(t) : i + 1 \in 1..Len(q) /\ q[1] < t[i] /\ t[i] <= log
    BY <1>1, <1>2, SMTT(30)
  <2>2. t # <<>> => q[Len(q)] = t[Len(t)]
    BY <1>1, <1>2, EmptySeq
  <2> QED
    BY <1>1, <1>2, <1>3, <2>1, <2>2
    DEF HandleEvent, broker, TypeOK, StreamOK, Consecutive
<1>6. HandledOK(s)'
  <2>1. t # <<>> => t[1] = q[1] + 1
    BY <1>2, EmptySeq
  <2>2. t = <<>> => q[1] = q[Len(q)]
    <3>1. t = <<>> => Len(t) = 0
      BY EmptySeq
    <3>2. t = <<>> => Len(q) = 1
      BY <3>1, <1>1, <1>2
    <3> QED BY <3>2
  <2> QED
    BY <1>1, <1>2, <1>3, <2>1, <2>2, SMTT(30) DEF HandleEvent, broker, TypeOK, StreamOK, HandledOK
<1>7. ASSUME NEW r \in Subscribers \ {s} PROVE StreamOK(r)' /\ HandledOK(r)'
  BY <1>3 DEF HandleEvent, broker, TypeOK, StreamOK, HandledOK, Consecutive
<1> QED BY <1>4, <1>5, <1>6, <1>7

LEMMA EndOfStreamInv ==
    ASSUME IInv, NEW s \in Subscribers, EndOfStream(s) PROVE IInv'
<1> USE DEF IInv
<1>1. TypeOK'
  BY DEF EndOfStream, AfterEnd, broker, history, TypeOK
<1>2. ASSUME NEW r \in Subscribers PROVE StreamOK(r)' /\ HandledOK(r)'
  BY DEF EndOfStream, AfterEnd, broker, history, TypeOK, StreamOK, HandledOK, Consecutive
<1> QED BY <1>1, <1>2

LEMMA SubscribeInv ==
    ASSUME IInv, NEW s \in Subscribers, Subscribe(s) PROVE IInv'
<1> USE DEF IInv
<1>1. TypeOK'
  BY DEF Subscribe, broker, history, TypeOK
<1>2. ASSUME NEW r \in Subscribers PROVE StreamOK(r)' /\ HandledOK(r)'
  BY DEF Subscribe, broker, history, TypeOK, StreamOK, HandledOK, Consecutive
<1> QED BY <1>1, <1>2

LEMMA BrokerPublishInv ==
    ASSUME IInv, NEW p \in Publishers, BrokerPublish(p) PROVE IInv'
<1> USE DEF IInv
<1>1. /\ log' = log + 1 /\ log \in Nat /\ Slow \subseteq subscribers
      /\ subscribers' = subscribers \ Slow /\ ended' = ended \cup Slow
  BY DEF BrokerPublish, DeadLinks, Slow, TypeOK
<1>2. /\ \A r \in Subscribers \cap subscribers' : stream'[r] = Append(stream[r], log + 1)
      /\ \A r \in Subscribers \ subscribers' : stream'[r] = stream[r]
  BY <1>1 DEF BrokerPublish, Receivers, TypeOK
<1>3. \A r \in Subscribers : stream[r] \in Seq(Nat) /\ Len(stream[r]) \in Nat
  BY LenProperties DEF TypeOK
<1>4. ASSUME NEW r \in Subscribers \cap subscribers'
      PROVE  /\ stream'[r] \in Seq(Nat)
             /\ Len(stream'[r]) = Len(stream[r]) + 1
             /\ stream'[r][Len(stream[r]) + 1] = log + 1
             /\ \A i \in 1..Len(stream[r]) : stream'[r][i] = stream[r][i]
             /\ Consecutive(stream'[r])
  <2>1. r \in subscribers /\ stream[r] \in Seq(Nat) /\ Consecutive(stream[r])
    BY <1>1, <1>3 DEF StreamOK
  <2>2. stream[r] # <<>> => stream[r][Len(stream[r])] = log
    BY <2>1 DEF StreamOK
  <2>3. stream'[r] = Append(stream[r], log + 1)
    BY <1>2
  <2> DEFINE a == Append(stream[r], log + 1)
  <2>4. /\ a \in Seq(Nat) /\ Len(a) = Len(stream[r]) + 1
        /\ a[Len(stream[r]) + 1] = log + 1
        /\ \A i \in 1..Len(stream[r]) : a[i] = stream[r][i]
        /\ Consecutive(a)
    BY <2>1, <2>2, <1>1, AppendConsecutive
  <2>5. stream'[r] = a
    BY <2>3
  <2> HIDE DEF a
  <2> QED
    BY <2>4, <2>5
<1>5. TypeOK'
  <2>1. \A r \in Subscribers : stream'[r] \in Seq(Nat)
    BY <1>2, <1>3, <1>4
  <2>2. stream' \in [Subscribers -> Seq(Nat)]
    BY <2>1 DEF BrokerPublish
  <2>3. \A r \in Subscribers : Len(stream'[r]) <= SocketSize
    BY <1>1, <1>2, <1>3, <1>4, SizeAssumption DEF Slow, TypeOK
  <2> QED
    BY <1>1, <1>2, <2>2, <2>3 DEF BrokerPublish, history, TypeOK
<1>6. ASSUME NEW r \in Subscribers \cap subscribers' PROVE StreamOK(r)' /\ HandledOK(r)'
  <2>1. r \in subscribers /\ stream'[r] # <<>>
    BY <1>1, <1>3, <1>4, EmptySeq
  <2>2. \A i \in 1..Len(stream'[r]) : i \in 1..Len(stream[r]) \/ i = Len(stream[r]) + 1
    BY <1>3, <1>4
  <2>3. handled[r] \in Nat /\ handled[r] <= log
    BY DEF TypeOK, HandledOK
  <2>4. \A i \in 1..Len(stream'[r]) : handled[r] < stream'[r][i] /\ stream'[r][i] <= log + 1
    <3>1. ASSUME NEW i \in 1..Len(stream[r])
          PROVE  handled[r] < stream'[r][i] /\ stream'[r][i] <= log + 1
      <4>1. stream[r][i] \in Nat
        BY <1>3, ElementOfSeq
      <4> QED BY <4>1, <1>1, <1>4 DEF StreamOK
    <3> QED BY <3>1, <2>2, <2>3, <1>1, <1>4
  <2>5. StreamOK(r)'
    <3>1. Consecutive(stream[r])'
      BY <1>4 DEF Consecutive
    <3>2. stream'[r][Len(stream'[r])] = log'
      BY <1>1, <1>4
    <3>3. pc' = pc /\ reply' = reply /\ handled' = handled
      BY DEF BrokerPublish, history
    <3>4. ~(pc[r] = "subscribing" /\ r \notin reply)
      BY <2>1 DEF StreamOK
    <3> QED
      BY <1>1, <2>4, <3>1, <3>2, <3>3, <3>4 DEF StreamOK
  <2>6. r \in started => stream'[r][1] = handled[r] + 1
    <3>1. CASE stream[r] = <<>>
      BY <3>1, <1>4, <2>1, EmptySeq DEF HandledOK
    <3>2. CASE stream[r] # <<>>
      <4>1. 1 \in 1..Len(stream[r])
        BY <3>2, <1>3, EmptySeq
      <4> QED BY <4>1, <3>2, <1>4 DEF HandledOK
    <3> QED BY <3>1, <3>2
  <2>7. HandledOK(r)'
    BY <1>1, <2>1, <2>3, <2>6 DEF BrokerPublish, history, HandledOK
  <2> QED BY <2>5, <2>7
<1>7. ASSUME NEW r \in Subscribers \ subscribers' PROVE StreamOK(r)' /\ HandledOK(r)'
  <2>1. \A i \in 1..Len(stream[r]) : stream[r][i] \in Nat
    BY <1>3, ElementOfSeq
  <2> QED
    BY <1>1, <1>2, <2>1
    DEF BrokerPublish, history, TypeOK, StreamOK, HandledOK, Consecutive
<1> QED BY <1>5, <1>6, <1>7

LEMMA CrashBrokerInv == ASSUME IInv, CrashBroker PROVE IInv'
<1> USE DEF IInv
<1>1. TypeOK'
  <2>1. crashes' \in 0..MaxCrashes
    BY BoundAssumption DEF CrashBroker, TypeOK
  <2>2. \A r \in Subscribers : pc[r] = "closed" => r \notin subscribers \cup reply /\ stream[r] = <<>>
    BY DEF TypeOK
  <2> QED
    BY <2>1, <2>2 DEF CrashBroker, history, TypeOK
<1>2. ASSUME NEW r \in Subscribers PROVE StreamOK(r)' /\ HandledOK(r)'
  BY DEF CrashBroker, history, TypeOK, StreamOK, HandledOK, Consecutive
<1> QED BY <1>1, <1>2

\* SendPublish and StartBroker touch nothing the invariant is about.
LEMMA OtherInv ==
    ASSUME IInv, (\E p \in Publishers : SendPublish(p)) \/ StartBroker \/ UNCHANGED vars
    PROVE  IInv'
<1> USE DEF IInv
<1>1. /\ UNCHANGED <<subscribers, log, pc, reply, stream, ended, handled, started, crashes>>
      /\ up' \in BOOLEAN /\ publishing' \subseteq Publishers
  BY DEF SendPublish, StartBroker, vars, history, TypeOK
<1>2. TypeOK'
  BY <1>1 DEF TypeOK
<1>3. ASSUME NEW r \in Subscribers PROVE StreamOK(r)' /\ HandledOK(r)'
  BY <1>1 DEF StreamOK, HandledOK, Consecutive
<1> QED BY <1>2, <1>3

LEMMA NextInv == ASSUME IInv, [Next]_vars PROVE IInv'
BY ConnectInv, TakeReplyInv, HandleEventInv, EndOfStreamInv, SubscribeInv,
   BrokerPublishInv, CrashBrokerInv, OtherInv DEF Next

LEMMA Invariance == Spec => []IInv
BY InitInv, NextInv, PTL DEF Spec

\* The types of the bus, and what its sockets hold.
THEOREM TypeCorrect == Spec => []TypeOK
BY Invariance, PTL DEF IInv

-----------------------------------------------------------------------------
(* What a subscriber handles                                               *)

LEMMA HandledStep ==
    ASSUME IInv, [Next]_vars, NEW s \in Subscribers, handled'[s] # handled[s]
    PROVE  /\ handled'[s] > handled[s]
           /\ s \in started => handled'[s] = handled[s] + 1
<1>1. HandleEvent(s)
  <2>1. ASSUME NEW r \in Subscribers, HandleEvent(r) PROVE r = s
    BY <2>1 DEF HandleEvent, IInv, TypeOK
  <2> QED
    BY <2>1
    DEF Next, Connect, TakeReply, EndOfStream, Subscribe, SendPublish, BrokerPublish,
        CrashBroker, StartBroker, vars, history
<1>2. stream[s] # <<>> /\ stream[s] \in Seq(Nat) /\ handled'[s] = stream[s][1]
  BY <1>1 DEF HandleEvent, IInv, TypeOK
<1>3. 1 \in 1..Len(stream[s])
  BY <1>2, EmptySeq
<1>4. handled[s] < stream[s][1] /\ handled[s] \in Nat /\ stream[s][1] \in Nat
  BY <1>2, <1>3, ElementOfSeq DEF IInv, StreamOK, TypeOK
<1>5. s \in started => stream[s][1] = handled[s] + 1
  BY <1>2 DEF IInv, HandledOK
<1> QED
  BY <1>2, <1>4, <1>5

\* A subscriber handles no event twice, none out of order, and from its first
\* event on a connection none is missing, however often the broker drops it.
THEOREM InSequence == Spec => HandlesInSequence
<1>1. ASSUME IInv, [Next]_vars
      PROVE  [\A s \in Subscribers : handled'[s] # handled[s] =>
                /\ handled'[s] > handled[s]
                /\ s \in started => handled'[s] = handled[s] + 1]_vars
  BY <1>1, HandledStep
<1> QED
  BY <1>1, Invariance, PTL DEF Spec, HandlesInSequence

-----------------------------------------------------------------------------
(* The promise                                                             *)

Reading == {s \in Subscribers : pc[s] = "reading"}

LEMMA InitPromise == Init => PromisedTopic!Init
BY DEF Init, PromisedTopic!Init

\* The steps of a subscriber, as those of the topic.
LEMMA SubscriberPromise ==
    ASSUME IInv, NEW s \in Subscribers,
           Connect(s) \/ Subscribe(s) \/ TakeReply(s) \/ HandleEvent(s) \/ EndOfStream(s)
    PROVE  [PromisedTopic!Next]_(PromisedTopic!vars)
<1> USE DEF IInv
<1>1. CASE Connect(s)
  BY <1>1 DEF Connect, broker, TypeOK, PromisedTopic!vars
<1>2. CASE Subscribe(s)
  <2>1. PromisedTopic!Attach(s)
    BY <1>2 DEF Subscribe, broker, TypeOK, StreamOK, PromisedTopic!Attach
  <2> QED BY <2>1 DEF PromisedTopic!Next
<1>3. CASE TakeReply(s)
  <2>1. Reading' = Reading \cup {s} /\ s \notin Reading
    BY <1>3 DEF TakeReply, TypeOK, Reading
  <2>2. PromisedTopic!Admit(s)
    BY <1>3, <2>1 DEF TakeReply, broker, Reading, PromisedTopic!Admit
  <2> QED BY <2>2 DEF PromisedTopic!Next
<1>4. CASE HandleEvent(s)
  <2>1. PromisedTopic!Handle(s)
    BY <1>4 DEF HandleEvent, broker, PromisedTopic!Handle
  <2> QED BY <2>1 DEF PromisedTopic!Next
<1>5. CASE EndOfStream(s)
  <2>1. CASE pc[s] = "reading"
    <3>1. Reading' = Reading \ {s} /\ s \in Reading \ subscribers
      BY <1>5, <2>1 DEF EndOfStream, AfterEnd, TypeOK, Reading
    <3>2. PromisedTopic!Leave(s)
      BY <1>5, <3>1 DEF EndOfStream, broker, Reading, PromisedTopic!Leave
    <3> QED BY <3>2 DEF PromisedTopic!Next
  <2>2. CASE pc[s] # "reading"
    <3>1. Reading' = Reading
      BY <1>5, <2>2 DEF EndOfStream, AfterEnd, TypeOK, Reading
    <3> QED
      BY <1>5, <3>1 DEF EndOfStream, broker, Reading, PromisedTopic!vars
  <2> QED BY <2>1, <2>2
<1> QED
  BY <1>1, <1>2, <1>3, <1>4, <1>5

\* The steps of the broker and of publish.
LEMMA BrokerPromise ==
    ASSUME IInv,
           \/ \E p \in Publishers : SendPublish(p) \/ BrokerPublish(p)
           \/ CrashBroker \/ StartBroker \/ UNCHANGED vars
    PROVE  [PromisedTopic!Next]_(PromisedTopic!vars)
<1> USE DEF IInv
<1>1. ASSUME NEW p \in Publishers, BrokerPublish(p)
      PROVE  PromisedTopic!Next
  <2>1. Slow \in SUBSET subscribers
    BY DEF Slow
  <2>2. subscribers' = subscribers \ Slow /\ Receivers(Slow) = subscribers'
    BY <1>1 DEF BrokerPublish, DeadLinks, Receivers
  <2>3. PromisedTopic!Publish(Slow)
    BY <1>1, <2>2 DEF BrokerPublish, PromisedTopic!Publish
  <2> QED BY <2>1, <2>3 DEF PromisedTopic!Next
<1>2. ASSUME CrashBroker PROVE PromisedTopic!Next
  BY <1>2 DEF CrashBroker, PromisedTopic!Next, PromisedTopic!DetachAll
<1>3. ASSUME (\E p \in Publishers : SendPublish(p)) \/ StartBroker \/ UNCHANGED vars
      PROVE  UNCHANGED (PromisedTopic!vars)
  BY <1>3 DEF SendPublish, StartBroker, vars, PromisedTopic!vars
<1> QED
  BY <1>1, <1>2, <1>3

\* The broker and its clients implement Topic: a subscriber misses events only
\* between two subscriptions and at the start of one.
THEOREM ImplementsPromise == Spec => ImplementsTopic
<1>1. ASSUME IInv, [Next]_vars PROVE [PromisedTopic!Next]_(PromisedTopic!vars)
  BY <1>1, SubscriberPromise, BrokerPromise DEF Next
<1> QED
  BY InitPromise, <1>1, Invariance, PTL
  DEF Spec, ImplementsTopic, PromisedTopic!Spec
=============================================================================
