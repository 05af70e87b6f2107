---------------------------- MODULE PartsProofs ----------------------------
(***************************************************************************)
(* Safety of the gateway's submissions and of a connection to the cache,   *)
(* for every number of requests, connections and commands.                 *)
(***************************************************************************)
EXTENDS MCParts, TaskRepositoryProofs, FiniteSetTheorems, WellFoundedInduction

-----------------------------------------------------------------------------
(* A connection to the cache: the invariant                                *)

\* Strings that belong to no array of their own.
Leftover(tokens) == \A i \in 1..Len(tokens) : ~tokens[i].header

\* Such strings, then a whole command.
EndsWith(tokens, cmd) ==
    LET n == Len(tokens) - (Len(cmd) + 1)
    IN  /\ n \in Nat
        /\ \A i \in 1..n : ~tokens[i].header
        /\ \A j \in 1..(Len(cmd) + 1) : tokens[n + j] = C!Encoded(cmd)[j]

\* The command has not been executed.  It is what comes last, and its key is torn
\* when the server may execute it without its last elements.
Pending ==
    /\ command # <<>> /\ replies = <<>>
    /\ EndsWith(unparsed \o stream, command)
    /\ Len(stream) \in 1..(Len(command) - 1) => command[2] \in torn

\* The command has been executed, or there is none: what has not been parsed is never
\* executed, and the one reply is that to the command.
Served ==
    /\ Leftover(unparsed \o stream)
    /\ command = <<>> => replies = <<>>
    /\ command # <<>> =>
          /\ Len(replies) = 1
          /\ command[1] = "GET" => replies[1] \in Values \cup {None}
          /\ command[2] \notin torn =>
                store[command[2]] = C!Learned(command, replies[1], acked[command[2]])

\* The client knows what is stored of the other keys.
Agreed ==
    \A k \in Keys \ torn : (command = <<>> \/ k # command[2]) => store[k] = acked[k]

CacheInv == C!TypeOK /\ (Pending \/ Served) /\ Agreed

-----------------------------------------------------------------------------
(* A connection to the cache: commands and tokens                          *)

\* A command is two elements or three, the second its key.
LEMMA CommandParts ==
    ASSUME NEW cmd \in C!Commands
    PROVE  /\ cmd \in Seq(C!Element) /\ cmd # <<>>
           /\ Len(cmd) \in {2, 3}
           /\ cmd[1] \in {"SET", "GET", "DEL"} /\ cmd[2] \in Keys
           /\ cmd[1] = "SET" => Len(cmd) = 3 /\ cmd[3] \in Values
           /\ cmd[1] # "SET" => Len(cmd) = 2
<1> DEFINE E == C!Element
<1>1. CASE \E k \in Keys, v \in Values : cmd = <<"SET", k, v>>
  <2>1. PICK k \in Keys, v \in Values : cmd = <<"SET", k, v>>
    BY <1>1
  <2>2. "SET" \in E /\ k \in E /\ v \in E
    BY DEF C!Element
  <2> HIDE DEF E
  <2>3. cmd \in Seq(E) /\ Len(cmd) = 3 /\ cmd[1] = "SET" /\ cmd[2] = k /\ cmd[3] = v
    BY <2>1, <2>2
  <2>4. cmd # <<>>
    BY <2>1
  <2> QED
    BY <2>3, <2>4 DEF E
<1>2. CASE \E op \in {"GET", "DEL"}, k \in Keys : cmd = <<op, k>>
  <2>1. PICK op \in {"GET", "DEL"}, k \in Keys : cmd = <<op, k>>
    BY <1>2
  <2>2. op \in E /\ k \in E
    BY DEF C!Element
  <2> HIDE DEF E
  <2>3. cmd \in Seq(E) /\ Len(cmd) = 2 /\ cmd[1] = op /\ cmd[2] = k
    BY <2>1, <2>2
  <2>4. cmd # <<>>
    BY <2>1
  <2>5. op # "SET"
    OBVIOUS
  <2> QED
    BY <2>3, <2>4, <2>5 DEF E
<1> QED
  BY <1>1, <1>2 DEF C!Commands

\* On the wire it is a header and its elements.
LEMMA EncodedParts ==
    ASSUME NEW cmd \in C!Commands
    PROVE  /\ C!Encoded(cmd) \in Seq(C!Token)
           /\ Len(C!Encoded(cmd)) = Len(cmd) + 1
           /\ C!Encoded(cmd)[1] = [header |-> TRUE, size |-> Len(cmd)]
           /\ \A j \in 1..Len(cmd) :
                 C!Encoded(cmd)[j + 1] = [header |-> FALSE, element |-> cmd[j]]
<1> DEFINE h == [header |-> TRUE, size |-> Len(cmd)]
           t == [i \in 1..Len(cmd) |-> [header |-> FALSE, element |-> cmd[i]]]
<1>1. Len(cmd) \in {2, 3} /\ \A i \in 1..Len(cmd) : cmd[i] \in C!Element
  BY CommandParts, ElementOfSeq
<1>2. h \in C!Token
  BY <1>1 DEF C!Token
<1>3. /\ t \in Seq(C!Token) /\ Len(t) = Len(cmd)
      /\ \A i \in 1..Len(cmd) : t[i] = [header |-> FALSE, element |-> cmd[i]]
  <2>1. \A i \in 1..Len(cmd) : [header |-> FALSE, element |-> cmd[i]] \in C!Token
    BY <1>1 DEF C!Token
  <2>2. Len(cmd) \in Nat
    BY <1>1
  <2> QED
    BY <2>1, <2>2, IsASeq
<1>4. C!Encoded(cmd) = <<h>> \o t
  BY DEF C!Encoded
<1> HIDE DEF h, t
<1>5. <<h>> \in Seq(C!Token) /\ Len(<<h>>) = 1 /\ <<h>>[1] = h
  BY <1>2
<1>6. /\ <<h>> \o t \in Seq(C!Token)
      /\ Len(<<h>> \o t) = 1 + Len(t)
      /\ \A i \in 1..(1 + Len(t)) :
            (<<h>> \o t)[i] = IF i <= 1 THEN <<h>>[i] ELSE t[i - 1]
  BY <1>3, <1>5, ConcatProperties
<1>7. (<<h>> \o t)[1] = h
  BY <1>1, <1>3, <1>5, <1>6
<1>8. ASSUME NEW j \in 1..Len(cmd)
      PROVE  (<<h>> \o t)[j + 1] = t[j]
  <2>1. j + 1 \in 1..(1 + Len(t)) /\ ~(j + 1 <= 1) /\ (j + 1) - 1 = j
    BY <1>1, <1>3
  <2> QED
    BY <1>6, <2>1
<1> QED
  BY <1>1, <1>3, <1>4, <1>6, <1>7, <1>8 DEF h

\* Moving the front of one sequence to the end of another keeps their concatenation.
LEMMA Together ==
    ASSUME NEW S, NEW u \in Seq(S), NEW a \in Seq(S), NEW w \in Seq(S),
           NEW v, NEW s, v = u \o a, s = a \o w
    PROVE  v \in Seq(S) /\ s \in Seq(S) /\ v \o w = u \o s
<1>1. v \o w \in Seq(S) /\ u \o s \in Seq(S) /\ v \in Seq(S) /\ s \in Seq(S)
  BY ConcatProperties
<1>2. Len(v \o w) = Len(u \o s)
  BY SMT
<1>3. \A i \in 1..Len(v \o w) : (v \o w)[i] = (u \o s)[i]
  BY SMT
<1> QED
  BY <1>1, <1>2, <1>3, SeqEqual

\* n tokens have gone from the head of s to the end of u.
Moved(u, s, n, v, w) == v = u \o SubSeq(s, 1, n) /\ w = SubSeq(s, n + 1, Len(s))

\* What a read moves keeps its order.
LEMMA ChunkMoves ==
    ASSUME NEW S, NEW u \in Seq(S), NEW s \in Seq(S), NEW n \in 1..Len(s),
           NEW v, NEW w, Moved(u, s, n, v, w)
    PROVE  v \in Seq(S) /\ w \in Seq(S) /\ v \o w = u \o s
<1> DEFINE a == SubSeq(s, 1, n)
           b == SubSeq(s, n + 1, Len(s))
<1>1. Len(s) \in Nat /\ n \in Nat /\ 1 <= n /\ n <= Len(s)
  BY LenProperties
<1>2. \A i \in 1..Len(s) : s[i] \in S
  BY ElementOfSeq
<1>3. a \in Seq(S)
  BY <1>1, <1>2, SubSeqProperties
<1>4. b \in Seq(S)
  <2>1. n + 1 \in Int /\ Len(s) \in Int /\ \A i \in (n + 1)..Len(s) : s[i] \in S
    BY <1>1, <1>2
  <2> QED
    BY <2>1, SubSeqProperties
<1>5. a \o b = s
  <2>1. a \o b = SubSeq(s, 1, Len(s))
    BY <1>1, ConcatAdjacentSubSeq
  <2> QED
    BY <2>1, SubSeqFull
<1>6. v = u \o a /\ w = b
  BY DEF Moved
<1> HIDE DEF a, b
<1>7. u \o a \in Seq(S)
  BY <1>3, ConcatProperties
<1>8. (u \o a) \o b = u \o (a \o b)
  <2>1. (u \o a) \o b \in Seq(S) /\ u \o (a \o b) \in Seq(S)
    BY <1>3, <1>4, ConcatProperties
  <2>2. Len((u \o a) \o b) = Len(u \o (a \o b))
    BY <1>3, <1>4, SMT
  <2>3. \A i \in 1..Len((u \o a) \o b) : ((u \o a) \o b)[i] = (u \o (a \o b))[i]
    BY <1>3, <1>4, SMT
  <2> QED
    BY <2>1, <2>2, <2>3, SeqEqual
<1> QED
  BY <1>4, <1>5, <1>6, <1>7, <1>8, Zenon

-----------------------------------------------------------------------------
(* A connection to the cache: the steps                                    *)

CacheVars == <<command, sent, stream, unparsed, store, replies, acked, torn>>

\* C!TypeOK, conjunct by conjunct.
LEMMA CacheTypes ==
    ASSUME CacheInv
    PROVE  /\ command \in C!Commands \cup {<<>>} /\ sent \in 0..MaxCommands
           /\ stream \in Seq(C!Token) /\ unparsed \in Seq(C!Token)
           /\ store \in [Keys \cup {None} -> Values \cup {None}]
           /\ replies \in Seq(Values \cup {None, "OK"})
           /\ acked \in [Keys -> Values \cup {None}]
           /\ torn \subseteq Keys
           /\ None \notin Keys \cup Values /\ MaxCommands \in Nat
BY PartAssumptions DEF CacheInv, C!TypeOK, C!Assumptions

LEMMA CacheInit == C!Init => CacheInv
<1> SUFFICES ASSUME C!Init PROVE CacheInv
  OBVIOUS
<1>1. C!TypeOK
  BY PartAssumptions DEF C!Init, C!TypeOK, C!Assumptions
<1>2. <<>> \o <<>> = <<>> /\ Len(<<>>) = 0
  BY EmptySeq
<1>3. Served
  BY <1>2 DEF C!Init, Served, Leftover
<1>4. Agreed
  BY DEF C!Init, Agreed
<1> QED
  BY <1>1, <1>3, <1>4 DEF CacheInv

\* A call begins: its command is pending behind what was left over.
LEMMA SendStep ==
    ASSUME CacheInv, NEW cmd \in C!Commands, C!SendCommand(cmd)
    PROVE  CacheInv'
<1> DEFINE u == unparsed
           s == stream
           e == C!Encoded(cmd)
           t == u \o s
<1>1. /\ command = <<>> /\ sent < MaxCommands
      /\ command' = cmd /\ sent' = sent + 1 /\ stream' = s \o e
      /\ torn' = torn \ {cmd[2]}
      /\ UNCHANGED <<unparsed, store, replies, acked>>
  BY DEF C!SendCommand
<1>2. /\ cmd \in Seq(C!Element) /\ cmd # <<>> /\ Len(cmd) \in {2, 3} /\ cmd[2] \in Keys
      /\ e \in Seq(C!Token) /\ Len(e) = Len(cmd) + 1
  BY CommandParts, EncodedParts
<1>3. /\ u \in Seq(C!Token) /\ s \in Seq(C!Token) /\ sent \in 0..MaxCommands
      /\ MaxCommands \in Nat /\ torn \subseteq Keys
  BY CacheTypes
<1>4. t \in Seq(C!Token) /\ Leftover(t) /\ replies = <<>>
  <2>1. Served
    BY <1>1 DEF CacheInv, Pending
  <2> QED
    BY <1>1, <1>3, <2>1, ConcatProperties DEF Served
<1>5. stream' \in Seq(C!Token) /\ unparsed' \o stream' = t \o e
  <2> HIDE DEF e
  <2>1. t = u \o s /\ stream' = s \o e
    BY <1>1
  <2>2. stream' \in Seq(C!Token) /\ t \o e = u \o stream'
    BY <1>2, <1>3, <2>1, Together
  <2> QED
    BY <1>1, <2>2
<1>6. C!TypeOK'
  <2>1. sent' \in 0..MaxCommands
    BY <1>1, <1>3
  <2> HIDE DEF e
  <2> QED
    BY <1>1, <1>3, <1>5, <2>1, CacheTypes DEF C!TypeOK
<1>7. EndsWith(t \o e, cmd)
  <2> HIDE DEF t, e
  <2>1. /\ Len(t \o e) = Len(t) + (Len(cmd) + 1)
        /\ \A i \in 1..Len(t) : (t \o e)[i] = t[i]
        /\ \A j \in 1..(Len(cmd) + 1) : (t \o e)[Len(t) + j] = e[j]
        /\ Len(t) \in Nat
    BY <1>2, <1>4
  <2>2. Len(t \o e) - (Len(cmd) + 1) = Len(t)
    BY <1>2, <2>1
  <2> QED
    BY <1>4, <2>1, <2>2 DEF EndsWith, Leftover, e
<1>8. Pending'
  <2>1. Len(stream') = Len(s) + (Len(cmd) + 1) /\ Len(s) \in Nat
    <3> HIDE DEF e
    <3>1. Len(s \o e) = Len(s) + Len(e) /\ Len(s) \in Nat
      BY <1>2, <1>3, ConcatProperties, LenProperties
    <3> QED
      BY <1>1, <1>2, <3>1
  <2>2. Len(stream') \notin 1..(Len(cmd) - 1)
    BY <1>2, <2>1
  <2> QED
    BY <1>1, <1>2, <1>4, <1>5, <1>7, <2>2 DEF Pending
<1>9. Agreed'
  BY <1>1, <1>2 DEF CacheInv, Agreed
<1> QED
  BY <1>6, <1>8, <1>9 DEF CacheInv

\* A call returns with the reply to its command, and what it was told is what is stored.
LEMMA ReturnStep ==
    ASSUME CacheInv, C!ReturnReply
    PROVE  CacheInv'
<1>1. /\ command # <<>> /\ replies # <<>> /\ command' = <<>>
      /\ acked' = [acked EXCEPT ![command[2]] = C!Learned(command, Head(replies), @)]
      /\ UNCHANGED <<sent, stream, unparsed, store, torn>>
  BY DEF C!ReturnReply
<1>2. Served /\ Len(replies) = 1 /\ Head(replies) = replies[1]
  BY <1>1, CacheTypes DEF CacheInv, Pending, Served
<1>3. replies' = <<>>
  <2>1. PICK n \in 1..Len(replies) : replies' = SubSeq(replies, n + 1, Len(replies))
    BY DEF C!ReturnReply
  <2>2. n = 1
    BY <1>2
  <2> QED
    BY <1>2, <2>1, <2>2, SubSeqEmpty
<1>4. command \in C!Commands /\ command[2] \in Keys
  BY <1>1, CacheTypes, CommandParts
<1>5. C!Learned(command, replies[1], acked[command[2]]) \in Values \cup {None}
  <2>1. CASE command[1] = "SET"
    BY <1>4, <2>1, CacheTypes, CommandParts DEF C!Learned
  <2>2. CASE command[1] = "GET"
    <3>1. C!Learned(command, replies[1], acked[command[2]]) = replies[1]
      BY <2>2 DEF C!Learned
    <3> QED
      BY <1>1, <1>2, <2>2, <3>1 DEF Served
  <2>3. CASE command[1] = "DEL"
    BY <2>3 DEF C!Learned
  <2> QED
    BY <1>4, <2>1, <2>2, <2>3, CommandParts
<1> DEFINE l == C!Learned(command, replies[1], acked[command[2]])
<1>6. l \in Values \cup {None} /\ acked' = [acked EXCEPT ![command[2]] = l]
      /\ (command[2] \notin torn => store[command[2]] = l)
  BY <1>1, <1>2, <1>5 DEF Served
<1> HIDE DEF l
<1>7. C!TypeOK'
  <2>1. acked' \in [Keys -> Values \cup {None}]
    BY <1>4, <1>6, CacheTypes
  <2> QED
    BY <1>1, <1>3, <2>1, CacheTypes DEF C!TypeOK
<1>8. Served'
  BY <1>1, <1>2, <1>3 DEF Served
<1>9. Agreed'
  BY <1>1, <1>4, <1>6, CacheTypes DEF CacheInv, Agreed
<1> QED
  BY <1>7, <1>8, <1>9 DEF CacheInv

\* A chunk moves from the stream to the buffer, and leaves their concatenation as it was.
LEMMA ReadStep ==
    ASSUME CacheInv, C!ReadChunk
    PROVE  CacheInv'
<1>1. UNCHANGED <<command, sent, store, replies, acked>>
  BY DEF C!ReadChunk
<1>2. PICK n \in 1..Len(stream) : /\ unparsed' = unparsed \o SubSeq(stream, 1, n)
                                 /\ stream' = SubSeq(stream, n + 1, Len(stream))
  BY DEF C!ReadChunk
<1>3. /\ unparsed' \in Seq(C!Token) /\ stream' \in Seq(C!Token)
      /\ unparsed' \o stream' = unparsed \o stream
  <2>1. unparsed \in Seq(C!Token) /\ stream \in Seq(C!Token)
    BY CacheTypes
  <2>2. Moved(unparsed, stream, n, unparsed', stream')
    BY <1>2 DEF Moved
  <2> QED
    BY <2>1, <2>2, ChunkMoves
<1>4. /\ torn \subseteq torn' /\ torn' \subseteq Keys
      /\ command # <<>> /\ stream' # <<>> /\ C!ReadOfCommand(stream') >= 2
            => command[2] \in torn'
  <2>1. torn' = IF command # <<>> /\ stream' # <<>> /\ C!ReadOfCommand(stream') >= 2
                THEN torn \cup {command[2]} ELSE torn
    BY DEF C!ReadChunk
  <2>2. command # <<>> => command[2] \in Keys
    BY CacheTypes, CommandParts
  <2> QED
    BY <2>1, <2>2, CacheTypes
<1>5. C!TypeOK'
  BY <1>1, <1>3, <1>4, CacheTypes DEF C!TypeOK
<1>6. ASSUME Pending PROVE Pending'
  <2>1. ASSUME Len(stream') \in 1..(Len(command) - 1) PROVE command[2] \in torn'
    <3> DEFINE d == Len(stream')
    <3>1. Len(command) \in {2, 3}
      BY <1>6, CacheTypes, CommandParts DEF Pending
    <3>2. d # 0 /\ ~(d > Len(command)) /\ Len(command) + 1 - d >= 2
      BY <2>1, <3>1
    <3>3. stream' # <<>>
      BY <3>2, EmptySeq
    <3>4. C!ReadOfCommand(stream') >= 2
      BY <3>2 DEF C!ReadOfCommand
    <3> QED
      BY <1>4, <1>6, <3>3, <3>4 DEF Pending
  <2> QED
    BY <1>1, <1>3, <1>6, <2>1 DEF Pending
<1>7. ASSUME Served PROVE Served'
  BY <1>1, <1>3, <1>4, <1>7 DEF Served
<1>8. Agreed'
  BY <1>1, <1>4 DEF CacheInv, Agreed
<1> QED
  BY <1>5, <1>6, <1>7, <1>8 DEF CacheInv
\* What the server takes for a command is the command, but for the elements that are
\* not there, and then its key is torn.
LEMMA ListServed ==
    ASSUME CacheInv, ~C!Waits(unparsed), Head(unparsed).header
    PROVE  /\ Pending /\ Leftover(stream) /\ C!Rest(unparsed) = <<>>
           /\ C!Elements(unparsed)[1] = command[1]
           /\ C!Elements(unparsed)[2] \in {command[2], None}
           /\ command[1] = "SET" => C!Elements(unparsed)[3] \in {command[3], None}
           /\ command[2] \notin torn =>
                 /\ C!Elements(unparsed)[2] = command[2]
                 /\ command[1] = "SET" => C!Elements(unparsed)[3] = command[3]
<1> DEFINE b == unparsed
           s == stream
           t == b \o s
           m == Len(b)
           l == Len(command)
           e == C!Elements(b)
<1>1. b \in Seq(C!Token) /\ s \in Seq(C!Token)
  BY CacheTypes
<1>2. /\ t \in Seq(C!Token) /\ Len(t) = m + Len(s) /\ m \in Nat /\ Len(s) \in Nat
      /\ \A i \in 1..m : t[i] = b[i]
      /\ \A i \in 1..Len(s) : t[m + i] = s[i]
  BY <1>1
<1>3. m >= 2 /\ Head(b) = b[1]
  <2>1. m >= 1
    <3>1. CASE m <= 1
      <4>1. PICK i \in 1..m : ~b[i].header
        BY <1>2, <3>1 DEF C!Waits
      <4> QED
        BY <1>2, <4>1
    <3> QED
      BY <1>2, <3>1
  <2>2. Head(b) = b[1]
    BY <1>1, <2>1
  <2>3. ASSUME m = 1 PROVE FALSE
    <3>1. m <= 1
      BY <2>3
    <3>2. PICK i \in 1..m : ~b[i].header
      BY <3>1 DEF C!Waits
    <3>3. i = 1
      BY <2>3, <3>2
    <3> QED
      BY <2>2, <3>2, <3>3
  <2>4. m >= 2
    <3>1. m \in Nat
      BY <1>2
    <3> HIDE DEF m
    <3> QED
      BY <2>1, <2>3, <3>1
  <2> QED
    BY <2>2, <2>4, Zenon
<1>4. t[1] = b[1] /\ t[1].header
  BY <1>2, <1>3
<1>5. Pending
  <2>1. ~Served
    BY <1>2, <1>3, <1>4 DEF Served, Leftover
  <2> QED
    BY <2>1 DEF CacheInv
<1>6. /\ command \in C!Commands /\ l \in {2, 3}
      /\ command[1] = "SET" => l = 3
  BY <1>5, CacheTypes, CommandParts DEF Pending
<1>7. /\ C!Encoded(command)[1] = [header |-> TRUE, size |-> l]
      /\ \A j \in 1..l : C!Encoded(command)[j + 1] = [header |-> FALSE, element |-> command[j]]
  BY <1>6, EncodedParts
<1>8. Len(t) = l + 1 /\ \A j \in 1..(l + 1) : t[j] = C!Encoded(command)[j]
  <2> DEFINE n == Len(t) - (l + 1)
  <2>1. /\ n \in Nat
        /\ \A i \in 1..n : ~t[i].header
        /\ \A j \in 1..(l + 1) : t[n + j] = C!Encoded(command)[j]
    BY <1>5 DEF Pending, EndsWith
  <2> HIDE DEF t
  <2>2. n = 0
    BY <1>4, <2>1
  <2>3. Len(t) = l + 1
    BY <1>2, <1>6, <2>2
  <2> QED
    BY <1>6, <2>1, <2>2, <2>3
<1>9. /\ t[1] = [header |-> TRUE, size |-> l]
      /\ \A j \in 1..l : t[j + 1] = [header |-> FALSE, element |-> command[j]]
  BY <1>6, <1>7, <1>8
<1>10. Head(b).size = l
  BY <1>3, <1>4, <1>9
<1> HIDE DEF t
<1>11. m <= l + 1
  BY <1>2, <1>8
<1>12. \A i \in 1..l : e[i] = IF i < m THEN command[i] ELSE None
  <2> SUFFICES ASSUME NEW i \in 1..l PROVE e[i] = IF i < m THEN command[i] ELSE None
    OBVIOUS
  <2>1. e[i] = IF i < m THEN b[i + 1].element ELSE None
    BY <1>10 DEF C!Elements
  <2>2. i < m => i + 1 \in 1..m
    BY <1>2, <1>6
  <2>3. i < m => b[i + 1] = t[i + 1]
    BY <1>2, <2>2
  <2>4. t[i + 1].element = command[i]
    <3>1. t[i + 1] = [header |-> FALSE, element |-> command[i]]
      BY <1>9
    <3> QED
      BY <3>1
  <2> QED
    BY <2>1, <2>3, <2>4
<1>13. Leftover(s)
  <2> SUFFICES ASSUME NEW i \in 1..Len(s) PROVE ~s[i].header
    BY DEF Leftover
  <2> DEFINE j == (m + i) - 1
  <2>1. j \in 1..l /\ j + 1 = m + i
    BY <1>2, <1>3, <1>8
  <2>2. ~t[j + 1].header
    <3> HIDE DEF j
    <3>1. t[j + 1] = [header |-> FALSE, element |-> command[j]]
      BY <1>9, <2>1
    <3> QED
      BY <3>1
  <2> QED
    BY <1>2, <2>1, <2>2
<1>14. C!Rest(b) = <<>>
  <2>1. C!Rest(b) = SubSeq(b, l + 2, m)
    BY <1>10 DEF C!Rest
  <2>2. m < l + 2
    BY <1>2, <1>6, <1>11
  <2> QED
    BY <1>2, <1>6, <2>1, <2>2, SubSeqEmpty
<1>15. command[2] \notin torn => m = l + 1
  <2>1. Len(s) \notin 1..(l - 1) => Len(s) = 0
    BY <1>2, <1>3, <1>6, <1>8
  <2> QED
    BY <1>2, <1>5, <1>8, <2>1 DEF Pending
<1> HIDE DEF b, s, m, l, e
<1>16. e[1] = command[1] /\ e[2] \in {command[2], None}
  <2>1. 1 \in 1..l /\ 2 \in 1..l /\ 1 < m
    BY <1>2, <1>3, <1>6
  <2> QED
    BY <1>12, <2>1
<1>17. command[1] = "SET" => e[3] \in {command[3], None}
  BY <1>6, <1>12
<1>18. command[2] \notin torn => e[2] = command[2] /\ (command[1] = "SET" => e[3] = command[3])
  BY <1>6, <1>12, <1>15
<1> QED
  BY <1>5, <1>13, <1>14, <1>16, <1>17, <1>18 DEF b, s, e

\* A string that is passed over leaves the rest as it was.
LEMMA StringPassed ==
    ASSUME CacheInv, ~C!Waits(unparsed), ~Head(unparsed).header
    PROVE  /\ Tail(unparsed) \in Seq(C!Token)
           /\ Leftover(unparsed \o stream) => Leftover(Tail(unparsed) \o stream)
           /\ \A cmd \in C!Commands :
                 EndsWith(unparsed \o stream, cmd) => EndsWith(Tail(unparsed) \o stream, cmd)
<1> DEFINE b == unparsed
           s == stream
           t == b \o s
           u == Tail(b) \o s
<1>1. b \in Seq(C!Token) /\ s \in Seq(C!Token)
  BY CacheTypes
<1>2. b # <<>>
  <2>1. CASE b = <<>>
    <3>1. Len(b) = 0
      BY <2>1
    <3> QED
      BY <3>1 DEF C!Waits
  <2> QED
    BY <2>1
<1>3. /\ Tail(b) \in Seq(C!Token) /\ Len(Tail(b)) = Len(b) - 1 /\ Len(b) \in Nat \ {0}
      /\ \A i \in 1..(Len(b) - 1) : Tail(b)[i] = b[i + 1]
      /\ Head(b) = b[1] /\ Len(s) \in Nat
  BY <1>1, <1>2
<1>4. /\ Len(t) = Len(b) + Len(s)
      /\ \A i \in 1..(Len(b) + Len(s)) : t[i] = IF i <= Len(b) THEN b[i] ELSE s[i - Len(b)]
  BY <1>1, ConcatProperties
<1> DEFINE c == Tail(b)
<1>5. /\ Len(u) = Len(c) + Len(s)
      /\ \A i \in 1..(Len(c) + Len(s)) : u[i] = IF i <= Len(c) THEN c[i] ELSE s[i - Len(c)]
  <2>1. c \in Seq(C!Token)
    BY <1>3
  <2> QED
    BY <1>1, <2>1, ConcatProperties
<1> HIDE DEF t, u, c
<1>6. /\ Len(u) = Len(t) - 1 /\ Len(t) \in Nat \ {0}
      /\ \A i \in 1..Len(u) : u[i] = t[i + 1]
      /\ ~t[1].header
  <2>1. /\ c = Tail(b) /\ Len(c) = Len(b) - 1
        /\ \A i \in 1..(Len(b) - 1) : c[i] = b[i + 1]
    BY <1>3 DEF c
  <2>2. Len(u) = Len(t) - 1 /\ Len(t) \in Nat \ {0}
    BY <1>3, <1>4, <1>5, <2>1
  <2>3. ASSUME NEW i \in 1..Len(u) PROVE u[i] = t[i + 1]
    <3>1. /\ i \in 1..(Len(c) + Len(s)) /\ i + 1 \in 1..(Len(b) + Len(s))
          /\ i <= Len(c) <=> i + 1 <= Len(b)
          /\ i <= Len(c) => i \in 1..(Len(b) - 1)
          /\ (i + 1) - Len(b) = i - Len(c)
      BY <1>3, <1>5, <2>1
    <3> QED
      BY <1>4, <1>5, <2>1, <3>1
  <2>4. t[1] = b[1]
    BY <1>3, <1>4
  <2> QED
    BY <1>3, <2>2, <2>3, <2>4
<1>7. Leftover(t) => Leftover(u)
  BY <1>6 DEF Leftover
<1>8. ASSUME NEW cmd \in C!Commands, EndsWith(t, cmd) PROVE EndsWith(u, cmd)
  <2> DEFINE l == Len(cmd)
             n == Len(t) - (l + 1)
             x == C!Encoded(cmd)
  <2>1. /\ n \in Nat
        /\ \A i \in 1..n : ~t[i].header
        /\ \A j \in 1..(l + 1) : t[n + j] = x[j]
    BY <1>8 DEF EndsWith
  <2>2. l \in {2, 3} /\ x[1].header
    <3>1. l \in {2, 3} /\ x[1] = [header |-> TRUE, size |-> l]
      BY <1>8, CommandParts, EncodedParts
    <3> QED
      BY <3>1
  <2> HIDE DEF x
  <2>3. n # 0
    <3>1. CASE n = 0
      <4>1. t[0 + 1] = x[1]
        BY <2>1, <2>2, <3>1
      <4> QED
        BY <1>6, <2>2, <4>1
    <3> QED
      BY <3>1
  <2>4. Len(u) - (l + 1) = n - 1 /\ n - 1 \in Nat
    BY <1>6, <2>1, <2>2, <2>3
  <2>5. \A i \in 1..(n - 1) : ~u[i].header
    <3> SUFFICES ASSUME NEW i \in 1..(n - 1) PROVE ~u[i].header
      OBVIOUS
    <3>1. i \in 1..Len(u) /\ i + 1 \in 1..n
      BY <1>6, <2>1, <2>2, <2>4
    <3> QED
      BY <1>6, <2>1, <3>1
  <2>6. \A j \in 1..(l + 1) : u[(n - 1) + j] = x[j]
    <3> SUFFICES ASSUME NEW j \in 1..(l + 1) PROVE u[(n - 1) + j] = x[j]
      OBVIOUS
    <3>1. (n - 1) + j \in 1..Len(u) /\ ((n - 1) + j) + 1 = n + j
      BY <1>6, <2>1, <2>2, <2>4
    <3> QED
      BY <1>6, <2>1, <3>1
  <2> QED
    BY <2>4, <2>5, <2>6 DEF EndsWith, x
<1> QED
  BY <1>3, <1>7, <1>8 DEF t, u, c

\* One round of the parser: nothing, a string passed over, or a command executed.
LEMMA ServeStep ==
    ASSUME CacheInv, C!ServeNext
    PROVE  CacheInv'
<1>1. /\ ~C!Waits(unparsed) /\ unparsed' = C!Rest(unparsed)
      /\ UNCHANGED <<command, sent, stream, acked, torn>>
  BY DEF C!ServeNext
<1>2. CASE ~Head(unparsed).header
  <2>1. UNCHANGED <<store, replies>> /\ unparsed' = Tail(unparsed)
    BY <1>1, <1>2 DEF C!ServeNext, C!Rest
  <2>2. unparsed' \in Seq(C!Token)
    BY <1>1, <1>2, <2>1, StringPassed
  <2>3. C!TypeOK'
    BY <1>1, <2>1, <2>2, CacheTypes DEF C!TypeOK
  <2>4. ASSUME Pending PROVE Pending'
    <3>1. command \in C!Commands
      BY <2>4, CacheTypes DEF Pending
    <3>2. EndsWith(Tail(unparsed) \o stream, command)
      BY <1>1, <1>2, <2>4, <3>1, StringPassed DEF Pending
    <3>3. (unparsed \o stream)' = Tail(unparsed) \o stream
      BY <1>1, <2>1
    <3> QED
      BY <1>1, <2>1, <2>4, <3>2, <3>3 DEF Pending
  <2>5. ASSUME Served PROVE Served'
    <3>1. Leftover(Tail(unparsed) \o stream)
      BY <1>1, <1>2, <2>5, StringPassed DEF Served
    <3>2. (unparsed \o stream)' = Tail(unparsed) \o stream
      BY <1>1, <2>1
    <3> QED
      BY <1>1, <2>1, <2>5, <3>1, <3>2 DEF Served
  <2>6. Agreed'
    BY <1>1, <2>1 DEF CacheInv, Agreed
  <2> QED
    BY <2>3, <2>4, <2>5, <2>6 DEF CacheInv
<1>3. CASE Head(unparsed).header
  <2> DEFINE e == C!Elements(unparsed)
             one == command[1]
             two == command[2]
             three == command[3]
  <2>1. /\ Pending /\ Leftover(stream) /\ unparsed' = <<>>
        /\ e[1] = one /\ e[2] \in {two, None}
        /\ one = "SET" => e[3] \in {three, None}
        /\ two \notin torn => e[2] = two /\ (one = "SET" => e[3] = three)
    BY <1>1, <1>3, ListServed
  <2>2. C!Execute(e)
    BY <1>3 DEF C!ServeNext
  <2>3. /\ replies = <<>> /\ command # <<>> /\ command \in C!Commands
        /\ one \in {"SET", "GET", "DEL"} /\ two \in Keys
        /\ one = "SET" => three \in Values
    BY <2>1, CacheTypes, CommandParts DEF Pending
  <2> DEFINE two1 == e[2]
             three1 == e[3]
  <2>4. /\ two1 \in Keys \cup {None}
        /\ one = "SET" => three1 \in Values \cup {None}
    BY <2>1, <2>3
  <2>5. /\ one = "SET" => store' = [store EXCEPT ![two1] = three1] /\ replies' = <<"OK">>
        /\ one = "GET" => store' = store /\ replies' = <<store[two1]>>
        /\ one = "DEL" => store' = [store EXCEPT ![two1] = None] /\ replies' = <<"OK">>
    BY <2>1, <2>2, <2>3 DEF C!Execute
  <2>6. /\ store \in [Keys \cup {None} -> Values \cup {None}]
        /\ None \notin Keys
    BY CacheTypes
  <2> HIDE DEF e, one, two, three, two1, three1
  <2>7. /\ store' \in [Keys \cup {None} -> Values \cup {None}]
        /\ \A k \in Keys \ {two1} : store'[k] = store[k]
    BY <2>3, <2>4, <2>5, <2>6
  <2>8. /\ replies' \in Seq(Values \cup {None, "OK"}) /\ Len(replies') = 1
        /\ one = "GET" => replies'[1] = store[two1] /\ store[two1] \in Values \cup {None}
        /\ one # "GET" => replies'[1] = "OK"
    <3>1. CASE one = "GET"
      <4>1. store[two1] \in Values \cup {None}
        BY <2>4, <2>6
      <4> DEFINE v == store[two1]
      <4>2. replies' = <<v>>
        BY <2>5, <3>1
      <4> HIDE DEF v
      <4>3. replies' \in Seq(Values \cup {None, "OK"}) /\ Len(replies') = 1 /\ replies'[1] = v
        BY <4>1, <4>2 DEF v
      <4> QED
        BY <3>1, <4>1, <4>3 DEF v
    <3>2. CASE one # "GET"
      <4>1. replies' = <<"OK">>
        BY <2>3, <2>5, <3>2
      <4> QED
        BY <3>2, <4>1
    <3> QED
      BY <3>1, <3>2
  <2>9. C!TypeOK'
    <3>1. unparsed' \in Seq(C!Token)
      BY <2>1
    <3> QED
      BY <1>1, <2>7, <2>8, <3>1, CacheTypes DEF C!TypeOK
  <2>10. two \notin torn => store'[two] = C!Learned(command, replies'[1], acked[two])
    <3> SUFFICES ASSUME two \notin torn
                 PROVE  store'[two] = C!Learned(command, replies'[1], acked[two])
      OBVIOUS
    <3>1. two1 = two /\ (one = "SET" => three1 = three)
      BY <2>1 DEF two1, three1
    <3>2. CASE one = "SET"
      <4>1. store'[two] = three /\ replies'[1] = "OK"
        BY <2>3, <2>5, <2>6, <2>8, <3>1, <3>2
      <4> QED
        BY <3>2, <4>1 DEF C!Learned, one, three
    <3>3. CASE one = "GET"
      <4>1. store'[two] = replies'[1]
        BY <2>5, <2>8, <3>1, <3>3
      <4> QED
        BY <3>3, <4>1 DEF C!Learned, one
    <3>4. CASE one = "DEL"
      <4>1. store'[two] = None
        BY <2>3, <2>5, <2>6, <3>1, <3>4
      <4> QED
        BY <3>4, <4>1 DEF C!Learned, one
    <3> QED
      BY <2>3, <3>2, <3>3, <3>4
  <2>11. Served'
    <3>1. unparsed' \o stream' = stream
      <4>1. stream \in Seq(C!Token) /\ stream' = stream
        BY <1>1, CacheTypes
      <4> QED
        BY <2>1, <4>1, ConcatEmptySeq
    <3>2. command' = command /\ acked' = acked /\ torn' = torn
      BY <1>1
    <3> QED
      BY <2>1, <2>3, <2>8, <2>10, <3>1, <3>2 DEF Served, one, two
  <2>12. Agreed'
    <3> SUFFICES ASSUME NEW k \in Keys \ torn, k # two
                 PROVE  store'[k] = acked[k]
      BY <1>1, <2>3 DEF Agreed, two
    <3>1. k # two1
      BY <2>1, <2>6 DEF two1
    <3>2. store[k] = acked[k]
      BY DEF CacheInv, Agreed, two
    <3> QED
      BY <2>7, <3>1, <3>2
  <2> QED
    BY <2>9, <2>11, <2>12 DEF CacheInv
<1> QED
  BY <1>2, <1>3

\* Nothing outside the cache's part touches the connection.
LEMMA CacheSteps ==
    ASSUME CacheInv, [PartsNext]_<<part, vars, gateway, cache>>
    PROVE  CacheInv'
<1>1. ASSUME UNCHANGED cache PROVE CacheInv'
  <2>1. UNCHANGED <<command, sent, stream, unparsed, store, replies, acked, torn>>
    BY <1>1 DEF cache
  <2> QED
    BY <2>1 DEF CacheInv, C!TypeOK, Pending, Served, Agreed
<1>2. CASE C!Next
  <2>1. ASSUME NEW cmd \in C!Commands, C!SendCommand(cmd) PROVE CacheInv'
    BY <2>1, SendStep
  <2> QED
    BY <1>2, <2>1, ReturnStep, ReadStep, ServeStep DEF C!Next
<1> QED
  BY <1>1, <1>2 DEF PartsNext

LEMMA CacheAlways == PartsSpec => []CacheInv
<1>1. PartsInit => CacheInv
  BY CacheInit DEF PartsInit
<1>2. CacheInv /\ [PartsNext]_<<part, vars, gateway, cache>> => CacheInv'
  BY CacheSteps
<1> QED
  BY <1>1, <1>2, PTL DEF PartsSpec

\* Between two calls the cache stores what the client was told, of every key whose last
\* command was not cut after its first element (cache_manager.py:66-74,
\* lru_cache.py:118-158).
THEOREM AcknowledgedAreStored == PartsSpec => []AcknowledgedIsStored
<1>1. CacheInv => AcknowledgedIsStored
  <2> SUFFICES ASSUME CacheInv, command = <<>>, NEW k \in Keys \ torn
               PROVE  store[k] = acked[k]
    BY DEF AcknowledgedIsStored, C!AcknowledgedIsStored
  <2> QED
    BY DEF CacheInv, Agreed
<1> QED
  BY <1>1, CacheAlways, PTL

-----------------------------------------------------------------------------
(* The gateway: the invariant                                              *)

InPool(c) == \E i \in 1..Len(pool) : pool[i] = c

Owned(c) ==
    \/ InPool(c)
    \/ \E r \in Requests : pc[r] \in G!InUse /\ using[r] = c

\* The pool holds a connection once, and no thread uses it or another thread's.  What
\* is owned is open, but for what a thread has closed whose client had gone; what is
\* open is owned.
Owners ==
    /\ \A i, j \in 1..Len(pool) : pool[i] = pool[j] => i = j
    /\ \A r, s \in Requests :
          pc[r] \in G!InUse /\ pc[s] \in G!InUse /\ using[r] = using[s] => r = s
    /\ \A r \in Requests : pc[r] \in G!InUse => ~InPool(using[r])
    /\ \A r \in Requests : pc[r] \in G!InUse \cup {"answering"} =>
          using[r] \in G!Connection /\ conn[using[r]] # "unused"
    /\ \A c \in G!Connection :
          /\ Owned(c) => conn[c] # "unused" /\ (gone = 0 => conn[c] = "open")
          /\ conn[c] = "open" => Owned(c)

\* The connections made after the first ones, and the threads that may have made them.
Extra == {c \in (InitialSize + 1)..(InitialSize + Cardinality(Requests)) : conn[c] # "unused"}
Past  == {r \in Requests : pc[r] \notin {"new", "getting"}}

\* There is a number left for each thread that may still ask for a connection.
Spare ==
    /\ \A c \in 1..InitialSize : conn[c] # "unused"
    /\ Cardinality(Extra) <= Cardinality(Past)

\* Nothing has gone over a connection that was not made.
Fresh == \A c \in G!Connection : conn[c] = "unused" => acks[c] = 0 /\ wire[c] = <<>>

\* Where no body came in two pieces every piece is a line, and no part of one is kept.
Short ==
    \A c \in G!Connection : c \notin long =>
        /\ buffer[c] = <<>>
        /\ \A i \in 1..Len(wire[c]) : wire[c][i].part = "all"

\* There, nothing is left over for a thread that takes the connection: a thread that
\* waits has its own body or the reply to it before it, and nothing else.
Idle ==
    \A c \in G!Connection : c \notin long /\ peer[c] = "up" =>
        /\ InPool(c) => acks[c] = 0 /\ wire[c] = <<>>
        /\ \A r \in Requests : using[r] = c =>
              /\ pc[r] \in {"sending", "releasing"} => acks[c] = 0 /\ wire[c] = <<>>
              /\ pc[r] = "waiting" => acks[c] + Len(wire[c]) <= 1

\* What the thread of a task waits for is on its way, or its fate is settled; once it
\* has received something its fate is settled.
Truth ==
    \A r \in G!Tasks :
        /\ answer[r] = "202" => pc[r] = "done"
        /\ using[r] \notin long =>
              /\ pc[r] = "waiting" =>
                    \/ r \in G!Settled
                    \/ /\ peer[using[r]] = "up" /\ acks[using[r]] = 0
                       /\ r \in G!Carried(wire[using[r]])
              /\ pc[r] \in {"releasing", "answering"} \/ answer[r] = "202" => r \in G!Settled

OwnershipInv == G!TypeOK /\ Owners /\ Spare
GatewayInv == OwnershipInv /\ Fresh /\ Short /\ Idle /\ Truth

-----------------------------------------------------------------------------
(* The gateway: types                                                      *)

\* A nonempty set of numbers has a least element.
LEMMA LeastNumber ==
    ASSUME NEW T \in SUBSET Nat, T # {}
    PROVE  \E m \in T : \A n \in T : m <= n
<1>1. PICK m \in T : \A n \in T : ~(<<n, m>> \in OpToRel(<, Nat))
  BY NatLessThanWellFounded, WFMin
<1>2. \A n \in T : ~(n < m)
  BY <1>1 DEF OpToRel
<1> QED
  BY <1>2

\* The instance of Gateway brings its own names for these.
LEMMA SameCounts ==
    ASSUME NEW S
    PROVE  (G!IsFiniteSet(S) <=> IsFiniteSet(S)) /\ G!Cardinality(S) = Cardinality(S)
BY DEF G!IsFiniteSet, IsFiniteSet, G!Cardinality, Cardinality

\* G!TypeOK, conjunct by conjunct, with the assumptions on the constants.
LEMMA GatewayTypes ==
    ASSUME G!TypeOK
    PROVE  /\ up \in BOOLEAN
           /\ pool \in Seq(G!Connection) /\ Len(pool) \in Nat /\ Len(pool) <= MaxSize
           /\ conn \in [G!Connection -> {"unused", "open", "closed"}]
           /\ peer \in [G!Connection -> {"up", "fin", "rst"}]
           /\ wire \in [G!Connection -> Seq(G!Piece)]
           /\ buffer \in [G!Connection -> Seq(G!Piece)]
           /\ acks \in [G!Connection -> Nat]
           /\ pc \in [Requests -> {"sending", "waiting", "releasing", "new", "getting",
                                   "answering", "done"}]
           /\ using \in [Requests -> G!Connection \cup {NoConnection}]
           /\ answer \in [Requests -> {"none", "rejected", "202", "500", "503"}]
           /\ published \subseteq G!Tasks /\ dropped \subseteq G!Tasks
           /\ lost \subseteq Requests /\ long \subseteq G!Connection
           /\ ends \in Nat /\ gone \in Nat
           /\ IsFiniteSet(dropped) /\ Cardinality(dropped) \in Nat
           /\ ends + gone + Cardinality(dropped) <= MaxTroubles
           /\ IsFiniteSet(Requests) /\ Cardinality(Requests) \in Nat
           /\ InitialSize \in Nat /\ MaxSize \in Nat /\ MaxTroubles \in Nat
           /\ G!Connection \subseteq Nat /\ G!Tasks \subseteq Requests
           /\ InitialSize <= MaxSize /\ Long \subseteq Requests
<1>1. /\ IsFiniteSet(Requests) /\ InitialSize \in Nat /\ MaxSize \in Nat /\ MaxTroubles \in Nat
      /\ InitialSize <= MaxSize /\ Long \subseteq Requests
  BY PartAssumptions, SameCounts DEF G!Assumptions
<1>2. G!Connection \subseteq Nat
  BY DEF G!Connection
<1>3. G!Tasks \subseteq Requests
  BY DEF G!Tasks
<1>4. Cardinality(Requests) \in Nat
  BY <1>1, FS_CardinalityType
<1>5. IsFiniteSet(dropped) /\ Cardinality(dropped) \in Nat
  <2>1. dropped \in SUBSET Requests
    BY <1>3 DEF G!TypeOK
  <2> QED
    BY <1>1, <2>1, FS_Subset, FS_CardinalityType
<1>6. pool \in Seq(G!Connection) /\ Len(pool) \in Nat /\ Len(pool) <= MaxSize
  BY DEF G!TypeOK
<1>7. ends + gone + Cardinality(dropped) <= MaxTroubles
  BY SameCounts DEF G!TypeOK, G!Troubles
<1>8. pc \in [Requests -> {"sending", "waiting", "releasing", "new", "getting",
                          "answering", "done"}]
  BY DEF G!TypeOK, G!InUse
<1> QED
  BY <1>1, <1>2, <1>3, <1>4, <1>5, <1>6, <1>7, <1>8 DEF G!TypeOK

\* TypeOK, conjunct by conjunct, for the state after a step.
LEMMA TypesNext ==
    ASSUME up' \in BOOLEAN,
           pool' \in Seq(G!Connection), Len(pool') <= MaxSize,
           conn' \in [G!Connection -> {"unused", "open", "closed"}],
           peer' \in [G!Connection -> {"up", "fin", "rst"}],
           wire' \in [G!Connection -> Seq(G!Piece)],
           buffer' \in [G!Connection -> Seq(G!Piece)],
           acks' \in [G!Connection -> Nat],
           pc' \in [Requests -> {"sending", "waiting", "releasing", "new", "getting",
                                 "answering", "done"}],
           using' \in [Requests -> G!Connection \cup {NoConnection}],
           answer' \in [Requests -> {"none", "rejected", "202", "500", "503"}],
           published' \subseteq G!Tasks, dropped' \subseteq G!Tasks,
           lost' \subseteq Requests, long' \subseteq G!Connection,
           ends' \in Nat, gone' \in Nat,
           ends' + gone' + Cardinality(dropped') <= MaxTroubles
    PROVE  G!TypeOK'
<1>1. Len(pool)' <= MaxSize /\ G!Troubles' <= MaxTroubles
  BY SameCounts DEF G!Troubles
<1>2. pc' \in [Requests -> G!InUse \cup {"new", "getting", "answering", "done"}]
  BY DEF G!InUse
<1> QED
  BY <1>1, <1>2 DEF G!TypeOK

\* What closing a connection does.
LEMMA CloseTypes ==
    ASSUME G!TypeOK, NEW c \in G!Connection, G!Close(c)
    PROVE  /\ conn' = [conn EXCEPT ![c] = "closed"]
           /\ conn' \in [G!Connection -> {"unused", "open", "closed"}]
           /\ wire' \in [G!Connection -> Seq(G!Piece)]
           /\ lost \subseteq lost' /\ lost' \subseteq Requests
           /\ \A d \in G!Connection : d # c => wire'[d] = wire[d]
           /\ wire'[c] = wire[c] \/ wire'[c] = <<>>
           /\ \A r \in G!Carried(wire[c]) : r \in G!Carried(wire'[c]) \cup lost'
<1>1. /\ conn \in [G!Connection -> {"unused", "open", "closed"}]
      /\ wire \in [G!Connection -> Seq(G!Piece)] /\ lost \subseteq Requests
  BY GatewayTypes
<1>2. G!Carried(wire[c]) \subseteq Requests
  <2>1. wire[c] \in Seq(G!Piece)
    BY <1>1
  <2>2. \A i \in 1..Len(wire[c]) : wire[c][i] \in G!Piece
    BY <2>1, ElementOfSeq
  <2> QED
    BY <2>2 DEF G!Carried, G!Piece
<1>3. conn' = [conn EXCEPT ![c] = "closed"]
  BY DEF G!Close
<1>4. CASE wire' = wire /\ lost' = lost
  BY <1>1, <1>3, <1>4
<1>5. CASE wire' = [wire EXCEPT ![c] = <<>>] /\ lost' = lost \cup G!Carried(wire[c])
  <2>1. wire' \in [G!Connection -> Seq(G!Piece)]
    <3>1. <<>> \in Seq(G!Piece)
      OBVIOUS
    <3> QED
      BY <1>1, <1>5, <3>1
  <2>2. wire'[c] = <<>> /\ \A d \in G!Connection : d # c => wire'[d] = wire[d]
    BY <1>1, <1>5
  <2> QED
    BY <1>1, <1>2, <1>3, <1>5, <2>1, <2>2
<1> QED
  BY <1>4, <1>5 DEF G!Close

\* The pieces a read has before it.
LEMMA ReadTypes ==
    ASSUME G!TypeOK, NEW c \in G!Connection, NEW n \in 1..Len(wire[c])
    PROVE  /\ wire[c] \in Seq(G!Piece) /\ buffer[c] \in Seq(G!Piece)
           /\ SubSeq(wire[c], 1, n) \in Seq(G!Piece)
           /\ Len(SubSeq(wire[c], 1, n)) = n
           /\ SubSeq(wire[c], n + 1, Len(wire[c])) \in Seq(G!Piece)
           /\ buffer[c] \o SubSeq(wire[c], 1, n) \in Seq(G!Piece)
           /\ Len(buffer[c] \o SubSeq(wire[c], 1, n)) = Len(buffer[c]) + n
           /\ Len(buffer[c]) \in Nat /\ n \in Nat \ {0}
<1> DEFINE w == wire[c]
           b == buffer[c]
           h == SubSeq(w, 1, n)
           t == SubSeq(w, n + 1, Len(w))
<1>1. w \in Seq(G!Piece) /\ b \in Seq(G!Piece)
  BY GatewayTypes
<1> HIDE DEF w, b
<1>2. Len(w) \in Nat /\ n \in 1..Len(w) /\ \A i \in 1..Len(w) : w[i] \in G!Piece
  BY <1>1, ElementOfSeq DEF w
<1>3. h \in Seq(G!Piece) /\ Len(h) = n
  <2>1. 1 \in Int /\ n \in Int /\ \A i \in 1..n : w[i] \in G!Piece
    BY <1>2
  <2> QED
    BY <1>2, <2>1, SubSeqProperties
<1>4. t \in Seq(G!Piece)
  <2>1. n + 1 \in Int /\ Len(w) \in Int /\ \A i \in (n + 1)..Len(w) : w[i] \in G!Piece
    BY <1>2
  <2> QED
    BY <2>1, SubSeqProperties
<1> HIDE DEF h, t
<1>5. b \o h \in Seq(G!Piece) /\ Len(b \o h) = Len(b) + Len(h) /\ Len(b) \in Nat
  BY <1>1, <1>3, ConcatProperties, LenProperties
<1> QED
  BY <1>1, <1>2, <1>3, <1>4, <1>5 DEF w, b, h, t

\* The requests of pieces are requests.
LEMMA CarriedTypes ==
    ASSUME NEW s \in Seq(G!Piece)
    PROVE  G!Carried(s) \subseteq Requests
<1>1. \A i \in 1..Len(s) : s[i] \in G!Piece
  BY ElementOfSeq
<1> QED
  BY <1>1 DEF G!Carried, G!Piece

\* What follows other pieces is carried with them.
LEMMA CarriedBehind ==
    ASSUME NEW a \in Seq(G!Piece), NEW b \in Seq(G!Piece), NEW s \in G!Carried(b)
    PROVE  s \in G!Carried(a \o b)
<1>1. PICK i \in 1..Len(b) : b[i].req = s
  BY DEF G!Carried
<1>2. Len(a) \in Nat /\ Len(b) \in Nat
  OBVIOUS
<1>3. i \in Int /\ 1 <= i /\ i <= Len(b)
  BY <1>2
<1>4. Len(a \o b) = Len(a) + Len(b)
  OBVIOUS
<1>5. (a \o b)[Len(a) + i] = b[i]
  BY <1>2, <1>3, ConcatProperties
<1>6. Len(a) + i \in 1..Len(a \o b)
  BY <1>2, <1>3, <1>4
<1> QED
  BY <1>1, <1>5, <1>6 DEF G!Carried

\* Of the first pieces every task that is whole has its fate.
LEMMA PublishTypes ==
    ASSUME G!TypeOK, NEW text, NEW n \in Nat, G!Publish(text, n)
    PROVE  /\ published \subseteq published' /\ published' \subseteq G!Tasks
           /\ dropped \subseteq dropped' /\ dropped' \subseteq G!Tasks
           /\ ends + gone + Cardinality(dropped') <= MaxTroubles
           /\ \A i \in 1..n : G!Whole(text, i) /\ text[i].req \in G!Tasks =>
                 text[i].req \in published' \cup dropped'
<1> DEFINE tasks == {text[i].req : i \in {j \in 1..n : G!Whole(text, j)}} \cap G!Tasks
<1>1. PICK d \in SUBSET tasks : /\ Cardinality(d) <= MaxTroubles - G!Troubles
                               /\ dropped' = dropped \cup d
                               /\ published' = published \cup (tasks \ d)
  BY SameCounts DEF G!Publish
<1>2. \A i \in 1..n : G!Whole(text, i) /\ text[i].req \in G!Tasks => text[i].req \in tasks
  OBVIOUS
<1>3. tasks \subseteq G!Tasks
  OBVIOUS
<1> HIDE DEF tasks
<1>4. ends + gone + Cardinality(dropped') <= MaxTroubles
  <2>1. d \in SUBSET Requests /\ IsFiniteSet(Requests) /\ IsFiniteSet(dropped)
    BY <1>3, GatewayTypes
  <2>2. IsFiniteSet(d) /\ Cardinality(d) \in Nat
    BY <2>1, FS_Subset, FS_CardinalityType
  <2>3. /\ Cardinality(dropped \cup d) =
              Cardinality(dropped) + Cardinality(d) - Cardinality(dropped \cap d)
        /\ Cardinality(dropped \cap d) \in Nat
    BY <2>1, <2>2, FS_Union, FS_Intersection, FS_CardinalityType
  <2>4. G!Troubles = ends + gone + Cardinality(dropped)
    BY SameCounts DEF G!Troubles
  <2>5. /\ ends \in Nat /\ gone \in Nat /\ MaxTroubles \in Nat
        /\ Cardinality(dropped) \in Nat
    BY <2>1, FS_CardinalityType, GatewayTypes
  <2>6. /\ Cardinality(d) <= MaxTroubles - (ends + gone + Cardinality(dropped))
        /\ Cardinality(dropped') <= Cardinality(dropped) + Cardinality(d)
    <3>1. dropped' = dropped \cup d /\ Cardinality(d) <= MaxTroubles - G!Troubles
      BY <1>1
    <3> QED
      BY <2>2, <2>3, <2>4, <2>5, <3>1
  <2>7. Cardinality(dropped') \in Nat
    <3>1. IsFiniteSet(dropped \cup d) /\ dropped' = dropped \cup d
      BY <1>1, <2>1, <2>2, FS_Union
    <3> QED
      BY <3>1, FS_CardinalityType
  <2> QED
    BY <2>2, <2>5, <2>6, <2>7
<1>5. published \subseteq G!Tasks /\ dropped \subseteq G!Tasks
  BY GatewayTypes
<1> QED
  BY <1>1, <1>2, <1>3, <1>4, <1>5

\* A thread that asks for a connection gets a number that was not used.
LEMMA NumberLeft ==
    ASSUME OwnershipInv, NEW r \in Requests, pc[r] = "getting"
    PROVE  \E d \in G!Connection :
              conn[d] = "unused" /\ \A e \in G!Connection : e < d => conn[e] # "unused"
<1> DEFINE n == Cardinality(Requests)
           More == (InitialSize + 1)..(InitialSize + n)
           T == {d \in G!Connection : conn[d] = "unused"}
<1>1. /\ IsFiniteSet(Requests) /\ n \in Nat /\ InitialSize \in Nat
      /\ G!Connection \subseteq Nat
  BY GatewayTypes DEF OwnershipInv
<1>2. IsFiniteSet(More) /\ Cardinality(More) = n
  <2>1. InitialSize + 1 \in Int /\ InitialSize + n \in Int
    BY <1>1
  <2> HIDE DEF n
  <2>2. Cardinality(More) = IF InitialSize + 1 > InitialSize + n THEN 0
                            ELSE (InitialSize + n) - (InitialSize + 1) + 1
    BY <2>1, FS_Interval
  <2>3. IsFiniteSet(More)
    BY <2>1, FS_Interval
  <2> QED
    BY <1>1, <2>2, <2>3
<1>3. Cardinality(Past) < n
  <2>1. Past \in SUBSET Requests /\ Past # Requests
    BY DEF Past
  <2>2. Cardinality(Past) <= n /\ Cardinality(Past) # n /\ Cardinality(Past) \in Nat
    BY <1>1, <2>1, FS_Subset, FS_CardinalityType
  <2> QED
    BY <1>1, <2>2
<1>4. Extra # More
  <2>1. Cardinality(Extra) <= Cardinality(Past)
    BY DEF OwnershipInv, Spare
  <2>2. Extra \in SUBSET More
    BY DEF Extra
  <2>3. Cardinality(Extra) \in Nat /\ Cardinality(Past) \in Nat
    <3>1. Past \in SUBSET Requests
      BY DEF Past
    <3> QED
      BY <1>1, <1>2, <2>2, <3>1, FS_Subset, FS_CardinalityType
  <2> HIDE DEF More, n
  <2> QED
    BY <1>1, <1>2, <1>3, <2>1, <2>3
<1>5. T \in SUBSET Nat /\ T # {}
  <2>1. PICK d \in More : conn[d] = "unused"
    BY <1>4 DEF Extra
  <2>2. d \in G!Connection
    BY <1>1, <2>1, SameCounts DEF G!Connection
  <2> QED
    BY <1>1, <2>1, <2>2
<1>6. PICK m \in T : \A d \in T : m <= d
  BY <1>5, LeastNumber
<1>7. \A e \in G!Connection : e < m => conn[e] # "unused"
  BY <1>1, <1>5, <1>6
<1> QED
  BY <1>6, <1>7

\* What opening a connection does.
LEMMA OpenParts ==
    ASSUME OwnershipInv, NEW r \in Requests, G!OpenNew(r)
    PROVE  \E c \in G!Connection :
              /\ conn[c] = "unused"
              /\ conn' = [conn EXCEPT ![c] = "open"]
              /\ using' = [using EXCEPT ![r] = c]
              /\ pc' = [pc EXCEPT ![r] = "sending"]
              /\ UNCHANGED <<up, peer, wire, buffer, published, dropped, ends, pool, acks,
                             lost, long, gone, answer>>
<1> DEFINE P(d) == conn[d] = "unused" /\ \A e \in G!Connection : e < d => conn[e] # "unused"
           c == CHOOSE d \in G!Connection : P(d)
<1>1. \E d \in G!Connection : P(d)
  BY NumberLeft DEF G!OpenNew
<1>2. c \in G!Connection /\ P(c)
  <2> HIDE DEF P
  <2> QED
    BY <1>1
<1>3. /\ conn' = [conn EXCEPT ![c] = "open"]
      /\ using' = [using EXCEPT ![r] = c]
      /\ pc' = [pc EXCEPT ![r] = "sending"]
      /\ UNCHANGED <<up, peer, wire, buffer, published, dropped, ends, pool, acks,
                     lost, long, gone, answer>>
  BY DEF G!OpenNew, G!loop
<1> HIDE DEF c
<1> QED
  BY <1>2, <1>3

-----------------------------------------------------------------------------
(* The gateway: the steps, and its types                                   *)

\* The disjuncts of Next.
LEMMA GatewayActions ==
    ASSUME G!Next
    PROVE  \/ \E r \in Requests :
                 \/ G!Arrive(r) \/ G!Unavailable(r)
                 \/ G!TakePooled(r) \/ G!OpenNew(r)
                 \/ G!Send(r) \/ G!SendRaises(r)
                 \/ G!Receive(r) \/ G!ReceiveRaises(r)
                 \/ G!Release(r) \/ G!Answer(r)
           \/ \E c \in G!Connection : G!Read(c) \/ G!ReadRaises(c)
           \/ G!EndCoordinator \/ G!StartCoordinator
BY DEF G!Next, G!Get, G!Proceed

\* The types after a step of a thread that closes nothing.
LEMMA TypesOfThreads ==
    ASSUME OwnershipInv, NEW r \in Requests,
           \/ G!Arrive(r) \/ G!Unavailable(r)
           \/ G!TakePooled(r) \/ G!OpenNew(r)
           \/ G!Send(r)
           \/ G!Receive(r)
    PROVE  G!TypeOK'
<1>0. G!TypeOK
  BY DEF OwnershipInv
<1>1. CASE G!Arrive(r)
  <2>1. UNCHANGED <<G!loop, G!link, using>>
    BY <1>1 DEF G!Arrive
  <2>2. /\ pc' \in [Requests -> {"sending", "waiting", "releasing", "new", "getting",
                                 "answering", "done"}]
        /\ answer' \in [Requests -> {"none", "rejected", "202", "500", "503"}]
    BY <1>0, <1>1, GatewayTypes DEF G!Arrive
  <2> QED
    BY <1>0, <2>1, <2>2, GatewayTypes, TypesNext DEF G!loop, G!link
<1>2. CASE G!Unavailable(r)
  <2>1. UNCHANGED <<G!loop, G!link, using>>
    BY <1>2 DEF G!Unavailable
  <2>2. /\ pc' \in [Requests -> {"sending", "waiting", "releasing", "new", "getting",
                                 "answering", "done"}]
        /\ answer' \in [Requests -> {"none", "rejected", "202", "500", "503"}]
    BY <1>0, <1>2, GatewayTypes DEF G!Unavailable
  <2> QED
    BY <1>0, <2>1, <2>2, GatewayTypes, TypesNext DEF G!loop, G!link
<1>3. CASE G!TakePooled(r)
  <2>1. /\ UNCHANGED <<up, peer, wire, buffer, published, dropped, ends, conn, acks,
                       lost, long, gone, answer>>
        /\ pool # <<>> /\ pool' = Tail(pool)
        /\ using' = [using EXCEPT ![r] = Head(pool)]
        /\ pc' = [pc EXCEPT ![r] = "sending"]
    BY <1>3 DEF G!TakePooled, G!loop
  <2>2. pool \in Seq(G!Connection) /\ Len(pool) \in Nat /\ Len(pool) <= MaxSize /\ MaxSize \in Nat
    BY <1>0, GatewayTypes
  <2>3. /\ Tail(pool) \in Seq(G!Connection) /\ Len(Tail(pool)) <= MaxSize
        /\ Head(pool) \in G!Connection
    <3>1. Tail(pool) \in Seq(G!Connection) /\ Len(Tail(pool)) = Len(pool) - 1
      BY <2>1, <2>2, HeadTailProperties
    <3>2. Head(pool) \in G!Connection
      BY <2>1, <2>2, HeadTailProperties
    <3> QED
      BY <2>2, <3>1, <3>2
  <2>4. using' \in [Requests -> G!Connection \cup {NoConnection}]
    BY <1>0, <2>1, <2>3, GatewayTypes
  <2>5. pc' \in [Requests -> {"sending", "waiting", "releasing", "new", "getting",
                              "answering", "done"}]
    BY <1>0, <2>1, GatewayTypes
  <2> QED
    BY <1>0, <2>1, <2>3, <2>4, <2>5, GatewayTypes, TypesNext
<1>4. CASE G!OpenNew(r)
  <2>1. PICK c \in G!Connection :
           /\ conn' = [conn EXCEPT ![c] = "open"]
           /\ using' = [using EXCEPT ![r] = c]
           /\ pc' = [pc EXCEPT ![r] = "sending"]
           /\ UNCHANGED <<up, peer, wire, buffer, published, dropped, ends, pool, acks,
                          lost, long, gone, answer>>
    BY <1>4, OpenParts
  <2>2. using' \in [Requests -> G!Connection \cup {NoConnection}]
    BY <1>0, <2>1, GatewayTypes
  <2>3. pc' \in [Requests -> {"sending", "waiting", "releasing", "new", "getting",
                              "answering", "done"}]
    BY <1>0, <2>1, GatewayTypes
  <2>4. conn' \in [G!Connection -> {"unused", "open", "closed"}]
    BY <1>0, <2>1, GatewayTypes
  <2> QED
    BY <1>0, <2>1, <2>2, <2>3, <2>4, GatewayTypes, TypesNext
<1>5. CASE G!Send(r)
  <2> DEFINE c == using[r]
  <2>1. c \in G!Connection
    BY <1>5 DEF OwnershipInv, Owners, G!Send, G!InUse
  <2>2. /\ pc' = [pc EXCEPT ![r] = "waiting"]
        /\ UNCHANGED <<up, buffer, published, dropped, ends, pool, conn, acks, gone, using, answer>>
    BY <1>5 DEF G!Send
  <2>3. pc' \in [Requests -> {"sending", "waiting", "releasing", "new", "getting",
                              "answering", "done"}]
    BY <1>0, <2>2, GatewayTypes
  <2>4. /\ wire' \in [G!Connection -> Seq(G!Piece)] /\ long' \subseteq G!Connection
        /\ peer' \in [G!Connection -> {"up", "fin", "rst"}] /\ lost' \subseteq Requests
    <3>1. CASE peer[c] = "up"
      <4>1. PICK body \in G!Bodies(r) :
               /\ wire' = [wire EXCEPT ![c] = @ \o body]
               /\ long' = IF Len(body) > 1 THEN long \cup {c} ELSE long
        BY <1>5, <3>1 DEF G!Send
      <4>2. peer' = peer /\ lost' = lost
        BY <1>5, <3>1 DEF G!Send
      <4>3. body \in Seq(G!Piece)
        <5>1. /\ [req |-> r, part |-> "all"] \in G!Piece
              /\ [req |-> r, part |-> "first"] \in G!Piece
              /\ [req |-> r, part |-> "rest"] \in G!Piece
          BY DEF G!Piece
        <5>2. /\ <<[req |-> r, part |-> "all"]>> \in Seq(G!Piece)
              /\ <<[req |-> r, part |-> "first"], [req |-> r, part |-> "rest"]>> \in Seq(G!Piece)
          BY <5>1
        <5> QED
          BY <4>1, <5>2 DEF G!Bodies
      <4>4. wire[c] \o body \in Seq(G!Piece)
        <5>1. wire[c] \in Seq(G!Piece)
          BY <1>0, <2>1, GatewayTypes
        <5> QED
          BY <4>3, <5>1, ConcatProperties
      <4>5. wire' \in [G!Connection -> Seq(G!Piece)]
        <5> HIDE DEF c
        <5>1. wire' = [wire EXCEPT ![c] = wire[c] \o body]
          BY <4>1
        <5> QED
          BY <1>0, <4>4, <5>1, GatewayTypes
      <4>6. long' \subseteq G!Connection
        BY <1>0, <2>1, <4>1, GatewayTypes
      <4> QED
        BY <1>0, <4>2, <4>5, <4>6, GatewayTypes
    <3>2. CASE peer[c] = "fin"
      <4>1. /\ peer' \in {peer, [peer EXCEPT ![c] = "rst"]}
            /\ lost' = lost \cup {r} /\ wire' = wire /\ long' = long
        BY <1>5, <3>2 DEF G!Send
      <4>2. peer' \in [G!Connection -> {"up", "fin", "rst"}]
        BY <1>0, <4>1, GatewayTypes
      <4> QED
        BY <1>0, <4>1, <4>2, GatewayTypes
    <3> QED
      BY <1>5, <3>1, <3>2 DEF G!Send
  <2> QED
    BY <1>0, <2>2, <2>3, <2>4, GatewayTypes, TypesNext
<1>6. CASE G!Receive(r)
  <2> DEFINE c == using[r]
  <2>1. c \in G!Connection
    BY <1>6 DEF OwnershipInv, Owners, G!Receive, G!InUse
  <2>2. /\ pc' = [pc EXCEPT ![r] = "releasing"]
        /\ UNCHANGED <<up, peer, wire, buffer, published, dropped, ends, pool, conn, lost,
                       long, gone, using, answer>>
    BY <1>6 DEF G!Receive, G!loop
  <2>3. pc' \in [Requests -> {"sending", "waiting", "releasing", "new", "getting",
                              "answering", "done"}]
    BY <1>0, <2>2, GatewayTypes
  <2>4. acks' \in [G!Connection -> Nat]
    <3>1. CASE \E n \in 1..acks[c] : acks' = [acks EXCEPT ![c] = @ - n]
      <4>1. PICK n \in 1..acks[c] : acks' = [acks EXCEPT ![c] = acks[c] - n]
        BY <3>1
      <4>2. acks[c] \in Nat
        BY <1>0, <2>1, GatewayTypes
      <4>3. acks[c] - n \in Nat
        BY <4>2
      <4> QED
        BY <1>0, <4>1, <4>3, GatewayTypes
    <3>2. CASE acks' = acks
      BY <1>0, <3>2, GatewayTypes
    <3> QED
      BY <1>6, <3>1, <3>2 DEF G!Receive
  <2> QED
    BY <1>0, <2>2, <2>3, <2>4, GatewayTypes, TypesNext
<1> QED
  BY <1>1, <1>2, <1>3, <1>4, <1>5, <1>6

\* What closing a connection in a failed step does.
LEMMA RaiseParts ==
    ASSUME OwnershipInv, NEW r \in Requests, G!SendRaises(r) \/ G!ReceiveRaises(r)
    PROVE  /\ pc[r] \in {"sending", "waiting"} /\ using[r] \in G!Connection
           /\ G!Close(using[r])
           /\ pc' = [pc EXCEPT ![r] = "done"]
           /\ answer' = [answer EXCEPT ![r] = "500"]
           /\ UNCHANGED <<up, peer, buffer, published, dropped, ends, pool, acks, long,
                          gone, using>>
<1>1. pc[r] \in {"sending", "waiting"} /\ G!Raise(r)
  BY DEF G!SendRaises, G!ReceiveRaises
<1>2. using[r] \in G!Connection
  BY <1>1 DEF OwnershipInv, Owners, G!InUse
<1> QED
  BY <1>1, <1>2 DEF G!Raise

\* What releasing a connection does.
LEMMA ReleaseParts ==
    ASSUME OwnershipInv, NEW r \in Requests, G!Release(r)
    PROVE  /\ pc[r] = "releasing" /\ using[r] \in G!Connection
           /\ pc' = [pc EXCEPT ![r] = "answering"]
           /\ \/ /\ Len(pool) < MaxSize /\ pool' = Append(pool, using[r])
                 /\ UNCHANGED <<conn, wire, lost>>
              \/ G!Close(using[r]) /\ pool' = pool
           /\ UNCHANGED <<up, peer, buffer, published, dropped, ends, acks, long, gone,
                          using, answer>>
<1>1. using[r] \in G!Connection
  BY DEF G!Release, OwnershipInv, Owners, G!InUse
<1> QED
  BY <1>1 DEF G!Release, G!Room

\* What answering a client does.
LEMMA AnswerParts ==
    ASSUME OwnershipInv, NEW r \in Requests, G!Answer(r)
    PROVE  /\ pc[r] = "answering" /\ using[r] \in G!Connection
           /\ pc' = [pc EXCEPT ![r] = "done"]
           /\ \/ /\ answer' = [answer EXCEPT ![r] = "202"]
                 /\ UNCHANGED <<conn, wire, lost, gone>>
              \/ /\ ends + gone + Cardinality(dropped) < MaxTroubles /\ gone' = gone + 1
                 /\ G!Close(using[r]) /\ answer' = answer
           /\ UNCHANGED <<up, pool, peer, buffer, published, dropped, ends, acks, long, using>>
<1>1. using[r] \in G!Connection
  BY DEF G!Answer, OwnershipInv, Owners
<1>2. G!Troubles = ends + gone + Cardinality(dropped)
  BY SameCounts DEF G!Troubles
<1> QED
  BY <1>1, <1>2 DEF G!Answer, G!ReleaseAgain

\* After one that may close its connection.
LEMMA TypesOfReleases ==
    ASSUME OwnershipInv, NEW r \in Requests,
           \/ G!SendRaises(r) \/ G!ReceiveRaises(r)
           \/ G!Release(r) \/ G!Answer(r)
    PROVE  G!TypeOK'
<1>0. G!TypeOK
  BY DEF OwnershipInv
<1>1. CASE G!SendRaises(r) \/ G!ReceiveRaises(r)
  <2>1. /\ using[r] \in G!Connection
        /\ G!Close(using[r])
        /\ pc' = [pc EXCEPT ![r] = "done"]
        /\ answer' = [answer EXCEPT ![r] = "500"]
        /\ UNCHANGED <<up, peer, buffer, published, dropped, ends, pool, acks, long,
                       gone, using>>
    BY <1>1, RaiseParts
  <2>2. /\ conn' \in [G!Connection -> {"unused", "open", "closed"}]
        /\ wire' \in [G!Connection -> Seq(G!Piece)]
        /\ lost' \subseteq Requests
    BY <1>0, <2>1, CloseTypes
  <2>3. /\ pc' \in [Requests -> {"sending", "waiting", "releasing", "new", "getting",
                                 "answering", "done"}]
        /\ answer' \in [Requests -> {"none", "rejected", "202", "500", "503"}]
    BY <1>0, <2>1, GatewayTypes
  <2> QED
    BY <1>0, <2>1, <2>2, <2>3, GatewayTypes, TypesNext
<1>2. CASE G!Release(r)
  <2>1. /\ using[r] \in G!Connection
        /\ pc' = [pc EXCEPT ![r] = "answering"]
        /\ \/ /\ Len(pool) < MaxSize /\ pool' = Append(pool, using[r])
              /\ UNCHANGED <<conn, wire, lost>>
           \/ G!Close(using[r]) /\ pool' = pool
        /\ UNCHANGED <<up, peer, buffer, published, dropped, ends, acks, long, gone,
                       using, answer>>
    BY <1>2, ReleaseParts
  <2>2. pc' \in [Requests -> {"sending", "waiting", "releasing", "new", "getting",
                              "answering", "done"}]
    BY <1>0, <2>1, GatewayTypes
  <2>3. /\ pool' \in Seq(G!Connection) /\ Len(pool') <= MaxSize
        /\ conn' \in [G!Connection -> {"unused", "open", "closed"}]
        /\ wire' \in [G!Connection -> Seq(G!Piece)]
        /\ lost' \subseteq Requests
    <3>1. CASE /\ Len(pool) < MaxSize /\ pool' = Append(pool, using[r])
               /\ UNCHANGED <<conn, wire, lost>>
      <4>1. pool \in Seq(G!Connection) /\ Len(pool) \in Nat /\ MaxSize \in Nat
        BY <1>0, GatewayTypes
      <4>2. pool' \in Seq(G!Connection) /\ Len(pool') = Len(pool) + 1
        <5> DEFINE c == using[r]
        <5>1. c \in G!Connection /\ pool' = Append(pool, c)
          BY <2>1, <3>1
        <5> HIDE DEF c
        <5> QED
          BY <4>1, <5>1, AppendProperties
      <4>3. Len(pool') <= MaxSize
        BY <3>1, <4>1, <4>2
      <4> QED
        BY <1>0, <3>1, <4>2, <4>3, GatewayTypes
    <3>2. CASE G!Close(using[r]) /\ pool' = pool
      <4>1. /\ conn' \in [G!Connection -> {"unused", "open", "closed"}]
            /\ wire' \in [G!Connection -> Seq(G!Piece)]
            /\ lost' \subseteq Requests
        BY <1>0, <2>1, <3>2, CloseTypes
      <4> QED
        BY <1>0, <3>2, <4>1, GatewayTypes
    <3> QED
      BY <2>1, <3>1, <3>2
  <2> QED
    BY <1>0, <2>1, <2>2, <2>3, GatewayTypes, TypesNext
<1>3. CASE G!Answer(r)
  <2>1. /\ using[r] \in G!Connection
        /\ pc' = [pc EXCEPT ![r] = "done"]
        /\ \/ /\ answer' = [answer EXCEPT ![r] = "202"]
              /\ UNCHANGED <<conn, wire, lost, gone>>
           \/ /\ ends + gone + Cardinality(dropped) < MaxTroubles /\ gone' = gone + 1
              /\ G!Close(using[r]) /\ answer' = answer
        /\ UNCHANGED <<up, pool, peer, buffer, published, dropped, ends, acks, long, using>>
    BY <1>3, AnswerParts
  <2>2. pc' \in [Requests -> {"sending", "waiting", "releasing", "new", "getting",
                              "answering", "done"}]
    BY <1>0, <2>1, GatewayTypes
  <2>3. CASE /\ answer' = [answer EXCEPT ![r] = "202"]
             /\ UNCHANGED <<conn, wire, lost, gone>>
    <3>1. answer' \in [Requests -> {"none", "rejected", "202", "500", "503"}]
      BY <1>0, <2>3, GatewayTypes
    <3> QED
      BY <1>0, <2>1, <2>2, <2>3, <3>1, GatewayTypes, TypesNext
  <2>4. CASE /\ ends + gone + Cardinality(dropped) < MaxTroubles /\ gone' = gone + 1
             /\ G!Close(using[r]) /\ answer' = answer
    <3>1. /\ conn' \in [G!Connection -> {"unused", "open", "closed"}]
          /\ wire' \in [G!Connection -> Seq(G!Piece)]
          /\ lost' \subseteq Requests
      BY <1>0, <2>1, <2>4, CloseTypes
    <3>2. ends' + gone' + Cardinality(dropped') <= MaxTroubles /\ gone' \in Nat
      <4>1. ends' = ends /\ dropped' = dropped
        BY <2>1
      <4>2. /\ ends \in Nat /\ gone \in Nat /\ Cardinality(dropped) \in Nat
            /\ MaxTroubles \in Nat
        BY <1>0, GatewayTypes
      <4> QED
        BY <2>4, <4>1, <4>2
    <3> QED
      BY <1>0, <2>1, <2>2, <2>4, <3>1, <3>2, GatewayTypes, TypesNext
  <2> QED
    BY <2>1, <2>3, <2>4
<1> QED
  BY <1>1, <1>2, <1>3

\* After a step of the coordinator's event loop.
LEMMA TypesOfLoop ==
    ASSUME OwnershipInv,
           \/ \E c \in G!Connection : G!Read(c) \/ G!ReadRaises(c)
           \/ G!EndCoordinator \/ G!StartCoordinator
    PROVE  G!TypeOK'
<1>0. G!TypeOK
  BY DEF OwnershipInv
<1>1. ASSUME NEW c \in G!Connection, G!Read(c)
      PROVE  G!TypeOK'
  <2>1. PICK n \in 1..Len(wire[c]) :
           LET text == buffer[c] \o SubSeq(wire[c], 1, n) IN
           /\ G!Publish(text, Len(text))
           /\ buffer' = [buffer EXCEPT ![c] = G!Remainder(text)]
           /\ wire' = [wire EXCEPT ![c] = SubSeq(@, n + 1, Len(@))]
           /\ acks' = [acks EXCEPT ![c] = @ + G!Replies(published' \ published)]
    BY <1>1 DEF G!Read
  <2> DEFINE text == buffer[c] \o SubSeq(wire[c], 1, n)
             tail == SubSeq(wire[c], n + 1, Len(wire[c]))
             last == G!Remainder(text)
             replies1 == acks[c] + 1
  <2>2. /\ text \in Seq(G!Piece) /\ tail \in Seq(G!Piece) /\ Len(text) \in Nat \ {0}
    <3>1. text \in Seq(G!Piece) /\ tail \in Seq(G!Piece) /\ Len(text) = Len(buffer[c]) + n
          /\ Len(buffer[c]) \in Nat /\ n \in Nat \ {0}
      BY <1>0, ReadTypes
    <3> HIDE DEF text
    <3> QED
      BY <3>1
  <2>3. /\ G!Publish(text, Len(text))
        /\ buffer' = [buffer EXCEPT ![c] = last]
        /\ wire' = [wire EXCEPT ![c] = tail]
        /\ acks' = [acks EXCEPT ![c] = replies1]
    BY <2>1 DEF G!Replies
  <2>4. last \in Seq(G!Piece)
    <3> HIDE DEF text
    <3>1. text[Len(text)] \in G!Piece
      BY <2>2, ElementOfSeq
    <3> QED
      BY <3>1 DEF G!Remainder
  <2>5. replies1 \in Nat
    <3>1. acks \in [G!Connection -> Nat]
      BY <1>0, GatewayTypes
    <3>2. acks[c] \in Nat
      BY <3>1
    <3> QED
      BY <3>2
  <2>6. UNCHANGED <<up, peer, ends, pool, conn, lost, long, gone, pc, using, answer>>
    BY <1>1 DEF G!Read, G!thread
  <2> HIDE DEF text, tail, last, replies1
  <2>7. /\ buffer' \in [G!Connection -> Seq(G!Piece)]
        /\ wire' \in [G!Connection -> Seq(G!Piece)]
        /\ acks' \in [G!Connection -> Nat]
    BY <1>0, <2>2, <2>3, <2>4, <2>5, GatewayTypes
  <2>8. /\ published' \subseteq G!Tasks /\ dropped' \subseteq G!Tasks
        /\ ends + gone + Cardinality(dropped') <= MaxTroubles
    BY <1>0, <2>2, <2>3, PublishTypes
  <2> QED
    BY <1>0, <2>6, <2>7, <2>8, GatewayTypes, TypesNext
<1>2. ASSUME NEW c \in G!Connection, G!ReadRaises(c)
      PROVE  G!TypeOK'
  <2>1. PICK n \in 1..Len(wire[c]) :
           LET text == buffer[c] \o SubSeq(wire[c], 1, n) IN
           \E stop \in 1..Len(text) :
              /\ G!Publish(text, stop)
              /\ lost' = lost \cup G!Carried(SubSeq(text, stop + 1, Len(text)))
                              \cup G!Carried(SubSeq(wire[c], n + 1, Len(wire[c])))
              /\ peer' = [peer EXCEPT ![c] = IF n < Len(wire[c]) THEN "rst" ELSE "fin"]
    BY <1>2 DEF G!ReadRaises
  <2> DEFINE text == buffer[c] \o SubSeq(wire[c], 1, n)
             tail == SubSeq(wire[c], n + 1, Len(wire[c]))
  <2>2. PICK stop \in 1..Len(text) :
           /\ G!Publish(text, stop)
           /\ lost' = lost \cup G!Carried(SubSeq(text, stop + 1, Len(text))) \cup G!Carried(tail)
           /\ peer' = [peer EXCEPT ![c] = IF n < Len(wire[c]) THEN "rst" ELSE "fin"]
    BY <2>1
  <2>3. text \in Seq(G!Piece) /\ tail \in Seq(G!Piece)
    BY <1>0, ReadTypes
  <2>4. /\ UNCHANGED <<up, ends, pool, conn, acks, long, gone, pc, using, answer>>
        /\ buffer' = [buffer EXCEPT ![c] = <<>>] /\ wire' = [wire EXCEPT ![c] = <<>>]
    BY <1>2 DEF G!ReadRaises, G!thread
  <2> HIDE DEF text, tail
  <2>5. Len(text) \in Nat /\ stop \in Nat /\ \A i \in 1..Len(text) : text[i] \in G!Piece
    BY <2>3, ElementOfSeq, LenProperties
  <2>6. SubSeq(text, stop + 1, Len(text)) \in Seq(G!Piece)
    <3>1. stop + 1 \in Int /\ \A i \in (stop + 1)..Len(text) : text[i] \in G!Piece
      BY <2>5
    <3> QED
      BY <2>5, <3>1, SubSeqProperties
  <2>7. lost' \subseteq Requests
    <3> DEFINE cut == SubSeq(text, stop + 1, Len(text))
    <3>1. cut \in Seq(G!Piece) /\ lost' = lost \cup G!Carried(cut) \cup G!Carried(tail)
      BY <2>2, <2>6
    <3> HIDE DEF cut
    <3>2. G!Carried(cut) \subseteq Requests /\ G!Carried(tail) \subseteq Requests
      BY <2>3, <3>1, CarriedTypes
    <3> QED
      BY <1>0, <3>1, <3>2, GatewayTypes
  <2>8. /\ published' \subseteq G!Tasks /\ dropped' \subseteq G!Tasks
        /\ ends + gone + Cardinality(dropped') <= MaxTroubles
    BY <1>0, <2>2, <2>5, PublishTypes
  <2>9. peer' \in [G!Connection -> {"up", "fin", "rst"}]
    <3> DEFINE e == IF n < Len(wire[c]) THEN "rst" ELSE "fin"
    <3>1. e \in {"rst", "fin"} /\ peer' = [peer EXCEPT ![c] = e]
      BY <2>2
    <3> HIDE DEF e
    <3> QED
      BY <1>0, <3>1, GatewayTypes
  <2>10. /\ buffer' \in [G!Connection -> Seq(G!Piece)]
         /\ wire' \in [G!Connection -> Seq(G!Piece)]
    <3>1. <<>> \in Seq(G!Piece)
      OBVIOUS
    <3> QED
      BY <1>0, <2>4, <3>1, GatewayTypes
  <2> QED
    BY <1>0, <2>4, <2>7, <2>8, <2>9, <2>10, GatewayTypes, TypesNext
<1>3. CASE G!EndCoordinator
  <2>1. /\ up' = FALSE /\ ends' = ends + 1 /\ G!Troubles < MaxTroubles
        /\ lost' = lost \cup UNION {G!Carried(buffer[c] \o wire[c]) : c \in G!Connection}
        /\ wire' = [c \in G!Connection |-> <<>>]
        /\ buffer' = [c \in G!Connection |-> <<>>]
        /\ UNCHANGED <<pool, conn, acks, published, dropped, long, gone, pc, using, answer>>
    BY <1>3 DEF G!EndCoordinator, G!thread
  <2>2. peer' \in [G!Connection -> {"up", "fin", "rst"}]
    <3> DEFINE e(c) == IF conn[c] = "unused" \/ peer[c] # "up" THEN peer[c]
                       ELSE IF wire[c] = <<>> THEN "fin" ELSE "rst"
    <3>1. \A c \in G!Connection : e(c) \in {"up", "fin", "rst"}
      BY <1>0, GatewayTypes
    <3>2. peer' = [c \in G!Connection |-> e(c)]
      BY <1>3 DEF G!EndCoordinator
    <3> HIDE DEF e
    <3> QED
      BY <3>1, <3>2
  <2>3. lost' \subseteq Requests
    <3>1. ASSUME NEW c \in G!Connection PROVE G!Carried(buffer[c] \o wire[c]) \subseteq Requests
      <4> DEFINE b == buffer[c]
                 w == wire[c]
      <4>1. b \in Seq(G!Piece) /\ w \in Seq(G!Piece)
        BY <1>0, GatewayTypes
      <4> HIDE DEF b, w
      <4>2. b \o w \in Seq(G!Piece)
        BY <4>1, ConcatProperties
      <4> QED
        BY <4>2, CarriedTypes DEF b, w
    <3> QED
      BY <1>0, <2>1, <3>1, GatewayTypes
  <2>4. ends' \in Nat /\ ends' + gone' + Cardinality(dropped') <= MaxTroubles
    <3>1. G!Troubles = ends + gone + Cardinality(dropped)
      BY SameCounts DEF G!Troubles
    <3>2. gone' = gone /\ dropped' = dropped
      BY <2>1
    <3>3. /\ ends \in Nat /\ gone \in Nat /\ Cardinality(dropped) \in Nat
          /\ MaxTroubles \in Nat
      BY <1>0, GatewayTypes
    <3> QED
      BY <2>1, <3>1, <3>2, <3>3
  <2>5. /\ wire' \in [G!Connection -> Seq(G!Piece)] /\ buffer' \in [G!Connection -> Seq(G!Piece)]
    <3>1. <<>> \in Seq(G!Piece)
      OBVIOUS
    <3> QED
      BY <2>1, <3>1
  <2> QED
    BY <1>0, <2>1, <2>2, <2>3, <2>4, <2>5, GatewayTypes, TypesNext
<1>4. CASE G!StartCoordinator
  BY <1>0, <1>4, GatewayTypes, TypesNext DEF G!StartCoordinator, G!link, G!thread
<1> QED
  BY <1>1, <1>2, <1>3, <1>4

-----------------------------------------------------------------------------
(* The gateway: who owns a connection                                      *)

\* The same of the next state.
InPoolNext(c) == \E i \in 1..Len(pool') : pool'[i] = c

OwnedNext(c) ==
    \/ InPoolNext(c)
    \/ \E r \in Requests : pc'[r] \in G!InUse /\ using'[r] = c

\* Owners of the next state, conjunct by conjunct.
LEMMA OwnersNext ==
    ASSUME \A i, j \in 1..Len(pool') : pool'[i] = pool'[j] => i = j,
           \A r, s \in Requests :
              pc'[r] \in G!InUse /\ pc'[s] \in G!InUse /\ using'[r] = using'[s] => r = s,
           \A r \in Requests : pc'[r] \in G!InUse => ~InPoolNext(using'[r]),
           \A r \in Requests : pc'[r] \in G!InUse \cup {"answering"} =>
              using'[r] \in G!Connection /\ conn'[using'[r]] # "unused",
           \A c \in G!Connection :
              /\ OwnedNext(c) => conn'[c] # "unused" /\ (gone' = 0 => conn'[c] = "open")
              /\ conn'[c] = "open" => OwnedNext(c)
    PROVE  Owners'
BY DEF Owners, Owned, OwnedNext, InPool, InPoolNext

\* A step that moves no connection between the pool, the threads and the closed ones.
LEMMA OwnersKept ==
    ASSUME OwnershipInv, UNCHANGED <<pool, conn, using, gone>>,
           \A r \in Requests : pc'[r] \in G!InUse <=> pc[r] \in G!InUse,
           \A r \in Requests : pc'[r] = "answering" => pc[r] = "answering",
           \A r \in Requests : pc[r] \notin {"new", "getting"} => pc'[r] \notin {"new", "getting"}
    PROVE  Owners' /\ Spare'
<1>1. Owners'
  <2>1. \A c : InPoolNext(c) <=> InPool(c)
    BY DEF InPool, InPoolNext
  <2>2. \A c : OwnedNext(c) <=> Owned(c)
    BY <2>1 DEF Owned, OwnedNext
  <2> QED
    BY <2>1, <2>2, OwnersNext DEF OwnershipInv, Owners
<1>2. Spare'
  <2>1. Extra' = Extra
    BY DEF Extra
  <2>2. Past \in SUBSET (Past') /\ Past' \in SUBSET Requests
    BY DEF Past
  <2>3. Cardinality(Past) <= Cardinality(Past') /\ Cardinality(Past) \in Nat /\ Cardinality(Past') \in Nat
    <3>1. IsFiniteSet(Past')
      BY <2>2, GatewayTypes, FS_Subset DEF OwnershipInv
    <3>2. IsFiniteSet(Past) /\ Cardinality(Past) <= Cardinality(Past')
      BY <2>2, <3>1, FS_Subset
    <3> QED
      BY <3>1, <3>2, FS_CardinalityType
  <2>4. Cardinality(Extra) \in Nat /\ Cardinality(Extra) <= Cardinality(Past)
    <3>1. Extra \in SUBSET ((InitialSize + 1)..(InitialSize + Cardinality(Requests)))
      BY DEF Extra
    <3>2. InitialSize + 1 \in Int /\ InitialSize + Cardinality(Requests) \in Int
      BY GatewayTypes DEF OwnershipInv
    <3>3. IsFiniteSet(Extra)
      BY <3>1, <3>2, FS_Interval, FS_Subset
    <3> QED
      BY <3>3, FS_CardinalityType DEF OwnershipInv, Spare
  <2> QED
    BY <2>1, <2>3, <2>4 DEF OwnershipInv, Spare
<1> QED
  BY <1>1, <1>2

\* Spare, when no connection is made and no thread starts over.
LEMMA SpareKept ==
    ASSUME OwnershipInv,
           \A c \in G!Connection : conn'[c] = "unused" <=> conn[c] = "unused",
           \A r \in Requests : pc[r] \notin {"new", "getting"} => pc'[r] \notin {"new", "getting"}
    PROVE  Spare'
<1> DEFINE n == Cardinality(Requests)
<1>1. /\ InitialSize \in Nat /\ n \in Nat /\ IsFiniteSet(Requests)
  BY GatewayTypes DEF OwnershipInv
<1>2. G!Connection = 1..(InitialSize + n)
  BY SameCounts DEF G!Connection
<1> HIDE DEF n
<1>3. \A c \in 1..InitialSize : c \in G!Connection
  BY <1>1, <1>2
<1>4. \A c \in (InitialSize + 1)..(InitialSize + n) : c \in G!Connection
  BY <1>1, <1>2
<1>5. Extra' = Extra
  BY <1>4 DEF Extra, n
<1>6. \A c \in 1..InitialSize : conn'[c] # "unused"
  BY <1>3 DEF OwnershipInv, Spare
<1>7. Past \in SUBSET (Past') /\ Past' \in SUBSET Requests
  BY DEF Past
<1>8. IsFiniteSet(Past')
  BY <1>1, <1>7, FS_Subset
<1>9. IsFiniteSet(Past) /\ Cardinality(Past) <= Cardinality(Past')
  BY <1>7, <1>8, FS_Subset
<1>10. IsFiniteSet(Extra)
  <2>1. Extra \in SUBSET ((InitialSize + 1)..(InitialSize + n))
    BY DEF Extra, n
  <2>2. InitialSize + 1 \in Int /\ InitialSize + n \in Int
    BY <1>1
  <2>3. IsFiniteSet((InitialSize + 1)..(InitialSize + n))
    BY <2>2, FS_Interval
  <2> QED
    BY <2>1, <2>3, FS_Subset
<1>11. /\ Cardinality(Past) \in Nat /\ Cardinality(Past') \in Nat /\ Cardinality(Extra) \in Nat
       /\ Cardinality(Extra) <= Cardinality(Past)
  BY <1>8, <1>9, <1>10, FS_CardinalityType DEF OwnershipInv, Spare
<1> QED
  BY <1>5, <1>6, <1>9, <1>11 DEF Spare

\* The head of the pool goes from the pool to the thread that takes it.
LEMMA OwnersOfTake ==
    ASSUME OwnershipInv, NEW r \in Requests, G!TakePooled(r)
    PROVE  Owners' /\ Spare'
<1> DEFINE h == Head(pool)
<1>1. /\ pc[r] = "getting" /\ pool # <<>> /\ pool' = Tail(pool)
      /\ using' = [using EXCEPT ![r] = h]
      /\ pc' = [pc EXCEPT ![r] = "sending"]
      /\ conn' = conn /\ gone' = gone
  BY DEF G!TakePooled
<1>2. /\ pool \in Seq(G!Connection)
      /\ using \in [Requests -> G!Connection \cup {NoConnection}]
      /\ pc \in [Requests -> {"sending", "waiting", "releasing", "new", "getting",
                              "answering", "done"}]
  BY GatewayTypes DEF OwnershipInv
<1>3. /\ Len(pool) \in Nat \ {0} /\ Len(pool') = Len(pool) - 1
      /\ \A i \in 1..Len(pool') : pool'[i] = pool[i + 1]
      /\ h = pool[1]
  <2>1. Len(pool) \in Nat /\ Len(pool) # 0
    BY <1>1, <1>2, LenProperties, EmptySeq
  <2>2. Len(Tail(pool)) = Len(pool) - 1 /\ \A i \in 1..Len(Tail(pool)) : Tail(pool)[i] = pool[i + 1]
    BY <1>1, <1>2, <2>1
  <2>3. h = pool[1]
    BY <1>1, <1>2
  <2> QED
    BY <1>1, <2>1, <2>2, <2>3
<1> HIDE DEF h
<1>4. h \in G!Connection /\ InPool(h)
  <2>1. 1 \in 1..Len(pool)
    BY <1>3
  <2> QED
    BY <1>2, <1>3, <2>1, ElementOfSeq DEF InPool, InPoolNext
<1>5. /\ pc'[r] = "sending" /\ using'[r] = h
      /\ \A s \in Requests : s # r => pc'[s] = pc[s] /\ using'[s] = using[s]
  BY <1>1, <1>2
<1>6. \A c : InPoolNext(c) <=> InPool(c) /\ c # h
  <2> SUFFICES ASSUME NEW c PROVE (\E i \in 1..Len(pool') : pool'[i] = c) <=> InPool(c) /\ c # h
    BY DEF InPool, InPoolNext
  <2>1. ASSUME NEW i \in 1..Len(pool'), pool'[i] = c PROVE InPool(c) /\ c # h
    <3>1. i + 1 \in 1..Len(pool) /\ 1 \in 1..Len(pool) /\ i + 1 # 1
      BY <1>3
    <3>2. pool[i + 1] = c
      BY <1>3, <2>1
    <3> QED
      BY <1>3, <3>1, <3>2 DEF InPool, OwnershipInv, Owners
  <2>2. ASSUME InPool(c), c # h PROVE \E i \in 1..Len(pool') : pool'[i] = c
    <3>1. PICK i \in 1..Len(pool) : pool[i] = c
      BY <2>2 DEF InPool, InPoolNext
    <3>2. i # 1
      BY <1>3, <2>2, <3>1
    <3>3. i - 1 \in 1..Len(pool') /\ (i - 1) + 1 = i
      BY <1>3, <3>2
    <3> QED
      BY <1>3, <3>1, <3>3
  <2> QED
    BY <2>1, <2>2
<1>7. \A c : OwnedNext(c) <=> Owned(c)
  <2>1. \A s \in Requests : s # r => (pc'[s] \in G!InUse <=> pc[s] \in G!InUse)
    BY <1>5
  <2>2. pc'[r] \in G!InUse /\ pc[r] \notin G!InUse
    BY <1>1, <1>5 DEF G!InUse
  <2>3. ASSUME NEW c, Owned(c) PROVE OwnedNext(c)
    <3>1. CASE InPool(c)
      BY <1>5, <1>6, <2>2, <3>1 DEF Owned, OwnedNext
    <3>2. CASE \E s \in Requests : pc[s] \in G!InUse /\ using[s] = c
      BY <1>5, <2>1, <2>2, <3>2 DEF Owned, OwnedNext
    <3> QED
      BY <2>3, <3>1, <3>2 DEF Owned, OwnedNext
  <2>4. ASSUME NEW c, OwnedNext(c) PROVE Owned(c)
    <3>1. CASE InPoolNext(c)
      BY <1>6, <3>1 DEF Owned, OwnedNext
    <3>2. CASE \E s \in Requests : pc'[s] \in G!InUse /\ using'[s] = c
      BY <1>4, <1>5, <2>1, <3>2 DEF Owned, OwnedNext
    <3> QED
      BY <2>4, <3>1, <3>2 DEF Owned, OwnedNext
  <2> QED
    BY <2>3, <2>4
<1>8. Owners'
  <2>1. \A i, j \in 1..Len(pool') : pool'[i] = pool'[j] => i = j
    <3> SUFFICES ASSUME NEW i \in 1..Len(pool'), NEW j \in 1..Len(pool'), pool'[i] = pool'[j]
                 PROVE  i = j
      OBVIOUS
    <3>1. i + 1 \in 1..Len(pool) /\ j + 1 \in 1..Len(pool)
      BY <1>3
    <3>2. i + 1 = j + 1
      BY <1>3, <3>1 DEF OwnershipInv, Owners
    <3> QED
      BY <1>3, <3>2
  <2>2. \A s \in Requests : s # r /\ pc[s] \in G!InUse => using[s] # h
    BY <1>4 DEF OwnershipInv, Owners
  <2>3. \A s, q \in Requests :
           pc'[s] \in G!InUse /\ pc'[q] \in G!InUse /\ using'[s] = using'[q] => s = q
    BY <1>5, <2>2 DEF OwnershipInv, Owners
  <2>4. \A s \in Requests : pc'[s] \in G!InUse => ~InPoolNext(using'[s])
    BY <1>5, <1>6 DEF OwnershipInv, Owners
  <2>5. \A s \in Requests : pc'[s] \in G!InUse \cup {"answering"} =>
           using'[s] \in G!Connection /\ conn'[using'[s]] # "unused"
    <3>1. conn[h] # "unused"
      BY <1>4 DEF OwnershipInv, Owners, Owned
    <3> QED
      BY <1>1, <1>4, <1>5, <3>1 DEF OwnershipInv, Owners
  <2>6. \A c \in G!Connection :
          /\ OwnedNext(c) => conn'[c] # "unused" /\ (gone' = 0 => conn'[c] = "open")
          /\ conn'[c] = "open" => OwnedNext(c)
    BY <1>1, <1>7 DEF OwnershipInv, Owners
  <2> QED
    BY <2>1, <2>3, <2>4, <2>5, <2>6, OwnersNext
<1>9. Spare'
  <2>1. \A s \in Requests : pc[s] \notin {"new", "getting"} => pc'[s] \notin {"new", "getting"}
    BY <1>1, <1>5
  <2> QED
    BY <1>1, <2>1, SpareKept
<1> QED
  BY <1>8, <1>9

\* A new connection has the thread that opens it, and one more thread is past that.
LEMMA OwnersOfOpen ==
    ASSUME OwnershipInv, NEW r \in Requests, G!OpenNew(r)
    PROVE  Owners' /\ Spare'
<1>1. PICK c \in G!Connection :
         /\ conn[c] = "unused"
         /\ conn' = [conn EXCEPT ![c] = "open"]
         /\ using' = [using EXCEPT ![r] = c]
         /\ pc' = [pc EXCEPT ![r] = "sending"]
         /\ pool' = pool /\ gone' = gone
  BY OpenParts
<1>2. pc[r] = "getting"
  BY DEF G!OpenNew
<1>3. /\ conn \in [G!Connection -> {"unused", "open", "closed"}]
      /\ using \in [Requests -> G!Connection \cup {NoConnection}]
      /\ pc \in [Requests -> {"sending", "waiting", "releasing", "new", "getting",
                              "answering", "done"}]
  BY GatewayTypes DEF OwnershipInv
<1>4. /\ conn'[c] = "open" /\ \A d \in G!Connection : d # c => conn'[d] = conn[d]
      /\ pc'[r] = "sending" /\ using'[r] = c
      /\ \A s \in Requests : s # r => pc'[s] = pc[s] /\ using'[s] = using[s]
  BY <1>1, <1>3
<1>5. ~Owned(c)
  BY <1>1 DEF OwnershipInv, Owners
<1>6. \A d : InPoolNext(d) <=> InPool(d)
  BY <1>1 DEF InPool, InPoolNext
<1>7. pc'[r] \in G!InUse /\ pc[r] \notin G!InUse
  BY <1>2, <1>4 DEF G!InUse
<1>8. ~InPool(c) /\ \A s \in Requests : pc[s] \in G!InUse => using[s] # c
  BY <1>5 DEF Owned, OwnedNext
<1>9. \A d : OwnedNext(d) <=> Owned(d) \/ d = c
  <2>1. ASSUME NEW d, OwnedNext(d) PROVE Owned(d) \/ d = c
    <3>1. CASE InPoolNext(d)
      BY <1>6, <3>1 DEF Owned, OwnedNext
    <3>2. CASE \E s \in Requests : pc'[s] \in G!InUse /\ using'[s] = d
      BY <1>4, <3>2 DEF Owned, OwnedNext
    <3> QED
      BY <2>1, <3>1, <3>2 DEF Owned, OwnedNext
  <2>2. ASSUME NEW d, Owned(d) \/ d = c PROVE OwnedNext(d)
    <3>1. CASE InPool(d)
      BY <1>6, <3>1 DEF Owned, OwnedNext
    <3>2. CASE \E s \in Requests : pc[s] \in G!InUse /\ using[s] = d
      BY <1>4, <1>7, <3>2 DEF Owned, OwnedNext
    <3>3. CASE d = c
      BY <1>4, <1>7, <3>3 DEF Owned, OwnedNext
    <3> QED
      BY <2>2, <3>1, <3>2, <3>3 DEF Owned, OwnedNext
  <2> QED
    BY <2>1, <2>2
<1>10. Owners'
  <2>1. \A i, j \in 1..Len(pool') : pool'[i] = pool'[j] => i = j
    BY <1>1 DEF OwnershipInv, Owners
  <2>3. \A s, q \in Requests :
           pc'[s] \in G!InUse /\ pc'[q] \in G!InUse /\ using'[s] = using'[q] => s = q
    BY <1>4, <1>8 DEF OwnershipInv, Owners
  <2>4. \A s \in Requests : pc'[s] \in G!InUse => ~InPoolNext(using'[s])
    BY <1>4, <1>6, <1>8 DEF OwnershipInv, Owners
  <2>5. \A s \in Requests : pc'[s] \in G!InUse \cup {"answering"} =>
           using'[s] \in G!Connection /\ conn'[using'[s]] # "unused"
    BY <1>4 DEF OwnershipInv, Owners
  <2>6. \A d \in G!Connection :
          /\ OwnedNext(d) => conn'[d] # "unused" /\ (gone' = 0 => conn'[d] = "open")
          /\ conn'[d] = "open" => OwnedNext(d)
    BY <1>1, <1>4, <1>9 DEF OwnershipInv, Owners
  <2> QED
    BY <2>1, <2>3, <2>4, <2>5, <2>6, OwnersNext
<1>11. Spare'
  <2> DEFINE n == Cardinality(Requests)
  <2>1. /\ InitialSize \in Nat /\ n \in Nat /\ IsFiniteSet(Requests)
    BY GatewayTypes DEF OwnershipInv
  <2>2. G!Connection = 1..(InitialSize + n)
    BY SameCounts DEF G!Connection
  <2> HIDE DEF n
  <2>3. \A d \in 1..InitialSize : d \in G!Connection
    BY <2>1, <2>2
  <2>4. \A d \in (InitialSize + 1)..(InitialSize + n) : d \in G!Connection
    BY <2>1, <2>2
  <2>5. \A d \in 1..InitialSize : conn'[d] # "unused"
    <3>1. \A d \in 1..InitialSize : conn[d] # "unused"
      BY DEF OwnershipInv, Spare
    <3> QED
      BY <1>4, <2>3, <3>1
  <2>6. Extra' \in SUBSET (Extra \cup {c})
    BY <1>4, <2>4 DEF Extra, n
  <2>7. Past' = Past \cup {r} /\ r \notin Past /\ Past \in SUBSET Requests
    BY <1>2, <1>4 DEF Past
  <2>8. IsFiniteSet(Extra)
    <3>1. Extra \in SUBSET ((InitialSize + 1)..(InitialSize + n))
      BY DEF Extra, n
    <3>2. InitialSize + 1 \in Int /\ InitialSize + n \in Int
      BY <2>1
    <3>3. IsFiniteSet((InitialSize + 1)..(InitialSize + n))
      BY <3>2, FS_Interval
    <3> QED
      BY <3>1, <3>3, FS_Subset
  <2>9. IsFiniteSet(Past)
    BY <2>1, <2>7, FS_Subset
  <2>10. Cardinality(Past') = Cardinality(Past) + 1
    BY <2>7, <2>9, FS_AddElement
  <2>11. IsFiniteSet(Extra \cup {c}) /\ Cardinality(Extra \cup {c}) <= Cardinality(Extra) + 1
    <3>1. Cardinality(Extra) \in Nat
      BY <2>8, FS_CardinalityType
    <3>2. /\ IsFiniteSet(Extra \cup {c})
          /\ Cardinality(Extra \cup {c}) =
                IF c \in Extra THEN Cardinality(Extra) ELSE Cardinality(Extra) + 1
      BY <2>8, FS_AddElement
    <3> QED
      BY <3>1, <3>2
  <2>12. IsFiniteSet(Extra') /\ Cardinality(Extra') <= Cardinality(Extra \cup {c})
    BY <2>6, <2>11, FS_Subset
  <2>13. /\ Cardinality(Extra) \in Nat /\ Cardinality(Extra') \in Nat /\ Cardinality(Past) \in Nat
         /\ Cardinality(Extra \cup {c}) \in Nat
         /\ Cardinality(Extra) <= Cardinality(Past)
    BY <2>8, <2>9, <2>11, <2>12, FS_CardinalityType DEF OwnershipInv, Spare
  <2>14. Cardinality(Extra') <= Cardinality(Past')
    BY <2>10, <2>11, <2>12, <2>13
  <2> QED
    BY <2>5, <2>14 DEF Spare
<1> QED
  BY <1>10, <1>11

\* A thread that does not use its connection any more has closed it.
LEMMA OwnersOfClose ==
    ASSUME OwnershipInv, NEW r \in Requests, G!Close(using[r]),
           pc[r] \in G!InUse \cup {"answering"},
           pc[r] = "answering" => gone' # 0,
           NEW p \in {"answering", "done"}, pc' = [pc EXCEPT ![r] = p],
           pool' = pool, using' = using,
           gone' = 0 => gone = 0
    PROVE  Owners' /\ Spare'
<1> DEFINE c == using[r]
<1>0. c \in G!Connection
  BY DEF OwnershipInv, Owners
<1>1. conn' = [conn EXCEPT ![c] = "closed"]
  BY DEF G!Close
<1>3. /\ conn \in [G!Connection -> {"unused", "open", "closed"}]
      /\ pc \in [Requests -> {"sending", "waiting", "releasing", "new", "getting",
                              "answering", "done"}]
  BY GatewayTypes DEF OwnershipInv
<1> HIDE DEF c
<1>4. /\ conn'[c] = "closed" /\ \A d \in G!Connection : d # c => conn'[d] = conn[d]
      /\ pc'[r] = p
      /\ \A s \in Requests : s # r => pc'[s] = pc[s]
  BY <1>0, <1>1, <1>3
<1>5. \A d : InPoolNext(d) <=> InPool(d)
  BY DEF InPool, InPoolNext
<1>6. p \notin G!InUse
  BY DEF G!InUse
<1>7. \A d : OwnedNext(d) => Owned(d)
  <2> SUFFICES ASSUME NEW d, OwnedNext(d) PROVE Owned(d)
    OBVIOUS
  <2>1. CASE InPoolNext(d)
    BY <1>5, <2>1 DEF Owned, OwnedNext
  <2>2. CASE \E s \in Requests : pc'[s] \in G!InUse /\ using'[s] = d
    BY <1>4, <1>6, <2>2 DEF Owned, OwnedNext
  <2> QED
    BY <2>1, <2>2 DEF Owned, OwnedNext
<1>8. \A d : Owned(d) /\ d # c => OwnedNext(d)
  <2> SUFFICES ASSUME NEW d, Owned(d), d # c PROVE OwnedNext(d)
    OBVIOUS
  <2>1. CASE InPool(d)
    BY <1>5, <2>1 DEF Owned, OwnedNext
  <2>2. CASE \E s \in Requests : pc[s] \in G!InUse /\ using[s] = d
    <3>1. PICK s \in Requests : pc[s] \in G!InUse /\ using[s] = d
      BY <2>2
    <3>2. s # r
      BY <3>1 DEF c
    <3> QED
      BY <1>4, <3>1, <3>2 DEF Owned, OwnedNext
  <2> QED
    BY <2>1, <2>2 DEF Owned, OwnedNext
<1>9. gone' = 0 => ~OwnedNext(c)
  <2> SUFFICES ASSUME gone' = 0 PROVE ~OwnedNext(c)
    OBVIOUS
  <2>1. pc[r] \in G!InUse
    OBVIOUS
  <2>2. ~InPool(c) /\ \A s \in Requests : pc[s] \in G!InUse /\ using[s] = c => s = r
    BY <2>1 DEF OwnershipInv, Owners, c
  <2> QED
    BY <1>4, <1>5, <1>6, <2>2 DEF Owned, OwnedNext
<1>10. Owners'
  <2>1. \A i, j \in 1..Len(pool') : pool'[i] = pool'[j] => i = j
    BY DEF OwnershipInv, Owners
  <2>2. \A s \in Requests : pc'[s] \in G!InUse => pc[s] \in G!InUse
    BY <1>4, <1>6
  <2>3. \A s, q \in Requests :
           pc'[s] \in G!InUse /\ pc'[q] \in G!InUse /\ using'[s] = using'[q] => s = q
    BY <2>2 DEF OwnershipInv, Owners
  <2>4. \A s \in Requests : pc'[s] \in G!InUse => ~InPoolNext(using'[s])
    BY <1>5, <2>2 DEF OwnershipInv, Owners
  <2>5. \A s \in Requests : pc'[s] \in G!InUse \cup {"answering"} =>
           using'[s] \in G!Connection /\ conn'[using'[s]] # "unused"
    BY <1>0, <1>4 DEF OwnershipInv, Owners, c
  <2>6. ASSUME NEW d \in G!Connection
        PROVE  /\ OwnedNext(d) => conn'[d] # "unused" /\ (gone' = 0 => conn'[d] = "open")
               /\ conn'[d] = "open" => OwnedNext(d)
    <3>1. CASE d = c
      BY <1>4, <1>9, <3>1
    <3>2. CASE d # c
      BY <1>4, <1>7, <1>8, <3>2 DEF OwnershipInv, Owners
    <3> QED
      BY <3>1, <3>2
  <2> QED
    BY <2>1, <2>3, <2>4, <2>5, <2>6, OwnersNext
<1>11. Spare'
  <2>1. conn[c] # "unused"
    BY DEF OwnershipInv, Owners, c
  <2>2. \A d \in G!Connection : conn'[d] = "unused" <=> conn[d] = "unused"
    BY <1>4, <2>1
  <2>3. \A s \in Requests : pc[s] \notin {"new", "getting"} => pc'[s] \notin {"new", "getting"}
    BY <1>4
  <2> QED
    BY <2>2, <2>3, SpareKept
<1> QED
  BY <1>10, <1>11

\* A connection goes back to the end of the pool, or is closed.
LEMMA OwnersOfRelease ==
    ASSUME OwnershipInv, NEW r \in Requests, G!Release(r)
    PROVE  Owners' /\ Spare'
<1> DEFINE c == using[r]
<1>1. /\ pc[r] = "releasing" /\ c \in G!Connection
      /\ pc' = [pc EXCEPT ![r] = "answering"]
      /\ using' = using /\ gone' = gone
      /\ \/ pool' = Append(pool, c) /\ UNCHANGED <<conn, wire, lost>>
         \/ G!Close(using[r]) /\ pool' = pool
  BY ReleaseParts
<1>2. pc[r] \in G!InUse
  BY <1>1 DEF G!InUse
<1>3. CASE G!Close(using[r]) /\ pool' = pool
  BY <1>1, <1>2, <1>3, OwnersOfClose
<1>4. CASE pool' = Append(pool, c) /\ UNCHANGED <<conn, wire, lost>>
  <2>1. /\ pool \in Seq(G!Connection)
        /\ pc \in [Requests -> {"sending", "waiting", "releasing", "new", "getting",
                                "answering", "done"}]
    BY GatewayTypes DEF OwnershipInv
  <2>2. /\ ~InPool(c) /\ conn[c] # "unused" /\ (gone = 0 => conn[c] = "open")
        /\ \A s \in Requests : pc[s] \in G!InUse /\ using[s] = c => s = r
    BY <1>1, <1>2 DEF OwnershipInv, Owners, Owned
  <2> HIDE DEF c
  <2>3. /\ Len(pool) \in Nat /\ Len(pool') = Len(pool) + 1
        /\ \A i \in 1..Len(pool) : pool'[i] = pool[i]
        /\ pool'[Len(pool) + 1] = c
    BY <1>1, <1>4, <2>1, AppendProperties
  <2>4. /\ pc'[r] = "answering" /\ pc'[r] \notin G!InUse
        /\ \A s \in Requests : s # r => pc'[s] = pc[s]
    BY <1>1, <2>1 DEF G!InUse
  <2>5. \A d : InPoolNext(d) <=> InPool(d) \/ d = c
    <3>1. ASSUME NEW d, InPoolNext(d) PROVE InPool(d) \/ d = c
      <4>1. PICK i \in 1..Len(pool') : pool'[i] = d
        BY <3>1 DEF InPoolNext
      <4>2. i \in 1..Len(pool) \/ i = Len(pool) + 1
        BY <2>3
      <4> QED
        BY <2>3, <4>1, <4>2 DEF InPool
    <3>2. ASSUME NEW d, InPool(d) \/ d = c PROVE InPoolNext(d)
      <4>1. \A i \in 1..Len(pool) : i \in 1..Len(pool')
        BY <2>3
      <4>2. Len(pool) + 1 \in 1..Len(pool')
        BY <2>3
      <4> QED
        BY <2>3, <3>2, <4>1, <4>2 DEF InPool, InPoolNext
    <3> QED
      BY <3>1, <3>2
  <2>6. \A d : OwnedNext(d) <=> Owned(d)
    <3>1. ASSUME NEW d, OwnedNext(d) PROVE Owned(d)
      <4>1. CASE InPool(d)
        BY <4>1 DEF Owned
      <4>2. CASE d = c
        BY <1>2, <4>2 DEF Owned, c
      <4>3. CASE \E s \in Requests : pc'[s] \in G!InUse /\ using'[s] = d
        BY <1>1, <2>4, <4>3 DEF Owned
      <4> QED
        BY <2>5, <3>1, <4>1, <4>2, <4>3 DEF OwnedNext
    <3>2. ASSUME NEW d, Owned(d) PROVE OwnedNext(d)
      <4>1. CASE InPool(d)
        BY <2>5, <4>1 DEF OwnedNext
      <4>2. CASE \E s \in Requests : pc[s] \in G!InUse /\ using[s] = d
        <5>1. PICK s \in Requests : pc[s] \in G!InUse /\ using[s] = d
          BY <4>2
        <5>2. CASE s = r
          <6>1. d = c
            BY <5>1, <5>2 DEF c
          <6> QED
            BY <2>5, <6>1 DEF OwnedNext
        <5>3. CASE s # r
          BY <1>1, <2>4, <5>1, <5>3 DEF OwnedNext
        <5> QED
          BY <5>2, <5>3
      <4> QED
        BY <3>2, <4>1, <4>2 DEF Owned
    <3> QED
      BY <3>1, <3>2
  <2>7. Owners'
    <3>1. \A i, j \in 1..Len(pool') : pool'[i] = pool'[j] => i = j
      <4> SUFFICES ASSUME NEW i \in 1..Len(pool'), NEW j \in 1..Len(pool'), pool'[i] = pool'[j]
                   PROVE  i = j
        OBVIOUS
      <4>1. \A k \in 1..Len(pool') : k \in 1..Len(pool) \/ k = Len(pool) + 1
        BY <2>3
      <4>2. \A k \in 1..Len(pool) : pool'[k] # c
        BY <2>2, <2>3 DEF InPool
      <4> QED
        BY <2>3, <4>1, <4>2 DEF OwnershipInv, Owners
    <3>2. \A s \in Requests : pc'[s] \in G!InUse => pc[s] \in G!InUse /\ s # r
      BY <2>4
    <3>3. \A s, q \in Requests :
             pc'[s] \in G!InUse /\ pc'[q] \in G!InUse /\ using'[s] = using'[q] => s = q
      BY <1>1, <3>2 DEF OwnershipInv, Owners
    <3>4. \A s \in Requests : pc'[s] \in G!InUse => ~InPoolNext(using'[s])
      BY <1>1, <2>2, <2>5, <3>2 DEF OwnershipInv, Owners
    <3>5. \A s \in Requests : pc'[s] \in G!InUse \cup {"answering"} =>
             using'[s] \in G!Connection /\ conn'[using'[s]] # "unused"
      <4>1. \A s \in Requests : pc'[s] \in G!InUse \cup {"answering"} =>
               pc[s] \in G!InUse \cup {"answering"}
        BY <1>2, <2>4
      <4> QED
        BY <1>1, <1>4, <4>1 DEF OwnershipInv, Owners
    <3>6. \A d \in G!Connection :
             /\ OwnedNext(d) => conn'[d] # "unused" /\ (gone' = 0 => conn'[d] = "open")
             /\ conn'[d] = "open" => OwnedNext(d)
      BY <1>1, <1>4, <2>6 DEF OwnershipInv, Owners
    <3> QED
      BY <3>1, <3>3, <3>4, <3>5, <3>6, OwnersNext
  <2>8. Spare'
    <3>1. \A s \in Requests : pc[s] \notin {"new", "getting"} => pc'[s] \notin {"new", "getting"}
      BY <2>4
    <3> QED
      BY <1>4, <3>1, SpareKept
  <2> QED
    BY <2>7, <2>8
<1> QED
  BY <1>1, <1>3, <1>4

LEMMA OwnersStep ==
    ASSUME OwnershipInv, G!Next
    PROVE  Owners' /\ Spare'
<1>0. pc \in [Requests -> {"sending", "waiting", "releasing", "new", "getting",
                           "answering", "done"}]
  BY GatewayTypes DEF OwnershipInv
<1>1. ASSUME NEW r \in Requests, G!Arrive(r) \/ G!Unavailable(r) PROVE Owners' /\ Spare'
  <2>1. UNCHANGED <<pool, conn, using, gone>>
    BY <1>1 DEF G!Arrive, G!Unavailable, G!link
  <2>2. PICK p \in {"getting", "done"} : pc' = [pc EXCEPT ![r] = p]
    BY <1>1 DEF G!Arrive, G!Unavailable
  <2>3. pc[r] \in {"new", "getting"}
    BY <1>1 DEF G!Arrive, G!Unavailable
  <2>4. pc'[r] = p /\ \A s \in Requests : s # r => pc'[s] = pc[s]
    BY <1>0, <2>2
  <2>5. \A s \in Requests :
           /\ pc'[s] \in G!InUse <=> pc[s] \in G!InUse
           /\ pc'[s] = "answering" => pc[s] = "answering"
           /\ pc[s] \notin {"new", "getting"} => pc'[s] \notin {"new", "getting"}
    BY <2>3, <2>4 DEF G!InUse
  <2> QED
    BY <2>1, <2>5, OwnersKept
<1>2. ASSUME NEW r \in Requests, G!Send(r) \/ G!Receive(r) PROVE Owners' /\ Spare'
  <2>1. UNCHANGED <<pool, conn, using, gone>>
    BY <1>2 DEF G!Send, G!Receive
  <2>2. PICK p \in {"waiting", "releasing"} : pc' = [pc EXCEPT ![r] = p]
    BY <1>2 DEF G!Send, G!Receive
  <2>3. pc[r] \in {"sending", "waiting"}
    BY <1>2 DEF G!Send, G!Receive
  <2>4. pc'[r] = p /\ \A s \in Requests : s # r => pc'[s] = pc[s]
    BY <1>0, <2>2
  <2>5. \A s \in Requests :
           /\ pc'[s] \in G!InUse <=> pc[s] \in G!InUse
           /\ pc'[s] = "answering" => pc[s] = "answering"
           /\ pc[s] \notin {"new", "getting"} => pc'[s] \notin {"new", "getting"}
    BY <2>3, <2>4 DEF G!InUse
  <2> QED
    BY <2>1, <2>5, OwnersKept
<1>3. ASSUME NEW r \in Requests, G!SendRaises(r) \/ G!ReceiveRaises(r) PROVE Owners' /\ Spare'
  <2>1. /\ pc[r] \in G!InUse /\ G!Close(using[r]) /\ pc[r] # "answering"
        /\ pc' = [pc EXCEPT ![r] = "done"]
        /\ pool' = pool /\ using' = using /\ gone' = gone
    BY <1>3, RaiseParts DEF G!InUse
  <2> QED
    BY <2>1, OwnersOfClose
<1>4. ASSUME NEW r \in Requests, G!Answer(r) PROVE Owners' /\ Spare'
  <2>1. /\ pc[r] = "answering" /\ pc' = [pc EXCEPT ![r] = "done"]
        /\ pool' = pool /\ using' = using
        /\ \/ UNCHANGED <<conn, gone>>
           \/ gone' = gone + 1 /\ G!Close(using[r])
    BY <1>4, AnswerParts
  <2>2. CASE UNCHANGED <<conn, gone>>
    <3>1. pc'[r] = "done" /\ \A s \in Requests : s # r => pc'[s] = pc[s]
      BY <1>0, <2>1
    <3>2. \A s \in Requests :
             /\ pc'[s] \in G!InUse <=> pc[s] \in G!InUse
             /\ pc'[s] = "answering" => pc[s] = "answering"
             /\ pc[s] \notin {"new", "getting"} => pc'[s] \notin {"new", "getting"}
      BY <2>1, <3>1 DEF G!InUse
    <3> QED
      BY <2>1, <2>2, <3>2, OwnersKept
  <2>3. CASE gone' = gone + 1 /\ G!Close(using[r])
    <3>1. gone \in Nat
      BY GatewayTypes DEF OwnershipInv
    <3>2. gone' # 0
      BY <2>3, <3>1
    <3> QED
      BY <2>1, <2>3, <3>2, OwnersOfClose
  <2> QED
    BY <2>1, <2>2, <2>3
<1>5. ASSUME \/ \E c \in G!Connection : G!Read(c) \/ G!ReadRaises(c)
             \/ G!EndCoordinator \/ G!StartCoordinator
      PROVE  Owners' /\ Spare'
  <2>1. UNCHANGED <<pool, conn, using, gone, pc>>
    BY <1>5 DEF G!Read, G!ReadRaises, G!EndCoordinator, G!StartCoordinator, G!link, G!thread
  <2> QED
    BY <2>1, OwnersKept
<1> QED
  BY <1>1, <1>2, <1>3, <1>4, <1>5, GatewayActions, OwnersOfTake, OwnersOfOpen, OwnersOfRelease

LEMMA TypesStep ==
    ASSUME OwnershipInv, G!Next
    PROVE  G!TypeOK'
BY GatewayActions, TypesOfThreads, TypesOfReleases, TypesOfLoop

\* init_pool: the pool owns each connection it made.
LEMMA OwnershipInit == G!Init => OwnershipInv
<1> SUFFICES ASSUME G!Init PROVE OwnershipInv
  OBVIOUS
<1> DEFINE n == Cardinality(Requests)
<1>1. /\ IsFiniteSet(Requests) /\ InitialSize \in Nat /\ MaxSize \in Nat
      /\ MaxTroubles \in Nat /\ InitialSize <= MaxSize
  BY PartAssumptions, SameCounts DEF G!Assumptions
<1>2. n \in Nat
  BY <1>1, FS_CardinalityType
<1>3. G!Connection = 1..(InitialSize + n)
  BY SameCounts DEF G!Connection
<1> HIDE DEF n
<1>4. \A c \in 1..InitialSize : c \in G!Connection
  BY <1>1, <1>2, <1>3
<1>5. /\ pool \in Seq(G!Connection) /\ Len(pool) = InitialSize
      /\ \A i \in 1..InitialSize : pool[i] = i
  <2>1. pool = [i \in 1..InitialSize |-> i]
    BY DEF G!Init
  <2> QED
    BY <1>1, <1>4, <2>1, IsASeq
<1>6. \A r \in Requests : pc[r] = "new"
  BY DEF G!Init
<1>7. G!TypeOK
  <2>1. G!Troubles <= MaxTroubles
    <3>1. ends = 0 /\ gone = 0 /\ Cardinality(dropped) = 0
      BY FS_EmptySet DEF G!Init
    <3> QED
      BY <1>1, <3>1, SameCounts DEF G!Troubles
  <2>2. <<>> \in Seq(G!Piece)
    OBVIOUS
  <2> QED
    BY <1>1, <1>5, <2>1, <2>2 DEF G!Init, G!TypeOK
<1>8. \A c : InPool(c) <=> c \in 1..InitialSize
  BY <1>5 DEF InPool
<1>9. \A c : Owned(c) <=> c \in 1..InitialSize
  BY <1>6, <1>8 DEF Owned, G!InUse
<1>10. \A c \in G!Connection : conn[c] = IF c \in 1..InitialSize THEN "open" ELSE "unused"
  BY <1>1, <1>2, <1>3 DEF G!Init
<1>11. Owners
  BY <1>5, <1>6, <1>9, <1>10 DEF Owners, G!InUse
<1>12. Spare
  <2>1. Extra = {}
    <3>1. \A c \in (InitialSize + 1)..(InitialSize + n) : c \in G!Connection /\ c \notin 1..InitialSize
      BY <1>1, <1>2, <1>3
    <3> QED
      BY <1>10, <3>1 DEF Extra, n
  <2>2. Past = {}
    BY <1>6 DEF Past
  <2> QED
    BY <1>4, <1>10, <2>1, <2>2, FS_EmptySet DEF Spare
<1> QED
  BY <1>7, <1>11, <1>12 DEF OwnershipInv

\* Nothing outside the gateway's part touches it.
LEMMA OwnershipSteps ==
    ASSUME OwnershipInv, [PartsNext]_<<part, vars, gateway, cache>>
    PROVE  OwnershipInv'
<1>1. CASE G!Next
  BY <1>1, TypesStep, OwnersStep DEF OwnershipInv
<1>2. CASE UNCHANGED gateway
  <2>1. UNCHANGED <<up, pool, conn, peer, wire, buffer, acks, pc, using, answer, published,
                    dropped, lost, long, ends, gone>>
    BY <1>2 DEF gateway
  <2>2. G!TypeOK'
    BY <2>1, GatewayTypes, TypesNext DEF OwnershipInv
  <2>3. Owners' /\ Spare'
    BY <2>1, OwnersKept
  <2> QED
    BY <2>2, <2>3 DEF OwnershipInv
<1> QED
  BY <1>1, <1>2 DEF PartsNext

LEMMA OwnershipAlways == PartsSpec => []OwnershipInv
<1>1. PartsInit => OwnershipInv
  BY OwnershipInit DEF PartsInit
<1>2. OwnershipInv /\ [PartsNext]_<<part, vars, gateway, cache>> => OwnershipInv'
  BY OwnershipSteps
<1> QED
  BY <1>1, <1>2, PTL DEF PartsSpec

\* The two cardinalities OneOwner adds up, from Owners.
LEMMA OwnersCount ==
    ASSUME OwnershipInv, NEW c \in G!Connection
    PROVE  LET owners == Cardinality({i \in 1..Len(pool) : pool[i] = c})
                         + Cardinality({r \in Requests : using[r] = c /\ pc[r] \in G!InUse})
           IN  /\ conn[c] = "open" => owners = 1
               /\ conn[c] = "closed" /\ gone = 0 => owners = 0
<1> DEFINE P == {i \in 1..Len(pool) : pool[i] = c}
           U == {r \in Requests : using[r] = c /\ pc[r] \in G!InUse}
<1>1. Owned(c) <=> P # {} \/ U # {}
  BY DEF Owned, InPool
<1>2. P = {} \/ U = {}
  BY DEF OwnershipInv, Owners, InPool
<1>3. ASSUME NEW i \in P PROVE P = {i}
  <2>1. \A j \in P : j = i
    BY DEF OwnershipInv, Owners
  <2> QED
    BY <2>1
<1>4. ASSUME NEW r \in U PROVE U = {r}
  <2>1. \A s \in U : s = r
    BY DEF OwnershipInv, Owners
  <2> QED
    BY <2>1
<1>5. conn[c] = "open" => Owned(c)
  BY DEF OwnershipInv, Owners
<1>6. conn[c] = "closed" /\ gone = 0 => ~Owned(c)
  BY DEF OwnershipInv, Owners
<1> HIDE DEF P, U
<1>7. /\ Cardinality({}) = 0
      /\ \A x : Cardinality({x}) = 1
  BY FS_EmptySet, FS_Singleton
<1>8. conn[c] = "open" => Cardinality(P) + Cardinality(U) = 1
  <2> SUFFICES ASSUME conn[c] = "open" PROVE Cardinality(P) + Cardinality(U) = 1
    OBVIOUS
  <2>1. CASE P # {}
    <3>1. PICK i : P = {i}
      BY <1>3, <2>1
    <3>2. Cardinality(P) = 1 /\ Cardinality(U) = 0
      BY <1>2, <1>7, <2>1, <3>1
    <3> QED
      BY <3>2
  <2>2. CASE U # {}
    <3>1. PICK r : U = {r}
      BY <1>4, <2>2
    <3>2. Cardinality(U) = 1 /\ Cardinality(P) = 0
      BY <1>2, <1>7, <2>2, <3>1
    <3> QED
      BY <3>2
  <2> QED
    BY <1>1, <1>5, <2>1, <2>2
<1>9. conn[c] = "closed" /\ gone = 0 => Cardinality(P) + Cardinality(U) = 0
  BY <1>1, <1>6, <1>7
<1> QED
  BY <1>8, <1>9 DEF P, U

\* A pooled connection has one owner, for every number of requests, first connections
\* and limit of the pool, and however often the coordinator ends (router.py:224-245,
\* connection_pool.py).
THEOREM OneOwnerOnly == PartsSpec => []OneOwner
<1>1. OwnershipInv => OneOwner
  BY OwnersCount, SameCounts DEF OneOwner, G!OneOwner
<1> QED
  BY <1>1, OwnershipAlways, PTL

-----------------------------------------------------------------------------
(* The gateway: what a 202 says                                            *)

\* Fresh, Short, Idle and Truth of the next state, for one connection or one task.
FreshNext(d) == conn'[d] = "unused" => acks'[d] = 0 /\ wire'[d] = <<>>

ShortNext(d) ==
    d \notin long' =>
        /\ buffer'[d] = <<>>
        /\ \A i \in 1..Len(wire'[d]) : wire'[d][i].part = "all"

IdleNext(d) ==
    d \notin long' /\ peer'[d] = "up" =>
        /\ InPoolNext(d) => acks'[d] = 0 /\ wire'[d] = <<>>
        /\ \A r \in Requests : using'[r] = d =>
              /\ pc'[r] \in {"sending", "releasing"} => acks'[d] = 0 /\ wire'[d] = <<>>
              /\ pc'[r] = "waiting" => acks'[d] + Len(wire'[d]) <= 1

LinkNext(d) == FreshNext(d) /\ ShortNext(d) /\ IdleNext(d)

SettledNext == published' \cup dropped' \cup lost'

TruthNext(r) ==
    /\ answer'[r] = "202" => pc'[r] = "done"
    /\ using'[r] \notin long' =>
          /\ pc'[r] = "waiting" =>
                \/ r \in SettledNext
                \/ /\ peer'[using'[r]] = "up" /\ acks'[using'[r]] = 0
                   /\ r \in G!Carried(wire'[using'[r]])
          /\ pc'[r] \in {"releasing", "answering"} \/ answer'[r] = "202" => r \in SettledNext

\* What a step has to show.
GatewayNext ==
    (\A d \in G!Connection : LinkNext(d)) /\ (\A r \in G!Tasks : TruthNext(r))

LEMMA NextParts ==
    ASSUME GatewayNext
    PROVE  Fresh' /\ Short' /\ Idle' /\ Truth'
<1>1. Fresh'
  BY DEF GatewayNext, LinkNext, FreshNext, Fresh
<1>2. Short'
  BY DEF GatewayNext, LinkNext, ShortNext, Short
<1>3. Idle'
  BY DEF GatewayNext, LinkNext, IdleNext, Idle, InPool, InPoolNext
<1>4. Truth'
  BY DEF GatewayNext, TruthNext, SettledNext, Truth, G!Settled, G!Carried
<1> QED
  BY <1>1, <1>2, <1>3, <1>4

\* A connection that the step leaves alone, or empties.
LEMMA LinkKept ==
    ASSUME GatewayInv, NEW d \in G!Connection,
           conn'[d] = "unused" => conn[d] = "unused",
           peer'[d] = "up" => peer[d] = "up",
           acks'[d] = acks[d], buffer'[d] = buffer[d], wire'[d] \in {wire[d], <<>>},
           long \subseteq long',
           InPoolNext(d) => InPool(d),
           \A s \in Requests : using'[s] = d /\ pc'[s] \in G!InUse =>
              using[s] = d /\ pc'[s] = pc[s]
    PROVE  LinkNext(d)
<1>1. wire[d] \in Seq(G!Piece) /\ acks[d] \in Nat
  BY GatewayTypes DEF GatewayInv, OwnershipInv
<1>2. Len(<<>>) = 0
  OBVIOUS
<1>3. Len(wire'[d]) <= Len(wire[d]) /\ Len(wire'[d]) \in Nat /\ Len(wire[d]) \in Nat
  BY <1>1, <1>2
<1>4. FreshNext(d)
  BY DEF GatewayInv, Fresh, FreshNext
<1>5. ShortNext(d)
  <2>1. CASE wire'[d] = wire[d]
    BY <2>1 DEF GatewayInv, Short, ShortNext
  <2>2. CASE wire'[d] = <<>>
    BY <1>2, <2>2 DEF GatewayInv, Short, ShortNext
  <2> QED
    BY <2>1, <2>2
<1>6. IdleNext(d)
  <2> SUFFICES ASSUME d \notin long', peer'[d] = "up"
               PROVE  /\ InPoolNext(d) => acks'[d] = 0 /\ wire'[d] = <<>>
                      /\ \A r \in Requests : using'[r] = d =>
                            /\ pc'[r] \in {"sending", "releasing"} => acks'[d] = 0 /\ wire'[d] = <<>>
                            /\ pc'[r] = "waiting" => acks'[d] + Len(wire'[d]) <= 1
    BY DEF IdleNext
  <2>1. d \notin long /\ peer[d] = "up"
    OBVIOUS
  <2>2. /\ InPool(d) => acks[d] = 0 /\ wire[d] = <<>>
        /\ \A r \in Requests : using[r] = d =>
              /\ pc[r] \in {"sending", "releasing"} => acks[d] = 0 /\ wire[d] = <<>>
              /\ pc[r] = "waiting" => acks[d] + Len(wire[d]) <= 1
    BY <2>1 DEF GatewayInv, Idle
  <2>3. InPoolNext(d) => acks'[d] = 0 /\ wire'[d] = <<>>
    BY <2>2
  <2>4. ASSUME NEW r \in Requests, using'[r] = d
        PROVE  /\ pc'[r] \in {"sending", "releasing"} => acks'[d] = 0 /\ wire'[d] = <<>>
               /\ pc'[r] = "waiting" => acks'[d] + Len(wire'[d]) <= 1
    <3>1. pc'[r] \in {"sending", "waiting", "releasing"} => using[r] = d /\ pc'[r] = pc[r]
      BY <2>4 DEF G!InUse
    <3>2. acks[d] + Len(wire[d]) <= 1 => acks'[d] + Len(wire'[d]) <= 1
      BY <1>1, <1>3
    <3> QED
      BY <2>2, <3>1, <3>2
  <2> QED
    BY <2>3, <2>4
<1> QED
  BY <1>4, <1>5, <1>6 DEF LinkNext

\* A connection on which there is nothing after the step.
LEMMA LinkEmpty ==
    ASSUME NEW d, acks'[d] = 0, wire'[d] = <<>>,
           d \notin long' => buffer'[d] = <<>>
    PROVE  LinkNext(d)
<1>1. Len(<<>>) = 0
  OBVIOUS
<1> QED
  BY <1>1 DEF LinkNext, FreshNext, ShortNext, IdleNext

\* What the step may have done to the connection of a thread it did not move.
LEMMA TruthKept ==
    ASSUME GatewayInv, NEW s \in G!Tasks,
           pc'[s] = pc[s], using'[s] = using[s], answer'[s] = answer[s],
           published \subseteq published', dropped \subseteq dropped', lost \subseteq lost',
           long \subseteq long',
           /\ pc[s] = "waiting" /\ using[s] \notin long'
           /\ peer[using[s]] = "up" /\ acks[using[s]] = 0 /\ s \in G!Carried(wire[using[s]])
           => \/ s \in SettledNext
              \/ /\ peer'[using[s]] = "up" /\ acks'[using[s]] = 0
                 /\ s \in G!Carried(wire'[using[s]])
    PROVE  TruthNext(s)
<1>1. s \in G!Settled => s \in SettledNext
  BY DEF G!Settled, SettledNext
<1>2. using'[s] \notin long' => using[s] \notin long
  OBVIOUS
<1>3. /\ answer[s] = "202" => pc[s] = "done"
      /\ using[s] \notin long =>
            /\ pc[s] = "waiting" =>
                  \/ s \in G!Settled
                  \/ /\ peer[using[s]] = "up" /\ acks[using[s]] = 0
                     /\ s \in G!Carried(wire[using[s]])
            /\ pc[s] \in {"releasing", "answering"} \/ answer[s] = "202" => s \in G!Settled
  BY DEF GatewayInv, Truth
<1> QED
  BY <1>1, <1>2, <1>3 DEF TruthNext

\* A thread that is not past sendall, or has failed.
LEMMA TruthElsewhere ==
    ASSUME NEW r, answer'[r] # "202", pc'[r] \notin {"waiting", "releasing", "answering"}
    PROVE  TruthNext(r)
BY DEF TruthNext

\* Before it is done no thread has answered 202.
LEMMA NotAnswered ==
    ASSUME GatewayInv, NEW r \in G!Tasks, pc[r] # "done"
    PROVE  answer[r] # "202"
BY DEF GatewayInv, Truth

\* The types the steps below need.
LEMMA InvTypes ==
    ASSUME GatewayInv
    PROVE  /\ G!TypeOK /\ OwnershipInv
           /\ conn \in [G!Connection -> {"unused", "open", "closed"}]
           /\ peer \in [G!Connection -> {"up", "fin", "rst"}]
           /\ wire \in [G!Connection -> Seq(G!Piece)]
           /\ buffer \in [G!Connection -> Seq(G!Piece)]
           /\ acks \in [G!Connection -> Nat]
           /\ pc \in [Requests -> {"sending", "waiting", "releasing", "new", "getting",
                                   "answering", "done"}]
           /\ using \in [Requests -> G!Connection \cup {NoConnection}]
           /\ answer \in [Requests -> {"none", "rejected", "202", "500", "503"}]
           /\ G!Tasks \subseteq Requests
BY GatewayTypes DEF GatewayInv, OwnershipInv

\* The connection of a thread that uses it is no other's.
LEMMA UsersOwn ==
    ASSUME GatewayInv, NEW r \in Requests, pc[r] \in G!InUse
    PROVE  /\ using[r] \in G!Connection /\ ~InPool(using[r]) /\ conn[using[r]] # "unused"
           /\ \A s \in Requests : s # r /\ pc[s] \in G!InUse => using[s] # using[r]
BY DEF GatewayInv, OwnershipInv, Owners

\* What waits for its turn on a quiet connection.
LEMMA IdleOf ==
    ASSUME GatewayInv, NEW d \in G!Connection, d \notin long, peer[d] = "up"
    PROVE  /\ InPool(d) => acks[d] = 0 /\ wire[d] = <<>>
           /\ \A r \in Requests : using[r] = d =>
                 /\ pc[r] \in {"sending", "releasing"} => acks[d] = 0 /\ wire[d] = <<>>
                 /\ pc[r] = "waiting" => acks[d] + Len(wire[d]) <= 1
BY DEF GatewayInv, Idle

\* A thread that gets no connection leaves all of them as they are.
LEMMA NextOfArrive ==
    ASSUME GatewayInv, NEW r \in Requests, G!Arrive(r) \/ G!Unavailable(r)
    PROVE  GatewayNext
<1>1. /\ UNCHANGED <<up, peer, wire, buffer, published, dropped, ends, pool, conn, acks,
                     lost, long, gone, using>>
      /\ pc[r] \in {"new", "getting"}
  BY DEF G!Arrive, G!Unavailable, G!loop, G!link
<1>2. PICK p \in {"getting", "done"} : pc' = [pc EXCEPT ![r] = p]
  BY DEF G!Arrive, G!Unavailable
<1>3. answer' = answer \/ \E a \in {"rejected", "503"} : answer' = [answer EXCEPT ![r] = a]
  BY DEF G!Arrive, G!Unavailable
<1>4. /\ pc'[r] = p /\ \A s \in Requests : s # r => pc'[s] = pc[s]
      /\ answer'[r] = answer[r] \/ answer'[r] \in {"rejected", "503"}
      /\ \A s \in Requests : s # r => answer'[s] = answer[s]
  BY <1>2, <1>3, InvTypes
<1>5. ASSUME NEW d \in G!Connection PROVE LinkNext(d)
  <2>1. InPoolNext(d) => InPool(d)
    BY <1>1 DEF InPool, InPoolNext
  <2>2. \A s \in Requests : using'[s] = d /\ pc'[s] \in G!InUse => using[s] = d /\ pc'[s] = pc[s]
    BY <1>1, <1>4 DEF G!InUse
  <2> QED
    BY <1>1, <2>1, <2>2, LinkKept
<1>6. ASSUME NEW s \in G!Tasks PROVE TruthNext(s)
  <2>1. CASE s = r
    <3>1. answer[s] # "202"
      BY <1>1, <2>1, NotAnswered
    <3> QED
      BY <1>4, <2>1, <3>1, TruthElsewhere
  <2>2. CASE s # r
    <3>1. s \in Requests
      BY InvTypes
    <3> QED
      BY <1>1, <1>4, <2>2, <3>1, TruthKept
  <2> QED
    BY <2>1, <2>2
<1> QED
  BY <1>5, <1>6 DEF GatewayNext

\* A quiet connection in the pool has nothing on it, so its taker starts clean.
LEMMA NextOfTake ==
    ASSUME GatewayInv, NEW r \in Requests, G!TakePooled(r)
    PROVE  GatewayNext
<1> DEFINE h == Head(pool)
<1>1. /\ UNCHANGED <<up, peer, wire, buffer, published, dropped, ends, conn, acks,
                     lost, long, gone, answer>>
      /\ pc[r] = "getting" /\ pool # <<>> /\ pool' = Tail(pool)
      /\ using' = [using EXCEPT ![r] = h] /\ pc' = [pc EXCEPT ![r] = "sending"]
  BY DEF G!TakePooled, G!loop
<1>2. pool \in Seq(G!Connection)
  BY GatewayTypes DEF GatewayInv, OwnershipInv
<1>3. /\ InPool(h) /\ \A d : InPoolNext(d) => InPool(d)
  <2>1. Len(pool) \in Nat /\ Len(pool) # 0
    BY <1>1, <1>2, LenProperties, EmptySeq
  <2>2. /\ Len(Tail(pool)) = Len(pool) - 1
        /\ \A i \in 1..Len(Tail(pool)) : Tail(pool)[i] = pool[i + 1]
    BY <1>1, <1>2, <2>1
  <2>3. h = pool[1] /\ 1 \in 1..Len(pool)
    BY <1>1, <1>2, <2>1
  <2>4. \A i \in 1..Len(Tail(pool)) : i + 1 \in 1..Len(pool)
    BY <2>1, <2>2
  <2> HIDE DEF h
  <2> QED
    BY <1>1, <2>2, <2>3, <2>4 DEF InPool, InPoolNext
<1> HIDE DEF h
<1>4. /\ pc'[r] = "sending" /\ using'[r] = h
      /\ \A s \in Requests : s # r => pc'[s] = pc[s] /\ using'[s] = using[s]
  BY <1>1, InvTypes
<1>5. ASSUME NEW d \in G!Connection PROVE LinkNext(d)
  <2>1. CASE d # h
    <3>1. \A s \in Requests : using'[s] = d /\ pc'[s] \in G!InUse => using[s] = d /\ pc'[s] = pc[s]
      BY <1>4, <2>1
    <3> QED
      BY <1>1, <1>3, <3>1, LinkKept
  <2>2. CASE d = h
    <3>1. CASE d \notin long /\ peer[d] = "up"
      <4>1. acks[d] = 0 /\ wire[d] = <<>>
        BY <1>3, <2>2, <3>1, IdleOf
      <4>2. buffer[d] = <<>>
        BY <3>1 DEF GatewayInv, Short
      <4> QED
        BY <1>1, <4>1, <4>2, LinkEmpty
    <3>2. CASE ~(d \notin long /\ peer[d] = "up")
      <4>1. FreshNext(d)
        BY <1>1 DEF GatewayInv, Fresh, FreshNext
      <4>2. ShortNext(d)
        BY <1>1 DEF GatewayInv, Short, ShortNext
      <4>3. IdleNext(d)
        BY <1>1, <3>2 DEF IdleNext
      <4> QED
        BY <4>1, <4>2, <4>3 DEF LinkNext
    <3> QED
      BY <3>1, <3>2
  <2> QED
    BY <2>1, <2>2
<1>6. ASSUME NEW s \in G!Tasks PROVE TruthNext(s)
  <2>1. CASE s = r
    <3>1. answer[s] # "202"
      BY <1>1, <2>1, NotAnswered
    <3> QED
      BY <1>1, <1>4, <2>1, <3>1, TruthElsewhere
  <2>2. CASE s # r
    <3>1. s \in Requests
      BY InvTypes
    <3> QED
      BY <1>1, <1>4, <2>2, <3>1, TruthKept
  <2> QED
    BY <2>1, <2>2
<1> QED
  BY <1>5, <1>6 DEF GatewayNext

\* So does one that opens a connection.
LEMMA NextOfOpen ==
    ASSUME GatewayInv, NEW r \in Requests, G!OpenNew(r)
    PROVE  GatewayNext
<1>0. OwnershipInv
  BY InvTypes
<1>1. PICK c \in G!Connection :
         /\ conn[c] = "unused"
         /\ conn' = [conn EXCEPT ![c] = "open"]
         /\ using' = [using EXCEPT ![r] = c]
         /\ pc' = [pc EXCEPT ![r] = "sending"]
         /\ UNCHANGED <<up, peer, wire, buffer, published, dropped, ends, pool, acks,
                        lost, long, gone, answer>>
  BY <1>0, OpenParts
<1>2. pc[r] = "getting"
  BY DEF G!OpenNew
<1>3. /\ \A d \in G!Connection : d # c => conn'[d] = conn[d]
      /\ pc'[r] = "sending" /\ using'[r] = c
      /\ \A s \in Requests : s # r => pc'[s] = pc[s] /\ using'[s] = using[s]
  BY <1>1, InvTypes
<1>4. ASSUME NEW d \in G!Connection PROVE LinkNext(d)
  <2>1. CASE d # c
    <3>1. \A s \in Requests : using'[s] = d /\ pc'[s] \in G!InUse => using[s] = d /\ pc'[s] = pc[s]
      BY <1>3, <2>1
    <3>2. InPoolNext(d) => InPool(d)
      BY <1>1 DEF InPool, InPoolNext
    <3> QED
      BY <1>1, <1>3, <2>1, <3>1, <3>2, LinkKept
  <2>2. CASE d = c
    <3>1. acks[d] = 0 /\ wire[d] = <<>>
      BY <1>1, <2>2 DEF GatewayInv, Fresh
    <3>2. d \notin long => buffer[d] = <<>>
      BY DEF GatewayInv, Short
    <3> QED
      BY <1>1, <3>1, <3>2, LinkEmpty
  <2> QED
    BY <2>1, <2>2
<1>5. ASSUME NEW s \in G!Tasks PROVE TruthNext(s)
  <2>1. CASE s = r
    <3>1. answer[s] # "202"
      BY <1>2, <2>1, NotAnswered
    <3> QED
      BY <1>1, <1>3, <2>1, <3>1, TruthElsewhere
  <2>2. CASE s # r
    <3>1. s \in Requests
      BY InvTypes
    <3> QED
      BY <1>1, <1>3, <2>2, <3>1, TruthKept
  <2> QED
    BY <2>1, <2>2
<1> QED
  BY <1>4, <1>5 DEF GatewayNext

LEMMA NextOfClose ==
    ASSUME GatewayInv, NEW r \in Requests, using[r] \in G!Connection, G!Close(using[r]),
           conn[using[r]] # "unused",
           UNCHANGED <<peer, buffer, published, dropped, pool, acks, long, using>>,
           pc'[r] \notin G!InUse, \A s \in Requests : s # r => pc'[s] = pc[s],
           \A s \in Requests : s # r => answer'[s] = answer[s],
           r \in G!Tasks => TruthNext(r)
    PROVE  GatewayNext
<1> DEFINE c == using[r]
<1>1. /\ conn' = [conn EXCEPT ![c] = "closed"]
      /\ lost \subseteq lost'
      /\ \A d \in G!Connection : d # c => wire'[d] = wire[d]
      /\ wire'[c] = wire[c] \/ wire'[c] = <<>>
      /\ \A s \in G!Carried(wire[c]) : s \in G!Carried(wire'[c]) \cup lost'
  BY InvTypes, CloseTypes
<1> HIDE DEF c
<1>2. ASSUME NEW d \in G!Connection PROVE LinkNext(d)
  <2>1. conn'[d] = "unused" => conn[d] = "unused"
    BY <1>1, InvTypes DEF c
  <2>2. wire'[d] \in {wire[d], <<>>}
    BY <1>1
  <2>3. InPoolNext(d) => InPool(d)
    BY DEF InPool, InPoolNext
  <2>4. \A s \in Requests : using'[s] = d /\ pc'[s] \in G!InUse => using[s] = d /\ pc'[s] = pc[s]
    OBVIOUS
  <2> QED
    BY <2>1, <2>2, <2>3, <2>4, LinkKept
<1>3. ASSUME NEW s \in G!Tasks PROVE TruthNext(s)
  <2>1. CASE s = r
    BY <2>1
  <2>2. CASE s # r
    <3>1. s \in Requests
      BY InvTypes
    <3>2. ASSUME s \in G!Carried(wire[using[s]]), pc[s] = "waiting"
          PROVE  s \in SettledNext \/ s \in G!Carried(wire'[using[s]])
      <4>1. using[s] \in G!Connection
        BY <3>1, <3>2, UsersOwn DEF G!InUse
      <4> QED
        BY <1>1, <3>2, <4>1 DEF SettledNext
    <3> QED
      BY <1>1, <2>2, <3>1, <3>2, TruthKept
  <2> QED
    BY <2>1, <2>2
<1> QED
  BY <1>2, <1>3 DEF GatewayNext

\* A thread that fails answers 500 and closes a connection no other uses.
LEMMA NextOfRaise ==
    ASSUME GatewayInv, NEW r \in Requests, G!SendRaises(r) \/ G!ReceiveRaises(r)
    PROVE  GatewayNext
<1>1. /\ pc[r] \in {"sending", "waiting"} /\ using[r] \in G!Connection
      /\ G!Close(using[r])
      /\ pc' = [pc EXCEPT ![r] = "done"]
      /\ answer' = [answer EXCEPT ![r] = "500"]
      /\ UNCHANGED <<up, peer, buffer, published, dropped, ends, pool, acks, long,
                     gone, using>>
  BY InvTypes, RaiseParts
<1>2. /\ pc'[r] = "done" /\ answer'[r] = "500"
      /\ \A s \in Requests : s # r => pc'[s] = pc[s] /\ answer'[s] = answer[s]
  BY <1>1, InvTypes
<1>3. conn[using[r]] # "unused"
  BY <1>1, UsersOwn DEF G!InUse
<1>4. TruthNext(r)
  BY <1>2, TruthElsewhere
<1>5. pc'[r] \notin G!InUse
  BY <1>2 DEF G!InUse
<1> QED
  BY <1>1, <1>2, <1>3, <1>4, <1>5, NextOfClose

\* A 202 is written by a thread whose task is settled; a client that has left gets none.
LEMMA NextOfAnswer ==
    ASSUME GatewayInv, NEW r \in Requests, G!Answer(r)
    PROVE  GatewayNext
<1>1. /\ pc[r] = "answering" /\ using[r] \in G!Connection
      /\ pc' = [pc EXCEPT ![r] = "done"]
      /\ \/ /\ answer' = [answer EXCEPT ![r] = "202"]
            /\ UNCHANGED <<conn, wire, lost, gone>>
         \/ G!Close(using[r]) /\ answer' = answer
      /\ UNCHANGED <<up, pool, peer, buffer, published, dropped, ends, acks, long, using>>
  BY InvTypes, AnswerParts
<1>2. pc'[r] = "done" /\ \A s \in Requests : s # r => pc'[s] = pc[s]
  BY <1>1, InvTypes
<1>3. pc'[r] \notin G!InUse
  BY <1>2 DEF G!InUse
<1>4. CASE answer' = [answer EXCEPT ![r] = "202"] /\ UNCHANGED <<conn, wire, lost, gone>>
  <2>1. \A s \in Requests : s # r => answer'[s] = answer[s]
    BY <1>4, InvTypes
  <2>2. ASSUME NEW d \in G!Connection PROVE LinkNext(d)
    <3>1. InPoolNext(d) => InPool(d)
      BY <1>1 DEF InPool, InPoolNext
    <3>2. \A s \in Requests : using'[s] = d /\ pc'[s] \in G!InUse => using[s] = d /\ pc'[s] = pc[s]
      BY <1>1, <1>2, <1>3
    <3> QED
      BY <1>1, <1>4, <3>1, <3>2, LinkKept
  <2>3. ASSUME NEW s \in G!Tasks PROVE TruthNext(s)
    <3>1. CASE s = r
      <4>1. using[s] \notin long => s \in G!Settled
        BY <1>1, <3>1 DEF GatewayInv, Truth
      <4>2. using'[s] \notin long' => s \in SettledNext
        BY <1>1, <1>4, <4>1 DEF SettledNext, G!Settled
      <4> QED
        BY <1>2, <3>1, <4>2 DEF TruthNext
    <3>2. CASE s # r
      <4>1. s \in Requests
        BY InvTypes
      <4> QED
        BY <1>1, <1>2, <1>4, <2>1, <3>2, <4>1, TruthKept
    <3> QED
      BY <3>1, <3>2
  <2> QED
    BY <2>2, <2>3 DEF GatewayNext
<1>5. CASE G!Close(using[r]) /\ answer' = answer
  <2>1. conn[using[r]] # "unused"
    BY <1>1 DEF GatewayInv, OwnershipInv, Owners
  <2>2. r \in G!Tasks => TruthNext(r)
    <3>1. r \in G!Tasks => answer[r] # "202"
      BY <1>1, NotAnswered
    <3> QED
      BY <1>2, <1>5, <3>1, TruthElsewhere
  <2> QED
    BY <1>1, <1>2, <1>3, <1>5, <2>1, <2>2, NextOfClose
<1> QED
  BY <1>1, <1>4, <1>5

\* A quiet connection is put back with nothing on it.
LEMMA NextOfRelease ==
    ASSUME GatewayInv, NEW r \in Requests, G!Release(r)
    PROVE  GatewayNext
<1> DEFINE c == using[r]
<1>1. /\ pc[r] = "releasing" /\ c \in G!Connection
      /\ pc' = [pc EXCEPT ![r] = "answering"]
      /\ \/ pool' = Append(pool, c) /\ UNCHANGED <<conn, wire, lost>>
         \/ G!Close(c) /\ pool' = pool
      /\ UNCHANGED <<up, peer, buffer, published, dropped, ends, acks, long, gone,
                     using, answer>>
  BY InvTypes, ReleaseParts
<1>2. pc'[r] = "answering" /\ \A s \in Requests : s # r => pc'[s] = pc[s]
  BY <1>1, InvTypes
<1>3. pc'[r] \notin G!InUse
  BY <1>2 DEF G!InUse
<1>4. ASSUME lost \subseteq lost', r \in G!Tasks PROVE TruthNext(r)
  <2>1. using[r] \notin long => r \in G!Settled
    BY <1>1, <1>4 DEF GatewayInv, Truth
  <2>2. using'[r] \notin long' => r \in SettledNext
    BY <1>1, <1>4, <2>1 DEF SettledNext, G!Settled
  <2>3. answer'[r] # "202"
    BY <1>1, <1>4, NotAnswered
  <2> QED
    BY <1>2, <2>2, <2>3 DEF TruthNext
<1>5. CASE pool' = Append(pool, c) /\ UNCHANGED <<conn, wire, lost>>
  <2>1. pool \in Seq(G!Connection)
    BY GatewayTypes DEF GatewayInv, OwnershipInv
  <2>2. \A d : InPoolNext(d) => d = c \/ InPool(d)
    <3> HIDE DEF c
    <3>1. Len(pool) \in Nat
      BY <2>1
    <3>2. /\ Len(pool') = Len(pool) + 1
          /\ pool'[Len(pool) + 1] = c
          /\ \A i \in 1..Len(pool) : pool'[i] = pool[i]
      BY <1>5, <1>1, <2>1
    <3>3. \A i \in 1..(Len(pool) + 1) : i \in 1..Len(pool) \/ i = Len(pool) + 1
      BY <3>1
    <3> QED
      BY <3>2, <3>3 DEF InPool, InPoolNext
  <2> HIDE DEF c
  <2>3. ASSUME NEW d \in G!Connection PROVE LinkNext(d)
    <3>1. CASE d # c
      <4>1. \A s \in Requests : using'[s] = d /\ pc'[s] \in G!InUse => using[s] = d /\ pc'[s] = pc[s]
        BY <1>1, <1>2, <1>3
      <4> QED
        BY <1>1, <1>5, <2>2, <3>1, <4>1, LinkKept
    <3>2. CASE d = c
      <4>1. CASE d \notin long /\ peer[d] = "up"
        <5>1. acks[d] = 0 /\ wire[d] = <<>>
          BY <1>1, <3>2, <4>1, IdleOf DEF c
        <5>2. buffer[d] = <<>>
          BY <4>1 DEF GatewayInv, Short
        <5> QED
          BY <1>1, <1>5, <5>1, <5>2, LinkEmpty
      <4>2. CASE ~(d \notin long /\ peer[d] = "up")
        <5>1. FreshNext(d)
          BY <1>1, <1>5 DEF GatewayInv, Fresh, FreshNext
        <5>2. ShortNext(d)
          BY <1>1, <1>5 DEF GatewayInv, Short, ShortNext
        <5>3. IdleNext(d)
          BY <1>1, <4>2 DEF IdleNext
        <5> QED
          BY <5>1, <5>2, <5>3 DEF LinkNext
      <4> QED
        BY <4>1, <4>2
    <3> QED
      BY <3>1, <3>2
  <2>4. ASSUME NEW s \in G!Tasks PROVE TruthNext(s)
    <3>1. CASE s = r
      BY <1>4, <1>5, <3>1
    <3>2. CASE s # r
      <4>1. s \in Requests
        BY InvTypes
      <4> QED
        BY <1>1, <1>2, <1>5, <3>2, <4>1, TruthKept
    <3> QED
      BY <3>1, <3>2
  <2> QED
    BY <2>3, <2>4 DEF GatewayNext
<1>6. CASE G!Close(c) /\ pool' = pool
  <2>1. conn[using[r]] # "unused"
    BY <1>1, UsersOwn DEF G!InUse
  <2>2. lost \subseteq lost'
    BY <1>1, <1>6, InvTypes, CloseTypes
  <2>3. r \in G!Tasks => TruthNext(r)
    BY <1>4, <2>2
  <2> QED
    BY <1>1, <1>2, <1>3, <1>6, <2>1, <2>3, NextOfClose
<1> QED
  BY <1>1, <1>5, <1>6

LEMMA NextOfStart ==
    ASSUME GatewayInv, G!StartCoordinator
    PROVE  GatewayNext
<1>1. UNCHANGED <<peer, wire, buffer, published, dropped, ends, pool, conn, acks, lost, long,
                  gone, pc, using, answer>>
  BY DEF G!StartCoordinator, G!link, G!thread
<1>2. ASSUME NEW d \in G!Connection PROVE LinkNext(d)
  <2>1. InPoolNext(d) => InPool(d)
    BY <1>1 DEF InPool, InPoolNext
  <2> QED
    BY <1>1, <2>1, LinkKept
<1>3. ASSUME NEW s \in G!Tasks PROVE TruthNext(s)
  BY <1>1, TruthKept
<1> QED
  BY <1>2, <1>3 DEF GatewayNext

\* The end of the coordinator settles what is on its connections: it is lost.
LEMMA NextOfEnd ==
    ASSUME GatewayInv, G!EndCoordinator
    PROVE  GatewayNext
<1>1. /\ lost' = lost \cup UNION {G!Carried(buffer[d] \o wire[d]) : d \in G!Connection}
      /\ wire' = [d \in G!Connection |-> <<>>]
      /\ buffer' = [d \in G!Connection |-> <<>>]
      /\ peer' = [d \in G!Connection |->
            IF conn[d] = "unused" \/ peer[d] # "up" THEN peer[d]
            ELSE IF wire[d] = <<>> THEN "fin" ELSE "rst"]
      /\ UNCHANGED <<pool, conn, acks, published, dropped, long, gone, pc, using, answer>>
  BY DEF G!EndCoordinator, G!thread
<1>2. ASSUME NEW d \in G!Connection PROVE LinkNext(d)
  <2>1. /\ wire'[d] = <<>> /\ buffer'[d] = <<>>
        /\ conn[d] # "unused" => peer'[d] # "up"
    BY <1>1, InvTypes
  <2>2. CASE conn[d] = "unused"
    <3>1. acks[d] = 0
      BY <2>2 DEF GatewayInv, Fresh
    <3> QED
      BY <1>1, <2>1, <3>1, LinkEmpty
  <2>3. CASE conn[d] # "unused"
    <3>1. Len(<<>>) = 0
      OBVIOUS
    <3> QED
      BY <1>1, <2>1, <2>3, <3>1 DEF LinkNext, FreshNext, ShortNext, IdleNext
  <2> QED
    BY <2>2, <2>3
<1>3. ASSUME NEW s \in G!Tasks PROVE TruthNext(s)
  <2>1. ASSUME pc[s] = "waiting", s \in G!Carried(wire[using[s]]) PROVE s \in SettledNext
    <3> DEFINE d == using[s]
    <3>1. d \in G!Connection
      BY <2>1, InvTypes, UsersOwn DEF G!InUse
    <3>2. wire[d] \in Seq(G!Piece) /\ buffer[d] \in Seq(G!Piece)
      BY <3>1, InvTypes
    <3>3. s \in G!Carried(buffer[d] \o wire[d])
      BY <2>1, <3>2, CarriedBehind
    <3> HIDE DEF d
    <3> QED
      BY <1>1, <3>1, <3>3 DEF SettledNext
  <2> QED
    BY <1>1, <2>1, TruthKept
<1> QED
  BY <1>2, <1>3 DEF GatewayNext

\* On a quiet connection the one reply is to the one body, which is settled; nothing is left.
LEMMA NextOfReceive ==
    ASSUME GatewayInv, NEW r \in Requests, G!Receive(r)
    PROVE  GatewayNext
<1> DEFINE c == using[r]
<1>1. /\ pc[r] = "waiting" /\ pc' = [pc EXCEPT ![r] = "releasing"]
      /\ \/ \E n \in 1..acks[c] : acks' = [acks EXCEPT ![c] = @ - n]
         \/ acks[c] = 0 /\ peer[c] = "fin" /\ acks' = acks
      /\ UNCHANGED <<up, peer, wire, buffer, published, dropped, ends, pool, conn,
                     lost, long, gone, using, answer>>
  BY DEF G!Receive, G!loop
<1>2. /\ c \in G!Connection /\ ~InPool(c) /\ conn[c] # "unused"
      /\ \A s \in Requests : s # r /\ pc[s] \in G!InUse => using[s] # c
  BY <1>1, UsersOwn DEF G!InUse
<1> HIDE DEF c
<1>3. /\ pc'[r] = "releasing" /\ \A s \in Requests : s # r => pc'[s] = pc[s]
      /\ \A d \in G!Connection : d # c => acks'[d] = acks[d]
  BY <1>1, InvTypes
<1>4. \A s \in Requests : s # r /\ pc'[s] \in G!InUse => using'[s] # c
  BY <1>1, <1>2, <1>3
<1>5. ASSUME NEW d \in G!Connection PROVE LinkNext(d)
  <2>1. InPoolNext(d) => InPool(d)
    BY <1>1 DEF InPool, InPoolNext
  <2>2. CASE d # c
    <3>1. \A s \in Requests : using'[s] = d /\ pc'[s] \in G!InUse => using[s] = d /\ pc'[s] = pc[s]
      BY <1>1, <1>3, <2>2 DEF c
    <3> QED
      BY <1>1, <1>3, <2>1, <2>2, <3>1, LinkKept
  <2>3. CASE d = c
    <3>1. CASE d \notin long /\ peer[d] = "up"
      <4>1. acks[c] + Len(wire[c]) <= 1
        BY <1>1, <2>3, <3>1, IdleOf DEF c
      <4>2. acks[c] \in Nat /\ Len(wire[c]) \in Nat /\ wire[c] \in Seq(G!Piece)
        BY <1>2, InvTypes
      <4>3. PICK n \in 1..acks[c] : acks' = [acks EXCEPT ![c] = @ - n]
        BY <1>1, <2>3, <3>1
      <4>4. acks[c] = 1 /\ n = 1 /\ Len(wire[c]) = 0
        BY <4>1, <4>2, <4>3
      <4>5. wire[c] = <<>>
        BY <4>2, <4>4, EmptySeq
      <4>6. acks'[c] = 0
        BY <1>2, <4>3, <4>4, InvTypes
      <4>7. buffer[c] = <<>>
        BY <2>3, <3>1 DEF GatewayInv, Short
      <4> QED
        BY <1>1, <2>3, <4>5, <4>6, <4>7, LinkEmpty
    <3>2. CASE ~(d \notin long /\ peer[d] = "up")
      <4>1. FreshNext(d)
        BY <1>1, <1>2, <2>3 DEF FreshNext
      <4>2. ShortNext(d)
        BY <1>1 DEF GatewayInv, Short, ShortNext
      <4>3. IdleNext(d)
        BY <1>1, <3>2 DEF IdleNext
      <4> QED
        BY <4>1, <4>2, <4>3 DEF LinkNext
    <3> QED
      BY <3>1, <3>2
  <2> QED
    BY <2>2, <2>3
<1>6. ASSUME NEW s \in G!Tasks PROVE TruthNext(s)
  <2>0. s \in Requests
    BY InvTypes
  <2>1. CASE s = r
    <3>1. answer[s] # "202"
      BY <1>1, <2>1, NotAnswered
    <3>2. c \notin long => \/ s \in G!Settled
                           \/ peer[c] = "up" /\ acks[c] = 0
      BY <1>1, <2>1 DEF GatewayInv, Truth, c
    <3>3. ~(peer[c] = "up" /\ acks[c] = 0)
      BY <1>1
    <3>4. using'[s] \notin long' => s \in SettledNext
      BY <1>1, <2>1, <3>2, <3>3 DEF c, G!Settled, SettledNext
    <3> QED
      BY <1>1, <1>3, <2>1, <3>1, <3>4 DEF TruthNext
  <2>2. CASE s # r
    <3>1. pc[s] = "waiting" => using[s] \in G!Connection /\ using[s] # c
      BY <1>2, <2>0, <2>2, UsersOwn DEF G!InUse
    <3>2. pc[s] = "waiting" => acks'[using[s]] = acks[using[s]]
      BY <1>3, <3>1
    <3> QED
      BY <1>1, <1>3, <2>0, <2>2, <3>2, TruthKept
  <2> QED
    BY <2>1, <2>2
<1> QED
  BY <1>5, <1>6 DEF GatewayNext

\* On a quiet connection the body is alone, or lost on an end that was closed.
LEMMA NextOfSend ==
    ASSUME GatewayInv, NEW r \in Requests, G!Send(r)
    PROVE  GatewayNext
<1> DEFINE c == using[r]
<1>1. /\ pc[r] = "sending" /\ pc' = [pc EXCEPT ![r] = "waiting"] /\ conn[c] = "open"
      /\ UNCHANGED <<up, buffer, published, dropped, ends, pool, conn, acks, gone, using,
                     answer>>
  BY DEF G!Send
<1>2. /\ c \in G!Connection /\ ~InPool(c)
      /\ \A s \in Requests : s # r /\ pc[s] \in G!InUse => using[s] # c
  BY <1>1, UsersOwn DEF G!InUse
<1>3. \/ /\ peer[c] = "up"
         /\ \E body \in G!Bodies(r) :
               /\ wire' = [wire EXCEPT ![c] = @ \o body]
               /\ long' = IF Len(body) > 1 THEN long \cup {c} ELSE long
         /\ UNCHANGED <<peer, lost>>
      \/ /\ peer[c] = "fin"
         /\ peer' \in {peer, [peer EXCEPT ![c] = "rst"]}
         /\ lost' = lost \cup {r}
         /\ UNCHANGED <<wire, long>>
  BY DEF G!Send
<1> HIDE DEF c
<1>4. /\ pc'[r] = "waiting" /\ \A s \in Requests : s # r => pc'[s] = pc[s]
      /\ lost \subseteq lost' /\ long \subseteq long'
      /\ \A d \in G!Connection : d # c => wire'[d] = wire[d] /\ peer'[d] = peer[d]
  BY <1>1, <1>3, InvTypes
<1>5. \A s \in Requests : s # r /\ pc'[s] \in G!InUse => using'[s] # c
  BY <1>1, <1>2, <1>4
<1>6. ASSUME NEW d \in G!Connection, d # c PROVE LinkNext(d)
  <2>1. InPoolNext(d) => InPool(d)
    BY <1>1 DEF InPool, InPoolNext
  <2>2. \A s \in Requests : using'[s] = d /\ pc'[s] \in G!InUse => using[s] = d /\ pc'[s] = pc[s]
    BY <1>1, <1>4, <1>6 DEF c
  <2> QED
    BY <1>1, <1>4, <1>6, <2>1, <2>2, LinkKept
<1>7. ASSUME NEW s \in G!Tasks, s # r PROVE TruthNext(s)
  <2>0. s \in Requests
    BY InvTypes
  <2>1. pc[s] = "waiting" => using[s] \in G!Connection /\ using[s] # c
    BY <1>2, <1>7, <2>0, UsersOwn DEF G!InUse
  <2>2. pc[s] = "waiting" => wire'[using[s]] = wire[using[s]] /\ peer'[using[s]] = peer[using[s]]
    BY <1>4, <2>1
  <2> QED
    BY <1>1, <1>4, <1>7, <2>0, <2>2, TruthKept
<1>8. r \in G!Tasks => answer'[r] # "202"
  BY <1>1, NotAnswered
<1>9. FreshNext(c) /\ ~InPoolNext(c)
  BY <1>1, <1>2 DEF FreshNext, InPool, InPoolNext
<1>10. CASE /\ peer[c] = "fin"
            /\ peer' \in {peer, [peer EXCEPT ![c] = "rst"]}
            /\ lost' = lost \cup {r}
            /\ UNCHANGED <<wire, long>>
  <2>1. peer'[c] # "up"
    BY <1>2, <1>10, InvTypes
  <2>2. ShortNext(c)
    BY <1>1, <1>2, <1>10 DEF GatewayInv, Short, ShortNext
  <2>3. LinkNext(c)
    BY <1>9, <2>1, <2>2 DEF LinkNext, IdleNext
  <2>4. r \in SettledNext
    BY <1>10 DEF SettledNext
  <2>5. r \in G!Tasks => TruthNext(r)
    BY <1>4, <1>8, <2>4 DEF TruthNext
  <2> QED
    BY <1>6, <1>7, <2>3, <2>5 DEF GatewayNext
<1>11. CASE /\ peer[c] = "up"
            /\ \E body \in G!Bodies(r) :
                  /\ wire' = [wire EXCEPT ![c] = @ \o body]
                  /\ long' = IF Len(body) > 1 THEN long \cup {c} ELSE long
            /\ UNCHANGED <<peer, lost>>
  <2> DEFINE p == [req |-> r, part |-> "all"]
  <2>1. ASSUME c \notin long'
        PROVE  c \notin long /\ wire'[c] = wire[c] \o <<p>>
    <3>1. PICK body \in G!Bodies(r) :
             /\ wire' = [wire EXCEPT ![c] = @ \o body]
             /\ long' = IF Len(body) > 1 THEN long \cup {c} ELSE long
      BY <1>11
    <3>2. ~(Len(body) > 1)
      BY <2>1, <3>1
    <3> DEFINE two == <<[req |-> r, part |-> "first"], [req |-> r, part |-> "rest"]>>
               one == <<p>>
    <3>3. body = one \/ body = two
      BY <3>1 DEF G!Bodies
    <3>4. Len(two) = 2
      OBVIOUS
    <3> HIDE DEF one, two
    <3>41. body # two
      BY <3>2, <3>4
    <3>5. body = one
      BY <3>3, <3>41
    <3>6. wire'[c] = wire[c] \o body
      BY <1>2, <3>1, InvTypes
    <3>7. c \notin long
      BY <1>4, <2>1
    <3> QED
      BY <3>5, <3>6, <3>7 DEF one
  <2>2. p \in G!Piece /\ p.req = r /\ p.part = "all"
    BY DEF G!Piece
  <2> HIDE DEF p
  <2>3. wire[c] \in Seq(G!Piece)
    BY <1>2, InvTypes
  <2>4. ShortNext(c)
    <3>1. SUFFICES ASSUME c \notin long'
                   PROVE  /\ buffer'[c] = <<>>
                          /\ \A i \in 1..Len(wire'[c]) : wire'[c][i].part = "all"
      BY DEF ShortNext
    <3>2. /\ buffer[c] = <<>>
          /\ \A i \in 1..Len(wire[c]) : wire[c][i].part = "all"
      BY <1>2, <2>1, <3>1 DEF GatewayInv, Short
    <3>3. ASSUME NEW i \in 1..Len(wire'[c]) PROVE wire'[c][i].part = "all"
      <4> DEFINE w == wire[c] \o <<p>>
      <4>1. /\ Len(w) = Len(wire[c]) + 1 /\ Len(wire[c]) \in Nat
            /\ w[Len(wire[c]) + 1] = p
            /\ \A j \in 1..Len(wire[c]) : w[j] = wire[c][j]
        BY <2>2, <2>3
      <4> HIDE DEF w
      <4>2. wire'[c] = w
        BY <2>1, <3>1 DEF w
      <4>3. i \in 1..Len(wire[c]) \/ i = Len(wire[c]) + 1
        BY <4>1, <4>2
      <4> QED
        BY <2>2, <3>2, <4>1, <4>2, <4>3
    <3> QED
      BY <1>1, <3>2, <3>3
  <2>5. ASSUME c \notin long'
        PROVE  acks[c] = 0 /\ Len(wire'[c]) = 1 /\ r \in G!Carried(wire'[c])
    <3>1. acks[c] = 0 /\ wire[c] = <<>>
      BY <1>1, <1>2, <1>11, <2>1, <2>5, IdleOf DEF c
    <3>2. <<>> \o <<p>> = <<p>> /\ Len(<<p>>) = 1 /\ <<p>>[1] = p
      BY <2>2
    <3>3. wire'[c] = <<p>>
      BY <2>1, <2>5, <3>1, <3>2
    <3>4. 1 \in 1..Len(wire'[c]) /\ wire'[c][1].req = r
      BY <2>2, <3>2, <3>3
    <3>5. r \in G!Carried(wire'[c])
      BY <3>4 DEF G!Carried
    <3> QED
      BY <3>1, <3>2, <3>3, <3>5
  <2>6. IdleNext(c)
    <3>1. \A s \in Requests : using'[s] = c /\ pc'[s] \in G!InUse => s = r
      BY <1>5
    <3>2. c \notin long' => acks'[c] = 0 /\ Len(wire'[c]) = 1
      BY <1>1, <2>5
    <3>3. ASSUME NEW a, NEW l, a = 0, l = 1 PROVE a + l <= 1
      BY <3>3
    <3>4. c \notin long' => acks'[c] + Len(wire'[c]) <= 1
      BY <3>2, <3>3
    <3> QED
      BY <1>4, <1>9, <3>1, <3>4 DEF IdleNext, G!InUse
  <2>7. r \in G!Tasks => TruthNext(r)
    BY <1>1, <1>4, <1>8, <1>11, <2>5 DEF TruthNext, c
  <2>8. LinkNext(c)
    BY <1>9, <2>4, <2>6 DEF LinkNext
  <2> QED
    BY <1>6, <1>7, <2>7, <2>8 DEF GatewayNext
<1> QED
  BY <1>3, <1>10, <1>11

\* Where no body came in two, a read finds whole lines, and nothing before them.
LEMMA ShortText ==
    ASSUME GatewayInv, NEW c \in G!Connection, c \notin long, NEW n \in 1..Len(wire[c])
    PROVE  /\ Len(buffer[c] \o SubSeq(wire[c], 1, n)) = n
           /\ \A i \in 1..n :
                 /\ (buffer[c] \o SubSeq(wire[c], 1, n))[i] = wire[c][i]
                 /\ wire[c][i].part = "all"
<1>1. buffer[c] = <<>> /\ \A i \in 1..Len(wire[c]) : wire[c][i].part = "all"
  BY DEF GatewayInv, Short
<1>2. wire[c] \in Seq(G!Piece) /\ Len(wire[c]) \in Nat
  BY InvTypes
<1>3. \A i \in 1..n : i \in 1..Len(wire[c])
  BY <1>2
<1>4. n \in 1..Len(wire[c]) /\ 1 \in 1..(Len(wire[c]) + 1)
  BY <1>2
<1>5. /\ SubSeq(wire[c], 1, n) \in Seq(G!Piece)
      /\ Len(SubSeq(wire[c], 1, n)) = n
  BY InvTypes, ReadTypes
<1>6. \A i \in 1..n : SubSeq(wire[c], 1, n)[i] = wire[c][i]
  BY <1>2
<1>7. <<>> \o SubSeq(wire[c], 1, n) = SubSeq(wire[c], 1, n)
  BY <1>5
<1> QED
  BY <1>1, <1>3, <1>5, <1>6, <1>7

\* What the threads that use the connection the coordinator reads wait for.
LEMMA ReadIdle ==
    ASSUME GatewayInv, NEW c \in G!Connection, c \notin long, peer[c] = "up",
           NEW n \in 1..Len(wire[c])
    PROVE  /\ conn[c] # "unused" /\ ~InPool(c)
           /\ \A s \in Requests : using[s] = c =>
                 /\ pc[s] \notin {"sending", "releasing"}
                 /\ pc[s] = "waiting" => acks[c] = 0 /\ Len(wire[c]) = 1 /\ n = 1
<1>1. wire[c] \in Seq(G!Piece) /\ Len(wire[c]) \in Nat /\ acks[c] \in Nat /\ Len(<<>>) = 0
  BY InvTypes
<1>2. wire[c] # <<>>
  BY <1>1
<1>3. conn[c] # "unused"
  BY <1>2 DEF GatewayInv, Fresh
<1>4. \A s \in Requests : using[s] = c =>
         /\ pc[s] \notin {"sending", "releasing"}
         /\ pc[s] = "waiting" => acks[c] + Len(wire[c]) <= 1
  <2>1. \A s \in Requests : using[s] = c =>
           /\ pc[s] \in {"sending", "releasing"} => acks[c] = 0 /\ wire[c] = <<>>
           /\ pc[s] = "waiting" => acks[c] + Len(wire[c]) <= 1
    BY IdleOf
  <2> QED
    BY <1>2, <2>1
<1>0. ASSUME NEW a \in Nat, NEW l \in Nat, NEW m \in 1..l, a + l <= 1
      PROVE  a = 0 /\ l = 1 /\ m = 1
  BY <1>0
<1>5. acks[c] + Len(wire[c]) <= 1 => acks[c] = 0 /\ Len(wire[c]) = 1 /\ n = 1
  BY <1>0, <1>1
<1>6. ~InPool(c)
  BY <1>2, IdleOf
<1> QED
  BY <1>3, <1>4, <1>5, <1>6

\* A connection that was not made has nothing to read.
LEMMA ReadMade ==
    ASSUME GatewayInv, NEW c \in G!Connection, NEW n \in 1..Len(wire[c])
    PROVE  conn[c] # "unused"
<1>1. wire[c] \in Seq(G!Piece) /\ Len(wire[c]) \in Nat /\ Len(<<>>) = 0
  BY InvTypes
<1>2. wire[c] # <<>>
  BY <1>1
<1> QED
  BY <1>2 DEF GatewayInv, Fresh

\* On a quiet connection a read takes the one body, whole, and settles it before the reply.
LEMMA NextOfRead ==
    ASSUME GatewayInv, NEW c \in G!Connection, G!Read(c)
    PROVE  GatewayNext
<1> DEFINE Text(n) == buffer[c] \o SubSeq(wire[c], 1, n)
<1>1. PICK n \in 1..Len(wire[c]) :
         /\ G!Publish(Text(n), Len(Text(n)))
         /\ buffer' = [buffer EXCEPT ![c] = G!Remainder(Text(n))]
         /\ wire' = [wire EXCEPT ![c] = SubSeq(@, n + 1, Len(@))]
         /\ acks' = [acks EXCEPT ![c] = @ + G!Replies(published' \ published)]
  BY DEF G!Read
<1> DEFINE text == Text(n)
<1> HIDE DEF Text
<1>2. /\ peer[c] = "up"
      /\ UNCHANGED <<up, peer, ends, pool, conn, lost, long, gone, pc, using, answer>>
  BY DEF G!Read, G!thread
<1>3. /\ \A d \in G!Connection : d # c =>
            wire'[d] = wire[d] /\ buffer'[d] = buffer[d] /\ acks'[d] = acks[d]
      /\ wire'[c] = SubSeq(wire[c], n + 1, Len(wire[c]))
      /\ buffer'[c] = G!Remainder(text) /\ acks'[c] = acks[c] + 1
  BY <1>1, InvTypes DEF G!Replies
<1>4. Len(text) \in Nat
  BY ReadTypes, InvTypes DEF Text
<1> HIDE DEF text
<1>5. /\ published \subseteq published' /\ dropped \subseteq dropped'
      /\ \A i \in 1..Len(text) : G!Whole(text, i) /\ text[i].req \in G!Tasks =>
            text[i].req \in published' \cup dropped'
  BY <1>1, <1>4, InvTypes, PublishTypes DEF text
<1>6. c \notin long => /\ Len(text) = n
                       /\ \A i \in 1..n : text[i] = wire[c][i] /\ wire[c][i].part = "all"
  BY ShortText DEF text, Text
<1>7. conn[c] # "unused"
  BY ReadMade
<1>8. /\ wire[c] \in Seq(G!Piece) /\ Len(wire[c]) \in Nat /\ n \in 1..Len(wire[c])
      /\ acks[c] \in Nat
  BY InvTypes
<1>9. ASSUME NEW d \in G!Connection, d # c PROVE LinkNext(d)
  <2>1. InPoolNext(d) => InPool(d)
    BY <1>2 DEF InPool, InPoolNext
  <2> QED
    BY <1>2, <1>3, <1>9, <2>1, LinkKept
<1>10. FreshNext(c)
  BY <1>2, <1>7 DEF FreshNext
<1>11. ShortNext(c)
  <2>1. SUFFICES ASSUME c \notin long'
                 PROVE  /\ buffer'[c] = <<>>
                        /\ \A i \in 1..Len(wire'[c]) : wire'[c][i].part = "all"
    BY DEF ShortNext
  <2>2. c \notin long
    BY <1>2, <2>1
  <2>3. n \in 1..n
    BY <1>8
  <2>4. text[Len(text)].part = "all"
    BY <1>6, <2>2, <2>3
  <2>5. buffer'[c] = <<>>
    BY <1>3, <2>4 DEF G!Remainder
  <2>6. \A i \in 1..Len(wire[c]) : wire[c][i].part = "all"
    BY <2>2 DEF GatewayInv, Short
  <2>7. \A i \in 1..Len(wire'[c]) : wire'[c][i].part = "all"
    BY <1>3, <1>8, <2>6
  <2> QED
    BY <2>5, <2>7
<1>12. IdleNext(c)
  <2>1. SUFFICES ASSUME c \notin long', peer'[c] = "up"
                 PROVE  /\ ~InPoolNext(c)
                        /\ \A s \in Requests : using'[s] = c =>
                              /\ pc'[s] \notin {"sending", "releasing"}
                              /\ pc'[s] = "waiting" => acks'[c] + Len(wire'[c]) <= 1
    BY DEF IdleNext
  <2>2. /\ ~InPool(c)
        /\ \A s \in Requests : using[s] = c =>
              /\ pc[s] \notin {"sending", "releasing"}
              /\ pc[s] = "waiting" => acks[c] = 0 /\ Len(wire[c]) = 1 /\ n = 1
    BY <1>2, <2>1, ReadIdle
  <2>3. ASSUME acks[c] = 0, Len(wire[c]) = 1, n = 1 PROVE acks'[c] + Len(wire'[c]) <= 1
    <3>1. Len(SubSeq(wire[c], 2, 1)) = 0
      BY <1>8
    <3>2. acks'[c] = 1 /\ Len(wire'[c]) = 0
      BY <1>3, <2>3, <3>1
    <3>3. ASSUME NEW a, NEW l, a = 1, l = 0 PROVE a + l <= 1
      BY <3>3
    <3> QED
      BY <3>2, <3>3
  <2> QED
    BY <1>2, <2>2, <2>3 DEF InPool, InPoolNext
<1>13. ASSUME NEW s \in G!Tasks PROVE TruthNext(s)
  <2>0. s \in Requests
    BY InvTypes
  <2>1. ASSUME using[s] = c, pc[s] = "waiting", c \notin long, s \in G!Carried(wire[c])
        PROVE  s \in SettledNext
    <3>1. Len(wire[c]) = 1 /\ n = 1
      BY <1>2, <2>0, <2>1, ReadIdle
    <3>2. wire[c][1].req = s
      BY <2>1, <3>1 DEF G!Carried
    <3>3. 1 \in 1..Len(text) /\ text[1].req = s /\ text[1].part = "all"
      BY <1>6, <2>1, <3>1, <3>2
    <3>4. s \in published' \cup dropped'
      BY <1>5, <3>3 DEF G!Whole
    <3> QED
      BY <3>4 DEF SettledNext
  <2>2. pc[s] = "waiting" => using[s] \in G!Connection
    BY <2>0, UsersOwn DEF G!InUse
  <2>3. \/ pc[s] # "waiting"
        \/ using[s] = c
        \/ wire'[using[s]] = wire[using[s]] /\ acks'[using[s]] = acks[using[s]]
    BY <1>3, <2>2
  <2> QED
    BY <1>2, <1>5, <2>1, <2>3, TruthKept
<1> QED
  BY <1>9, <1>10, <1>11, <1>12, <1>13 DEF GatewayNext, LinkNext

\* A read that raises had an odd body, so no task is on a quiet connection.
LEMMA NextOfReadRaises ==
    ASSUME GatewayInv, NEW c \in G!Connection, G!ReadRaises(c)
    PROVE  GatewayNext
<1> DEFINE Text(n) == buffer[c] \o SubSeq(wire[c], 1, n)
<1>1. PICK n \in 1..Len(wire[c]) :
         \E stop \in 1..Len(Text(n)) :
            /\ G!Whole(Text(n), stop) /\ Text(n)[stop].req \in Odd
            /\ G!Publish(Text(n), stop)
            /\ lost' = lost \cup G!Carried(SubSeq(Text(n), stop + 1, Len(Text(n))))
                            \cup G!Carried(SubSeq(wire[c], n + 1, Len(wire[c])))
            /\ peer' = [peer EXCEPT ![c] = IF n < Len(wire[c]) THEN "rst" ELSE "fin"]
  BY DEF G!ReadRaises
<1> DEFINE text == Text(n)
<1> HIDE DEF Text
<1>2. PICK stop \in 1..Len(text) :
         /\ text[stop].req \in Odd
         /\ G!Publish(text, stop)
         /\ lost \subseteq lost'
         /\ peer' = [peer EXCEPT ![c] = IF n < Len(wire[c]) THEN "rst" ELSE "fin"]
  BY <1>1
<1>3. /\ buffer' = [buffer EXCEPT ![c] = <<>>] /\ wire' = [wire EXCEPT ![c] = <<>>]
      /\ peer[c] = "up"
      /\ UNCHANGED <<up, ends, pool, conn, acks, long, gone, pc, using, answer>>
  BY DEF G!ReadRaises, G!thread
<1>4. /\ \A d \in G!Connection : d # c =>
            wire'[d] = wire[d] /\ buffer'[d] = buffer[d] /\ peer'[d] = peer[d]
      /\ wire'[c] = <<>> /\ buffer'[c] = <<>> /\ peer'[c] # "up"
  BY <1>2, <1>3, InvTypes
<1>5. Len(text) \in Nat /\ stop \in Nat
  <2>1. Len(text) \in Nat
    BY ReadTypes, InvTypes DEF Text
  <2> QED
    BY <2>1
<1> HIDE DEF text
<1>6. published \subseteq published' /\ dropped \subseteq dropped'
  BY <1>2, <1>5, InvTypes, PublishTypes
<1>7. c \notin long => Len(text) = n /\ \A i \in 1..n : text[i] = wire[c][i]
  BY ShortText DEF text, Text
<1>8. conn[c] # "unused"
  BY ReadMade
<1>9. ASSUME NEW d \in G!Connection PROVE LinkNext(d)
  <2>1. CASE d = c
    <3>1. Len(<<>>) = 0
      OBVIOUS
    <3> QED
      BY <1>3, <1>4, <1>8, <2>1, <3>1 DEF LinkNext, FreshNext, ShortNext, IdleNext
  <2>2. CASE d # c
    <3>1. InPoolNext(d) => InPool(d)
      BY <1>3 DEF InPool, InPoolNext
    <3> QED
      BY <1>3, <1>4, <2>2, <3>1, LinkKept
  <2> QED
    BY <2>1, <2>2
<1>10. ASSUME NEW s \in G!Tasks PROVE TruthNext(s)
  <2>0. s \in Requests
    BY InvTypes
  <2>1. ASSUME using[s] = c, pc[s] = "waiting", c \notin long, s \in G!Carried(wire[c])
        PROVE  FALSE
    <3>1. Len(wire[c]) = 1 /\ n = 1
      BY <1>3, <2>0, <2>1, ReadIdle
    <3>2. wire[c][1].req = s
      BY <2>1, <3>1 DEF G!Carried
    <3>3. stop = 1
      <4>1. stop \in 1..1
        BY <1>7, <2>1, <3>1
      <4> QED
        BY <4>1
    <3>4. text[stop].req = s
      BY <1>7, <2>1, <3>1, <3>2, <3>3
    <3> QED
      BY <1>2, <3>4 DEF G!Tasks
  <2>2. pc[s] = "waiting" => using[s] \in G!Connection
    BY <2>0, UsersOwn DEF G!InUse
  <2>3. \/ pc[s] # "waiting"
        \/ using[s] = c
        \/ wire'[using[s]] = wire[using[s]] /\ peer'[using[s]] = peer[using[s]]
    BY <1>4, <2>2
  <2> QED
    BY <1>2, <1>3, <1>6, <2>1, <2>3, TruthKept
<1> QED
  BY <1>9, <1>10 DEF GatewayNext

LEMMA GatewayStep ==
    ASSUME GatewayInv, G!Next
    PROVE  GatewayNext
<1>1. CASE \E r \in Requests : G!Arrive(r) \/ G!Unavailable(r)
  BY <1>1, NextOfArrive
<1>2. CASE \E r \in Requests : G!TakePooled(r)
  BY <1>2, NextOfTake
<1>3. CASE \E r \in Requests : G!OpenNew(r)
  BY <1>3, NextOfOpen
<1>4. CASE \E r \in Requests : G!Send(r)
  BY <1>4, NextOfSend
<1>5. CASE \E r \in Requests : G!Receive(r)
  BY <1>5, NextOfReceive
<1>6. CASE \E r \in Requests : G!SendRaises(r) \/ G!ReceiveRaises(r)
  BY <1>6, NextOfRaise
<1>7. CASE \E r \in Requests : G!Release(r)
  BY <1>7, NextOfRelease
<1>8. CASE \E r \in Requests : G!Answer(r)
  BY <1>8, NextOfAnswer
<1>9. CASE \E c \in G!Connection : G!Read(c)
  BY <1>9, NextOfRead
<1>10. CASE \E c \in G!Connection : G!ReadRaises(c)
  BY <1>10, NextOfReadRaises
<1>11. CASE G!EndCoordinator
  BY <1>11, NextOfEnd
<1>12. CASE G!StartCoordinator
  BY <1>12, NextOfStart
<1> QED
  BY <1>1, <1>2, <1>3, <1>4, <1>5, <1>6, <1>7, <1>8, <1>9, <1>10, <1>11, <1>12, GatewayActions

LEMMA GatewayInit == G!Init => GatewayInv
<1> SUFFICES ASSUME G!Init PROVE GatewayInv
  OBVIOUS
<1>1. /\ conn = [c \in G!Connection |-> IF c <= InitialSize THEN "open" ELSE "unused"]
      /\ wire = [c \in G!Connection |-> <<>>] /\ buffer = [c \in G!Connection |-> <<>>]
      /\ acks = [c \in G!Connection |-> 0]
      /\ pc = [r \in Requests |-> "new"] /\ answer = [r \in Requests |-> "none"]
      /\ Len(<<>>) = 0
  BY DEF G!Init
<1>2. Fresh /\ Short
  BY <1>1 DEF Fresh, Short
<1>3. Idle
  BY <1>1 DEF Idle
<1>4. Truth
  BY <1>1 DEF Truth, G!Tasks
<1> QED
  BY <1>2, <1>3, <1>4, OwnershipInit DEF GatewayInv

LEMMA GatewayAlways == PartsSpec => []GatewayInv
<1>1. PartsInit => GatewayInv
  BY GatewayInit DEF PartsInit
<1>2. GatewayInv /\ [PartsNext]_<<part, vars, gateway, cache>> => GatewayInv'
  <2> SUFFICES ASSUME GatewayInv, [PartsNext]_<<part, vars, gateway, cache>>
               PROVE  GatewayInv'
    OBVIOUS
  <2>1. OwnershipInv'
    BY OwnershipSteps DEF GatewayInv
  <2>2. GatewayNext
    <3>1. CASE G!Next
      BY <3>1, GatewayStep
    <3>2. CASE UNCHANGED gateway
      <4>1. UNCHANGED <<up, pool, conn, peer, wire, buffer, acks, pc, using, answer, published,
                        dropped, lost, long, ends, gone>>
        BY <3>2 DEF gateway
      <4>2. ASSUME NEW d \in G!Connection PROVE LinkNext(d)
        <5>1. InPoolNext(d) => InPool(d)
          BY <4>1 DEF InPool, InPoolNext
        <5> QED
          BY <4>1, <5>1, LinkKept
      <4>3. ASSUME NEW s \in G!Tasks PROVE TruthNext(s)
        BY <4>1, TruthKept
      <4> QED
        BY <4>2, <4>3 DEF GatewayNext
    <3> QED
      BY <3>1, <3>2 DEF PartsNext
  <2>3. Fresh' /\ Short' /\ Idle' /\ Truth'
    BY <2>2, NextParts
  <2> QED
    BY <2>1, <2>3 DEF GatewayInv
<1> QED
  BY <1>1, <1>2, PTL DEF PartsSpec

\* A client that has read 202 has a task whose fate is settled, however the threads
\* shared the connections, unless its own carried a body in two pieces
\* (router.py:231-241).
THEOREM AnswersAreTrue == PartsSpec => []AnsweredWhenSettled
<1>1. GatewayInv => AnsweredWhenSettled
  BY DEF GatewayInv, Truth, AnsweredWhenSettled, G!AnsweredWhenSettled
<1> QED
  BY <1>1, GatewayAlways, PTL

-----------------------------------------------------------------------------
(* The gateway: what becomes of a task that was accepted                   *)

\* The thread has sent the body, and has not failed since.
Sent(r) == pc[r] \in {"waiting", "releasing", "answering"} \/ answer[r] = "202"

\* The end of the line of r is on its way to a coordinator that still reads.
Coming(r) ==
    /\ peer[using[r]] = "up"
    /\ \E i \in 1..Len(wire[using[r]]) :
          wire[using[r]][i].req = r /\ wire[using[r]][i].part # "first"

\* The second piece of a body comes after the first, which is the piece before it on the
\* wire, or the end of what was kept of the pieces read.
Joined ==
    \A c \in G!Connection :
        /\ \A i \in 1..Len(buffer[c]) : buffer[c][i].part = "first"
        /\ \A i \in 1..Len(wire[c]) : wire[c][i].part = "rest" =>
              IF i > 1 THEN wire[c][i - 1] = [req |-> wire[c][i].req, part |-> "first"]
              ELSE /\ buffer[c] # <<>>
                   /\ buffer[c][Len(buffer[c])] = [req |-> wire[c][i].req, part |-> "first"]

\* No body that was sent is lost from sight.
InSight ==
    \A r \in G!Tasks : Sent(r) =>
        using[r] \in G!Connection /\ (r \in G!Settled \/ Coming(r))

\* A task that was answered 202 is settled, or the end of its line is still to be read by
\* a coordinator that has not closed the connection, so that the next reads settle it
\* (router.py:231-241, event_bus.py:155-180).
AcceptedIsInSight ==
    \A r \in G!Tasks : answer[r] = "202" => r \in G!Settled \/ Coming(r)

InSightInv == Joined /\ InSight

\* The same of the next state.
JoinedNext(c) ==
    /\ \A i \in 1..Len(buffer'[c]) : buffer'[c][i].part = "first"
    /\ \A i \in 1..Len(wire'[c]) : wire'[c][i].part = "rest" =>
          IF i > 1 THEN wire'[c][i - 1] = [req |-> wire'[c][i].req, part |-> "first"]
          ELSE /\ buffer'[c] # <<>>
               /\ buffer'[c][Len(buffer'[c])] = [req |-> wire'[c][i].req, part |-> "first"]

SentNext(r) == pc'[r] \in {"waiting", "releasing", "answering"} \/ answer'[r] = "202"

ComingNext(r) ==
    /\ peer'[using'[r]] = "up"
    /\ \E i \in 1..Len(wire'[using'[r]]) :
          wire'[using'[r]][i].req = r /\ wire'[using'[r]][i].part # "first"

InSightNext(r) == SentNext(r) =>
    using'[r] \in G!Connection /\ (r \in SettledNext \/ ComingNext(r))

\* What a step has to show.
SightNext ==
    (\A d \in G!Connection : JoinedNext(d)) /\ (\A r \in G!Tasks : InSightNext(r))

LEMMA SightParts ==
    ASSUME SightNext
    PROVE  InSightInv'
<1>1. Joined'
  BY DEF SightNext, JoinedNext, Joined
<1>2. InSight'
  BY DEF SightNext, InSightNext, SentNext, ComingNext, SettledNext, InSight, Sent, Coming,
         G!Settled
<1> QED
  BY <1>1, <1>2 DEF InSightInv

\* A connection the step leaves alone, or empties on the wire.
LEMMA JoinedKept ==
    ASSUME InSightInv, NEW d \in G!Connection, wire'[d] \in {wire[d], <<>>},
           buffer'[d] = buffer[d]
    PROVE  JoinedNext(d)
<1>1. Len(<<>>) = 0
  OBVIOUS
<1>2. CASE wire'[d] = wire[d]
  BY <1>2 DEF InSightInv, Joined, JoinedNext
<1>3. CASE wire'[d] = <<>>
  BY <1>1, <1>3 DEF InSightInv, Joined, JoinedNext
<1> QED
  BY <1>2, <1>3

\* A connection with nothing on it after the step.
LEMMA JoinedEmpty ==
    ASSUME NEW d, wire'[d] = <<>>, buffer'[d] = <<>>
    PROVE  JoinedNext(d)
<1>1. Len(<<>>) = 0
  OBVIOUS
<1> QED
  BY <1>1 DEF JoinedNext

\* A thread the step does not let send, and what the step does to its body.
LEMMA InSightKept ==
    ASSUME InSightInv, NEW s \in G!Tasks,
           SentNext(s) => Sent(s) /\ using'[s] = using[s],
           published \subseteq published', dropped \subseteq dropped', lost \subseteq lost',
           Coming(s) /\ using[s] \in G!Connection /\ using'[s] = using[s]
              => s \in SettledNext \/ ComingNext(s)
    PROVE  InSightNext(s)
<1>1. s \in G!Settled => s \in SettledNext
  BY DEF G!Settled, SettledNext
<1>2. Sent(s) => using[s] \in G!Connection /\ (s \in G!Settled \/ Coming(s))
  BY DEF InSightInv, InSight
<1> QED
  BY <1>1, <1>2 DEF InSightNext

\* A step of a thread that sends nothing: it may close a connection.
LEMMA SightOfThread ==
    ASSUME InSightInv,
           \A d \in G!Connection : wire'[d] \in {wire[d], <<>>},
           \A d \in G!Connection : \A s \in G!Carried(wire[d]) :
              s \in G!Carried(wire'[d]) \cup lost',
           published \subseteq published', dropped \subseteq dropped', lost \subseteq lost',
           UNCHANGED <<peer, buffer>>,
           \A s \in G!Tasks : SentNext(s) => Sent(s) /\ using'[s] = using[s]
    PROVE  SightNext
<1>1. \A d \in G!Connection : JoinedNext(d)
  BY JoinedKept
<1>2. ASSUME NEW s \in G!Tasks PROVE InSightNext(s)
  <2>1. ASSUME Coming(s), using[s] \in G!Connection, using'[s] = using[s]
        PROVE  s \in SettledNext \/ ComingNext(s)
    <3> DEFINE d == using[s]
    <3>1. CASE wire'[d] = wire[d]
      BY <2>1, <3>1 DEF Coming, ComingNext
    <3>2. CASE wire'[d] = <<>>
      <4>1. s \in G!Carried(wire[d])
        BY <2>1 DEF Coming, G!Carried
      <4>2. Len(<<>>) = 0
        OBVIOUS
      <4>3. s \notin G!Carried(wire'[d])
        BY <3>2, <4>2 DEF G!Carried
      <4> QED
        BY <2>1, <4>1, <4>3 DEF SettledNext
    <3> QED
      BY <2>1, <3>1, <3>2
  <2> QED
    BY <2>1, InSightKept
<1> QED
  BY <1>1, <1>2 DEF SightNext

\* Before it waits a thread has not sent.
LEMMA NotSent ==
    ASSUME GatewayInv, NEW s \in G!Tasks, pc[s] \in {"new", "getting", "sending"}
    PROVE  ~Sent(s)
BY NotAnswered DEF Sent

LEMMA SightOfQuiet ==
    ASSUME GatewayInv, InSightInv, NEW r \in Requests,
           \/ G!Arrive(r) \/ G!Unavailable(r) \/ G!TakePooled(r) \/ G!OpenNew(r)
           \/ G!Receive(r)
    PROVE  SightNext
<1>1. UNCHANGED <<peer, wire, buffer, published, dropped, lost>>
  BY DEF G!Arrive, G!Unavailable, G!TakePooled, G!OpenNew, G!Receive, G!loop, G!link
<1>2. ASSUME NEW s \in G!Tasks, SentNext(s) PROVE Sent(s) /\ using'[s] = using[s]
  <2>0. s \in Requests
    BY InvTypes
  <2>1. CASE G!Receive(r)
    <3>1. /\ pc[r] = "waiting" /\ pc' = [pc EXCEPT ![r] = "releasing"]
          /\ UNCHANGED <<using, answer>>
      BY <2>1 DEF G!Receive
    <3> QED
      BY <1>2, <2>0, <3>1, InvTypes DEF Sent, SentNext
  <2>2. CASE G!Arrive(r) \/ G!Unavailable(r)
    <3>1. /\ pc[r] \in {"new", "getting"} /\ using' = using
          /\ \E p \in {"getting", "done"} : pc' = [pc EXCEPT ![r] = p]
          /\ answer' = answer \/ \E a \in {"rejected", "503"} : answer' = [answer EXCEPT ![r] = a]
      BY <2>2 DEF G!Arrive, G!Unavailable, G!link
    <3> QED
      BY <1>2, <2>0, <3>1, InvTypes, NotAnswered DEF Sent, SentNext
  <2>3. CASE G!TakePooled(r) \/ G!OpenNew(r)
    <3>1. /\ pc[r] = "getting" /\ answer' = answer
          /\ pc' = [pc EXCEPT ![r] = "sending"]
          /\ \E c : using' = [using EXCEPT ![r] = c]
      BY <2>3 DEF G!TakePooled, G!OpenNew
    <3> QED
      BY <1>2, <2>0, <3>1, InvTypes, NotAnswered DEF Sent, SentNext
  <2> QED
    BY <2>1, <2>2, <2>3
<1> QED
  BY <1>1, <1>2, SightOfThread

LEMMA SightOfClosing ==
    ASSUME GatewayInv, InSightInv, NEW r \in Requests,
           \/ G!SendRaises(r) \/ G!ReceiveRaises(r) \/ G!Release(r) \/ G!Answer(r)
    PROVE  SightNext
<1>1. /\ using[r] \in G!Connection
      /\ UNCHANGED <<wire, lost>> \/ G!Close(using[r])
      /\ UNCHANGED <<peer, buffer, published, dropped, using>>
      /\ \/ /\ pc' = [pc EXCEPT ![r] = "done"]
            /\ answer' = [answer EXCEPT ![r] = "500"]
         \/ /\ pc[r] = "releasing" /\ pc' = [pc EXCEPT ![r] = "answering"]
            /\ answer' = answer
         \/ /\ pc[r] = "answering" /\ pc' = [pc EXCEPT ![r] = "done"]
            /\ answer' = answer \/ answer' = [answer EXCEPT ![r] = "202"]
  <2>1. CASE G!SendRaises(r) \/ G!ReceiveRaises(r)
    BY <2>1, InvTypes, RaiseParts
  <2>2. CASE G!Release(r)
    BY <2>2, InvTypes, ReleaseParts
  <2>3. CASE G!Answer(r)
    BY <2>3, InvTypes, AnswerParts
  <2> QED
    BY <2>1, <2>2, <2>3
<1>2. /\ \A d \in G!Connection : wire'[d] \in {wire[d], <<>>}
      /\ \A d \in G!Connection : \A s \in G!Carried(wire[d]) :
            s \in G!Carried(wire'[d]) \cup lost'
      /\ lost \subseteq lost'
  <2>1. CASE UNCHANGED <<wire, lost>>
    BY <2>1
  <2>2. CASE G!Close(using[r])
    <3>1. /\ lost \subseteq lost'
          /\ \A d \in G!Connection : d # using[r] => wire'[d] = wire[d]
          /\ wire'[using[r]] = wire[using[r]] \/ wire'[using[r]] = <<>>
          /\ \A s \in G!Carried(wire[using[r]]) : s \in G!Carried(wire'[using[r]]) \cup lost'
      BY <1>1, <2>2, InvTypes, CloseTypes
    <3> QED
      BY <3>1
  <2> QED
    BY <1>1, <2>1, <2>2
<1>3. ASSUME NEW s \in G!Tasks, SentNext(s) PROVE Sent(s) /\ using'[s] = using[s]
  <2>1. s \in Requests
    BY InvTypes
  <2> QED
    BY <1>1, <1>3, <2>1, InvTypes DEF Sent, SentNext
<1> QED
  BY <1>1, <1>2, <1>3, SightOfThread

LEMMA SightOfEnd ==
    ASSUME GatewayInv, InSightInv, G!EndCoordinator
    PROVE  SightNext
<1>1. /\ lost' = lost \cup UNION {G!Carried(buffer[d] \o wire[d]) : d \in G!Connection}
      /\ wire' = [d \in G!Connection |-> <<>>]
      /\ buffer' = [d \in G!Connection |-> <<>>]
      /\ UNCHANGED <<published, dropped, pc, using, answer>>
  BY DEF G!EndCoordinator, G!thread
<1>2. ASSUME NEW d \in G!Connection PROVE JoinedNext(d)
  BY <1>1, JoinedEmpty
<1>3. ASSUME NEW s \in G!Tasks PROVE InSightNext(s)
  <2>1. ASSUME Coming(s), using[s] \in G!Connection PROVE s \in SettledNext
    <3> DEFINE d == using[s]
    <3>1. d \in G!Connection /\ wire[d] \in Seq(G!Piece) /\ buffer[d] \in Seq(G!Piece)
      BY <2>1, InvTypes
    <3>2. s \in G!Carried(wire[d])
      BY <2>1 DEF Coming, G!Carried
    <3> HIDE DEF d
    <3>3. s \in G!Carried(buffer[d] \o wire[d])
      BY <3>1, <3>2, CarriedBehind
    <3> QED
      BY <1>1, <3>1, <3>3 DEF SettledNext
  <2>2. SentNext(s) => Sent(s) /\ using'[s] = using[s]
    BY <1>1 DEF Sent, SentNext
  <2> QED
    BY <1>1, <2>1, <2>2, InSightKept
<1> QED
  BY <1>2, <1>3 DEF SightNext

LEMMA SightOfSend ==
    ASSUME GatewayInv, InSightInv, NEW r \in Requests, G!Send(r)
    PROVE  SightNext
<1> DEFINE c == using[r]
<1>1. /\ pc[r] = "sending" /\ pc' = [pc EXCEPT ![r] = "waiting"]
      /\ UNCHANGED <<buffer, published, dropped, using, answer>>
  BY DEF G!Send
<1>2. c \in G!Connection /\ wire[c] \in Seq(G!Piece)
  BY <1>1, UsersOwn, InvTypes DEF G!InUse
<1>3. \/ /\ peer[c] = "up" /\ peer' = peer /\ lost' = lost
         /\ \E body \in G!Bodies(r) : wire' = [wire EXCEPT ![c] = @ \o body]
      \/ /\ peer[c] # "up" /\ peer' \in {peer, [peer EXCEPT ![c] = "rst"]}
         /\ lost' = lost \cup {r} /\ wire' = wire
  BY DEF G!Send
<1> HIDE DEF c
<1>4. /\ pc'[r] = "waiting" /\ \A s \in Requests : s # r => pc'[s] = pc[s]
      /\ lost \subseteq lost'
      /\ \A d \in G!Connection : d # c => wire'[d] = wire[d] /\ peer'[d] = peer[d]
  BY <1>1, <1>3, InvTypes
<1>5. ASSUME NEW s \in G!Tasks, s # r PROVE SentNext(s) => Sent(s) /\ using'[s] = using[s]
  <2>1. s \in Requests
    BY InvTypes
  <2> QED
    BY <1>1, <1>4, <1>5, <2>1 DEF Sent, SentNext
<1>6. CASE /\ peer[c] # "up" /\ peer' \in {peer, [peer EXCEPT ![c] = "rst"]}
           /\ lost' = lost \cup {r} /\ wire' = wire
  <2>1. \A d \in G!Connection : JoinedNext(d)
    BY <1>1, <1>6, JoinedKept
  <2>2. ASSUME NEW s \in G!Tasks PROVE InSightNext(s)
    <3>1. CASE s = r
      BY <1>1, <1>2, <1>6, <3>1 DEF InSightNext, SettledNext, c
    <3>2. CASE s # r
      <4>1. Coming(s) /\ using[s] \in G!Connection /\ using'[s] = using[s] => ComingNext(s)
        BY <1>4, <1>6 DEF Coming, ComingNext
      <4> QED
        BY <1>1, <1>4, <1>5, <3>2, <4>1, InSightKept
    <3> QED
      BY <3>1, <3>2
  <2> QED
    BY <2>1, <2>2 DEF SightNext
<1>7. CASE /\ peer[c] = "up" /\ peer' = peer /\ lost' = lost
           /\ \E body \in G!Bodies(r) : wire' = [wire EXCEPT ![c] = @ \o body]
  <2> DEFINE all   == [req |-> r, part |-> "all"]
             first == [req |-> r, part |-> "first"]
             rest  == [req |-> r, part |-> "rest"]
  <2>1. PICK body \in {<<all>>, <<first, rest>>} : wire' = [wire EXCEPT ![c] = @ \o body]
    BY <1>7 DEF G!Bodies
  <2> DEFINE w == wire[c] \o body
  <2>2. wire'[c] = w
    BY <1>2, <2>1, InvTypes
  <2>3. /\ body \in Seq(G!Piece) /\ Len(body) \in {1, 2}
        /\ body[Len(body)].req = r /\ body[Len(body)].part # "first"
        /\ body[1].part # "rest"
        /\ Len(body) = 2 => body[1] = [req |-> body[2].req, part |-> "first"]
    <3>1. all \in G!Piece /\ first \in G!Piece /\ rest \in G!Piece
      BY DEF G!Piece
    <3>2. CASE body = <<all>>
      BY <3>1, <3>2
    <3>3. CASE body = <<first, rest>>
      BY <3>1, <3>3
    <3> QED
      BY <2>1, <3>2, <3>3
  <2> HIDE DEF all, first, rest
  <2>4. /\ Len(wire[c]) \in Nat /\ Len(w) = Len(wire[c]) + Len(body)
        /\ \A i \in 1..Len(wire[c]) : w[i] = wire[c][i]
        /\ \A i \in 1..Len(body) : w[Len(wire[c]) + i] = body[i]
    <3>1. /\ Len(w) = Len(wire[c]) + Len(body)
          /\ \A i \in 1..(Len(wire[c]) + Len(body)) :
                w[i] = IF i <= Len(wire[c]) THEN wire[c][i] ELSE body[i - Len(wire[c])]
      BY <1>2, <2>3, ConcatProperties
    <3>2. Len(wire[c]) \in Nat /\ Len(body) \in Nat
      BY <1>2, <2>3
    <3> HIDE DEF w
    <3>3. \A i \in 1..Len(wire[c]) : i \in 1..(Len(wire[c]) + Len(body)) /\ i <= Len(wire[c])
      BY <3>2
    <3>4. \A i \in 1..Len(body) : /\ Len(wire[c]) + i \in 1..(Len(wire[c]) + Len(body))
                                  /\ ~(Len(wire[c]) + i <= Len(wire[c]))
                                  /\ Len(wire[c]) + i - Len(wire[c]) = i
      BY <3>2
    <3> QED
      BY <3>1, <3>2, <3>3, <3>4, SMTT(30)
  <2> HIDE DEF w
  <2>5. JoinedNext(c)
    <3> DEFINE Behind(i) ==
          IF i > 1 THEN w[i - 1] = [req |-> w[i].req, part |-> "first"]
          ELSE /\ buffer[c] # <<>>
               /\ buffer[c][Len(buffer[c])] = [req |-> w[i].req, part |-> "first"]
    <3>1. ASSUME NEW i \in 1..Len(w), w[i].part = "rest" PROVE Behind(i)
      <4>0. i \in Nat /\ i >= 1
        BY <2>3, <2>4
      <4>1. CASE i \in 1..Len(wire[c])
        <5>1. wire[c][i].part = "rest" /\ w[i] = wire[c][i]
          BY <2>4, <3>1, <4>1
        <5>2. IF i > 1 THEN wire[c][i - 1] = [req |-> wire[c][i].req, part |-> "first"]
              ELSE /\ buffer[c] # <<>>
                   /\ buffer[c][Len(buffer[c])] = [req |-> wire[c][i].req, part |-> "first"]
          BY <1>2, <4>1, <5>1 DEF InSightInv, Joined
        <5>3. i > 1 => i - 1 \in 1..Len(wire[c])
          BY <2>4, <4>1
        <5>4. i > 1 => w[i - 1] = wire[c][i - 1]
          BY <2>4, <5>3
        <5> QED
          BY <5>1, <5>2, <5>4
      <4>2. CASE i \notin 1..Len(wire[c])
        <5>1. PICK j \in 1..Len(body) : i = Len(wire[c]) + j
          <6>1. i - Len(wire[c]) \in 1..Len(body)
            BY <2>3, <2>4, <4>0, <4>2
          <6>2. i = Len(wire[c]) + (i - Len(wire[c]))
            BY <2>4, <4>0
          <6> QED
            BY <6>1, <6>2
        <5>2. w[i] = body[j]
          BY <2>4, <5>1
        <5>3. j = 2 /\ Len(body) = 2
          <6>1. j # 1
            BY <2>3, <3>1, <5>2
          <6> QED
            BY <2>3, <6>1
        <5>4. i - 1 = Len(wire[c]) + 1 /\ i > 1 /\ 1 \in 1..Len(body)
          BY <2>4, <5>1, <5>3
        <5>5. w[i - 1] = body[1]
          BY <2>4, <5>4
        <5> QED
          BY <2>3, <5>2, <5>3, <5>4, <5>5
      <4> QED
        BY <4>1, <4>2
    <3>2. \A i \in 1..Len(buffer[c]) : buffer[c][i].part = "first"
      BY <1>2 DEF InSightInv, Joined
    <3> QED
      BY <1>1, <2>2, <3>1, <3>2 DEF JoinedNext
  <2>6. ASSUME r \in G!Tasks PROVE InSightNext(r)
    <3>1. /\ Len(body) \in 1..Len(body)
          /\ Len(wire[c]) + Len(body) \in 1..Len(w)
      BY <2>3, <2>4
    <3>2. w[Len(wire[c]) + Len(body)] = body[Len(body)]
      BY <2>4, <3>1
    <3>3. \E i \in 1..Len(wire'[c]) : wire'[c][i].req = r /\ wire'[c][i].part # "first"
      BY <2>2, <2>3, <3>1, <3>2
    <3>4. using'[r] = c
      BY <1>1 DEF c
    <3> QED
      BY <1>2, <1>7, <3>3, <3>4 DEF InSightNext, ComingNext
  <2>7. ASSUME NEW s \in G!Tasks, s # r PROVE InSightNext(s)
    <3>1. ASSUME Coming(s), using[s] \in G!Connection, using'[s] = using[s]
          PROVE  ComingNext(s)
      <4>1. CASE using[s] = c
        <5>1. PICK i \in 1..Len(wire[c]) : wire[c][i].req = s /\ wire[c][i].part # "first"
          BY <3>1, <4>1 DEF Coming
        <5>2. i \in 1..Len(w) /\ w[i] = wire[c][i]
          <6>1. i \in 1..(Len(wire[c]) + Len(body))
            BY <2>3, <2>4
          <6> QED
            BY <2>4, <6>1
        <5> QED
          BY <1>7, <2>2, <3>1, <4>1, <5>1, <5>2 DEF ComingNext
      <4>2. CASE using[s] # c
        BY <1>4, <3>1, <4>2 DEF Coming, ComingNext
      <4> QED
        BY <4>1, <4>2
    <3> QED
      BY <1>1, <1>4, <1>5, <2>7, <3>1, InSightKept
  <2>8. \A d \in G!Connection : JoinedNext(d)
    BY <1>1, <1>4, <2>5, JoinedKept
  <2> QED
    BY <2>6, <2>7, <2>8 DEF SightNext
<1> QED
  BY <1>3, <1>6, <1>7

\* What comes after the first pieces of a sequence.
LEMMA CarriedAfter ==
    ASSUME NEW a \in Seq(G!Piece), NEW m \in Nat, NEW i \in 1..Len(a), m < i
    PROVE  a[i].req \in G!Carried(SubSeq(a, m + 1, Len(a)))
<1> DEFINE b == SubSeq(a, m + 1, Len(a))
<1>1. Len(a) \in Nat /\ i \in Nat /\ 1 <= i /\ i <= Len(a)
  OBVIOUS
<1>2. /\ Len(b) = Len(a) - m
      /\ \A j \in 1..(Len(a) - m) : b[j] = a[m + j]
  BY <1>1
<1> HIDE DEF b
<1>3. i - m \in 1..(Len(a) - m) /\ m + (i - m) = i
  BY <1>1
<1>4. b[i - m] = a[i]
  BY <1>2, <1>3
<1> QED
  BY <1>2, <1>3, <1>4 DEF G!Carried, b

\* The pieces of a read.
TextOf(c, n) == buffer[c] \o SubSeq(wire[c], 1, n)

\* They are those kept and those read, and the end of a line that is read has its line.
LEMMA TextWhole ==
    ASSUME GatewayInv, InSightInv, NEW c \in G!Connection, NEW n \in 1..Len(wire[c])
    PROVE  /\ TextOf(c, n) \in Seq(G!Piece)
           /\ Len(buffer[c]) \in Nat /\ Len(TextOf(c, n)) = Len(buffer[c]) + n
           /\ \A i \in 1..n :
                 /\ TextOf(c, n)[Len(buffer[c]) + i] = wire[c][i]
                 /\ wire[c][i].part # "first" => G!Whole(TextOf(c, n), Len(buffer[c]) + i)
<1> DEFINE k == Len(buffer[c])
           part1 == SubSeq(wire[c], 1, n)
           text == TextOf(c, n)
<1>1. /\ wire[c] \in Seq(G!Piece) /\ buffer[c] \in Seq(G!Piece)
      /\ part1 \in Seq(G!Piece) /\ Len(part1) = n
      /\ k \in Nat /\ n \in Nat \ {0}
      /\ text \in Seq(G!Piece) /\ Len(text) = k + n
  BY InvTypes, ReadTypes DEF TextOf
<1>2. Len(wire[c]) \in Nat /\ \A i \in 1..n : i \in 1..Len(wire[c]) /\ i \in Nat /\ i >= 1
  BY <1>1
<1>3. \A i \in 1..n : part1[i] = wire[c][i]
  BY <1>1, <1>2
<1> HIDE DEF part1
<1>4. \A i \in 1..(k + n) : text[i] = IF i <= k THEN buffer[c][i] ELSE part1[i - k]
  BY <1>1, ConcatProperties DEF part1, TextOf
<1> HIDE DEF k, text
<1>5. ASSUME NEW i \in 1..n PROVE text[k + i] = wire[c][i]
  <2>1. i \in Nat /\ i >= 1 /\ i <= n /\ k \in Nat /\ n \in Nat
    <3>1. n \in Nat /\ k \in Nat
      BY <1>1
    <3> QED
      BY <3>1
  <2>2. k + i \in 1..(k + n) /\ ~(k + i <= k) /\ (k + i) - k = i
    BY <2>1
  <2>3. text[k + i] = IF k + i <= k THEN buffer[c][k + i] ELSE part1[(k + i) - k]
    BY <1>4, <2>2, Zenon
  <2>4. text[k + i] = part1[(k + i) - k]
    BY <2>2, <2>3, Zenon
  <2>5. text[k + i] = part1[i]
    BY <2>2, <2>4, Zenon
  <2> QED
    BY <1>3, <2>5, Zenon
<1>6. ASSUME k > 0 PROVE text[k] = buffer[c][k]
  <2>1. k \in 1..(k + n) /\ k <= k
    BY <1>1, <1>6
  <2> QED
    BY <1>4, <2>1
<1>8. ASSUME NEW q, NEW x, x = [req |-> q, part |-> "first"] PROVE x.req = q
  BY <1>8
<1>7. ASSUME NEW i \in 1..n, wire[c][i].part # "first" PROVE G!Whole(text, k + i)
  <2>3. text[k + i] = wire[c][i]
    BY <1>5
  <2>4. text[k + i].part = wire[c][i].part /\ text[k + i].req = wire[c][i].req
    BY <2>3, Zenon
  <2>1. CASE wire[c][i].part = "rest"
    <3>1. IF i > 1 THEN wire[c][i - 1] = [req |-> wire[c][i].req, part |-> "first"]
          ELSE /\ buffer[c] # <<>>
               /\ buffer[c][Len(buffer[c])] = [req |-> wire[c][i].req, part |-> "first"]
      BY <1>2, <2>1 DEF InSightInv, Joined
    <3>2. CASE i > 1
      <4>1. i - 1 \in 1..n /\ k + (i - 1) = (k + i) - 1 /\ k + i > 1
        BY <1>1, <1>2, <3>2
      <4>2. text[(k + i) - 1] = wire[c][i - 1]
        BY <1>5, <4>1
      <4>5. wire[c][i - 1] = [req |-> wire[c][i].req, part |-> "first"]
        BY <3>1, <3>2
      <4>6. text[(k + i) - 1] = [req |-> wire[c][i].req, part |-> "first"]
        BY <4>2, <4>5, Zenon
      <4>3. text[(k + i) - 1].req = wire[c][i].req
        BY <1>8, <4>6
      <4> QED
        BY <2>1, <2>4, <4>1, <4>3, Zenon DEF G!Whole
    <3>3. CASE ~(i > 1)
      <4>1. i = 1
        BY <1>2, <3>3
      <4>2. buffer[c] # <<>> /\ buffer[c][k] = [req |-> wire[c][i].req, part |-> "first"]
        BY <3>1, <3>3 DEF k
      <4>3. k > 0
        BY <1>1, <4>2, EmptySeq DEF k
      <4>4. (k + i) - 1 = k /\ k + i > 1
        BY <1>1, <4>1, <4>3
      <4>6. text[(k + i) - 1] = [req |-> wire[c][i].req, part |-> "first"]
        BY <1>6, <4>2, <4>3, <4>4, Zenon
      <4>5. text[(k + i) - 1].req = wire[c][i].req
        BY <1>8, <4>6
      <4> QED
        BY <2>1, <2>4, <4>4, <4>5, Zenon DEF G!Whole
    <3> QED
      BY <3>2, <3>3
  <2>2. CASE wire[c][i].part # "rest"
    <3>1. wire[c][i] \in G!Piece
      BY <1>1, <1>2
    <3>2. wire[c][i].part \in {"all", "first", "rest"}
      BY <3>1 DEF G!Piece
    <3>3. wire[c][i].part = "all"
      BY <1>7, <2>2, <3>2
    <3> QED
      BY <2>4, <3>3, Zenon DEF G!Whole
  <2> QED
    BY <2>1, <2>2
<1> QED
  BY <1>1, <1>5, <1>7 DEF k, text

LEMMA SightOfRead ==
    ASSUME GatewayInv, InSightInv, NEW c \in G!Connection, G!Read(c)
    PROVE  SightNext
<1>1. PICK n \in 1..Len(wire[c]) :
         /\ G!Publish(TextOf(c, n), Len(TextOf(c, n)))
         /\ buffer' = [buffer EXCEPT ![c] = G!Remainder(TextOf(c, n))]
         /\ wire' = [wire EXCEPT ![c] = SubSeq(@, n + 1, Len(@))]
  BY DEF G!Read, TextOf
<1> DEFINE text == TextOf(c, n)
           k == Len(buffer[c])
           w == SubSeq(wire[c], n + 1, Len(wire[c]))
<1>2. UNCHANGED <<peer, lost, pc, using, answer>>
  BY DEF G!Read, G!thread
<1>3. /\ \A d \in G!Connection : d # c => wire'[d] = wire[d] /\ buffer'[d] = buffer[d]
      /\ wire'[c] = w /\ buffer'[c] = G!Remainder(text)
  BY <1>1, InvTypes
<1>4. /\ k \in Nat /\ Len(text) = k + n
      /\ \A i \in 1..n : text[k + i] = wire[c][i]
                         /\ (wire[c][i].part # "first" => G!Whole(text, k + i))
  BY TextWhole
<1>5. wire[c] \in Seq(G!Piece) /\ Len(wire[c]) \in Nat /\ n \in Nat \ {0} /\ n <= Len(wire[c])
  BY InvTypes
<1>6. Len(w) = Len(wire[c]) - n /\ \A i \in 1..(Len(wire[c]) - n) : w[i] = wire[c][n + i]
  BY <1>5
<1> HIDE DEF text, k, w
<1>7. /\ published \subseteq published' /\ dropped \subseteq dropped'
      /\ \A i \in 1..Len(text) : G!Whole(text, i) /\ text[i].req \in G!Tasks =>
            text[i].req \in published' \cup dropped'
  <2>1. Len(text) \in Nat
    BY <1>4, <1>5
  <2> QED
    BY <1>1, <2>1, InvTypes, PublishTypes DEF text
<1>8. JoinedNext(c)
  <2>1. text[Len(text)] = wire[c][n]
    <3>1. n \in 1..n
      BY <1>5
    <3> QED
      BY <1>4, <3>1
  <2>2. \A i \in 1..Len(buffer'[c]) : buffer'[c][i].part = "first"
    <3>1. CASE text[Len(text)].part = "first"
      <4>1. buffer'[c] = <<text[Len(text)]>>
        BY <1>3, <3>1 DEF G!Remainder
      <4>2. \A e : Len(<<e>>) = 1 /\ <<e>>[1] = e
        OBVIOUS
      <4> QED
        BY <3>1, <4>1, <4>2
    <3>2. CASE text[Len(text)].part # "first"
      <4>1. buffer'[c] = <<>> /\ Len(<<>>) = 0
        BY <1>3, <3>2 DEF G!Remainder
      <4> QED
        BY <4>1
    <3> QED
      BY <3>1, <3>2
  <2>3. ASSUME NEW i \in 1..Len(w), w[i].part = "rest"
        PROVE  IF i > 1 THEN w[i - 1] = [req |-> w[i].req, part |-> "first"]
               ELSE /\ buffer'[c] # <<>>
                    /\ buffer'[c][Len(buffer'[c])] = [req |-> w[i].req, part |-> "first"]
    <3>1. /\ i \in Nat /\ i >= 1 /\ n + i \in 1..Len(wire[c]) /\ n + i > 1
          /\ i \in 1..(Len(wire[c]) - n)
      BY <1>5, <1>6
    <3>2. w[i] = wire[c][n + i]
      BY <1>6, <3>1
    <3>21. \A j \in 1..Len(wire[c]) : wire[c][j].part = "rest" /\ j > 1 =>
              wire[c][j - 1] = [req |-> wire[c][j].req, part |-> "first"]
      BY DEF InSightInv, Joined
    <3>3. wire[c][n + i - 1] = [req |-> w[i].req, part |-> "first"]
      BY <2>3, <3>1, <3>2, <3>21, SMTT(30)
    <3>4. CASE i > 1
      <4>1. i - 1 \in 1..(Len(wire[c]) - n) /\ n + (i - 1) = n + i - 1
        BY <1>5, <3>1, <3>4
      <4>2. w[i - 1] = wire[c][n + i - 1]
        BY <1>6, <4>1
      <4> QED
        BY <3>3, <3>4, <4>2
    <3>5. CASE ~(i > 1)
      <4>1. n + i - 1 = n
        BY <1>5, <3>1, <3>5
      <4>2. text[Len(text)] = [req |-> w[i].req, part |-> "first"]
        BY <2>1, <3>3, <4>1
      <4>3. text[Len(text)].part = "first"
        BY <4>2
      <4>4. buffer'[c] = <<text[Len(text)]>>
        BY <1>3, <4>3 DEF G!Remainder
      <4>5. \A e : <<e>> # <<>> /\ Len(<<e>>) = 1 /\ <<e>>[1] = e
        OBVIOUS
      <4> QED
        BY <3>5, <4>2, <4>4, <4>5
    <3> QED
      BY <3>4, <3>5
  <2> QED
    BY <1>3, <2>2, <2>3 DEF JoinedNext
<1>9. ASSUME NEW s \in G!Tasks, Coming(s), using[s] = c
      PROVE  s \in SettledNext \/ ComingNext(s)
  <2>1. PICK i \in 1..Len(wire[c]) : wire[c][i].req = s /\ wire[c][i].part # "first"
    BY <1>9 DEF Coming
  <2>2. CASE i <= n
    <3>1. i \in 1..n /\ k + i \in 1..Len(text)
      BY <1>4, <1>5, <2>2
    <3>2. text[k + i].req = s /\ G!Whole(text, k + i)
      BY <1>4, <2>1, <3>1
    <3> QED
      BY <1>7, <1>9, <3>1, <3>2 DEF SettledNext
  <2>3. CASE ~(i <= n)
    <3>1. i - n \in 1..(Len(wire[c]) - n) /\ n + (i - n) = i
      BY <1>5, <2>3
    <3>2. w[i - n] = wire[c][i]
      BY <1>6, <3>1
    <3>3. peer[c] = "up"
      BY <1>9 DEF Coming
    <3> QED
      BY <1>2, <1>3, <1>6, <1>9, <2>1, <3>1, <3>2, <3>3 DEF ComingNext
  <2> QED
    BY <2>2, <2>3
<1>10. ASSUME NEW s \in G!Tasks PROVE InSightNext(s)
  <2>1. ASSUME Coming(s), using[s] \in G!Connection
        PROVE  s \in SettledNext \/ ComingNext(s)
    <3>1. CASE using[s] = c
      BY <1>9, <2>1, <3>1
    <3>2. CASE using[s] # c
      BY <1>2, <1>3, <2>1, <3>2 DEF Coming, ComingNext
    <3> QED
      BY <3>1, <3>2
  <2>2. SentNext(s) => Sent(s) /\ using'[s] = using[s]
    BY <1>2 DEF Sent, SentNext
  <2> QED
    BY <1>2, <1>7, <2>1, <2>2, InSightKept
<1>11. \A d \in G!Connection : JoinedNext(d)
  BY <1>3, <1>8, JoinedKept
<1> QED
  BY <1>10, <1>11 DEF SightNext

LEMMA SightOfReadRaises ==
    ASSUME GatewayInv, InSightInv, NEW c \in G!Connection, G!ReadRaises(c)
    PROVE  SightNext
<1>1. PICK n \in 1..Len(wire[c]) :
         \E stop \in 1..Len(TextOf(c, n)) :
            /\ G!Publish(TextOf(c, n), stop)
            /\ lost' = lost \cup G!Carried(SubSeq(TextOf(c, n), stop + 1, Len(TextOf(c, n))))
                            \cup G!Carried(SubSeq(wire[c], n + 1, Len(wire[c])))
            /\ peer' = [peer EXCEPT ![c] = IF n < Len(wire[c]) THEN "rst" ELSE "fin"]
  BY DEF G!ReadRaises, TextOf
<1> DEFINE text == TextOf(c, n)
           k == Len(buffer[c])
<1>2. PICK stop \in 1..Len(text) :
         /\ G!Publish(text, stop)
         /\ lost' = lost \cup G!Carried(SubSeq(text, stop + 1, Len(text)))
                         \cup G!Carried(SubSeq(wire[c], n + 1, Len(wire[c])))
         /\ peer' = [peer EXCEPT ![c] = IF n < Len(wire[c]) THEN "rst" ELSE "fin"]
  BY <1>1
<1>3. /\ buffer' = [buffer EXCEPT ![c] = <<>>] /\ wire' = [wire EXCEPT ![c] = <<>>]
      /\ UNCHANGED <<pc, using, answer>>
  BY DEF G!ReadRaises, G!thread
<1>4. /\ \A d \in G!Connection : d # c =>
            wire'[d] = wire[d] /\ buffer'[d] = buffer[d] /\ peer'[d] = peer[d]
      /\ wire'[c] = <<>> /\ buffer'[c] = <<>>
  BY <1>2, <1>3, InvTypes
<1>5. /\ text \in Seq(G!Piece) /\ k \in Nat /\ Len(text) = k + n
      /\ \A i \in 1..n : text[k + i] = wire[c][i]
                         /\ (wire[c][i].part # "first" => G!Whole(text, k + i))
  BY TextWhole
<1>6. wire[c] \in Seq(G!Piece) /\ Len(wire[c]) \in Nat /\ n \in Nat \ {0} /\ n <= Len(wire[c])
  BY InvTypes
<1> HIDE DEF text, k
<1>7. stop \in Nat
  BY <1>5, <1>6
<1>8. /\ published \subseteq published' /\ dropped \subseteq dropped'
      /\ \A i \in 1..stop : G!Whole(text, i) /\ text[i].req \in G!Tasks =>
            text[i].req \in published' \cup dropped'
  BY <1>2, <1>7, InvTypes, PublishTypes
<1>9. ASSUME NEW s \in G!Tasks, Coming(s), using[s] = c PROVE s \in SettledNext
  <2>1. PICK i \in 1..Len(wire[c]) : wire[c][i].req = s /\ wire[c][i].part # "first"
    BY <1>9 DEF Coming
  <2>2. CASE i <= n
    <3>1. i \in 1..n /\ k + i \in 1..Len(text) /\ k + i \in Nat
      BY <1>5, <1>6, <2>2
    <3>2. text[k + i].req = s /\ G!Whole(text, k + i)
      BY <1>5, <2>1, <3>1
    <3>3. CASE k + i <= stop
      <4>1. k + i \in 1..stop
        BY <1>7, <3>1, <3>3
      <4> QED
        BY <1>8, <1>9, <3>2, <4>1 DEF SettledNext
    <3>4. CASE ~(k + i <= stop)
      <4>1. stop < k + i
        BY <1>7, <3>1, <3>4
      <4>2. s \in G!Carried(SubSeq(text, stop + 1, Len(text)))
        BY <1>5, <1>7, <3>1, <3>2, <4>1, CarriedAfter
      <4> QED
        BY <1>2, <4>2 DEF SettledNext
    <3> QED
      BY <3>3, <3>4
  <2>3. CASE ~(i <= n)
    <3>1. n < i /\ n \in Nat
      BY <1>6, <2>3
    <3>2. s \in G!Carried(SubSeq(wire[c], n + 1, Len(wire[c])))
      BY <1>6, <2>1, <3>1, CarriedAfter
    <3> QED
      BY <1>2, <3>2 DEF SettledNext
  <2> QED
    BY <2>2, <2>3
<1>10. ASSUME NEW s \in G!Tasks PROVE InSightNext(s)
  <2>1. ASSUME Coming(s), using[s] \in G!Connection
        PROVE  s \in SettledNext \/ ComingNext(s)
    <3>1. CASE using[s] = c
      BY <1>9, <2>1, <3>1
    <3>2. CASE using[s] # c
      BY <1>3, <1>4, <2>1, <3>2 DEF Coming, ComingNext
    <3> QED
      BY <3>1, <3>2
  <2>2. SentNext(s) => Sent(s) /\ using'[s] = using[s]
    BY <1>3 DEF Sent, SentNext
  <2>3. lost \subseteq lost'
    BY <1>2
  <2> QED
    BY <1>8, <2>1, <2>2, <2>3, InSightKept
<1>11. \A d \in G!Connection : JoinedNext(d)
  BY <1>4, JoinedKept, JoinedEmpty
<1> QED
  BY <1>10, <1>11 DEF SightNext

LEMMA SightStep ==
    ASSUME GatewayInv, InSightInv, G!Next
    PROVE  SightNext
<1>1. CASE \E r \in Requests : \/ G!Arrive(r) \/ G!Unavailable(r) \/ G!TakePooled(r)
                               \/ G!OpenNew(r) \/ G!Receive(r)
  BY <1>1, SightOfQuiet
<1>2. CASE \E r \in Requests : G!Send(r)
  BY <1>2, SightOfSend
<1>3. CASE \E r \in Requests : \/ G!SendRaises(r) \/ G!ReceiveRaises(r)
                               \/ G!Release(r) \/ G!Answer(r)
  BY <1>3, SightOfClosing
<1>4. CASE \E c \in G!Connection : G!Read(c)
  BY <1>4, SightOfRead
<1>5. CASE \E c \in G!Connection : G!ReadRaises(c)
  BY <1>5, SightOfReadRaises
<1>6. CASE G!EndCoordinator
  BY <1>6, SightOfEnd
<1>7. CASE G!StartCoordinator
  <2>1. UNCHANGED <<peer, wire, buffer, published, dropped, lost, pc, using, answer>>
    BY <1>7 DEF G!StartCoordinator, G!link, G!thread
  <2>2. \A s \in G!Tasks : SentNext(s) => Sent(s) /\ using'[s] = using[s]
    BY <2>1 DEF Sent, SentNext
  <2> QED
    BY <2>1, <2>2, SightOfThread
<1> QED
  BY <1>1, <1>2, <1>3, <1>4, <1>5, <1>6, <1>7, GatewayActions

\* A task that was answered 202 is settled, or the end of its line is still to be read by
\* a coordinator that has not closed the connection: whatever pieces the body came in and
\* whosever it was read with, nothing accepted drops out of sight, and only reads are
\* left to settle it (router.py:231-241, event_bus.py:155-180).
THEOREM NothingOutOfSight == PartsSpec => []AcceptedIsInSight
<1>1. PartsInit => InSightInv
  <2> SUFFICES ASSUME G!Init PROVE InSightInv
    BY DEF PartsInit
  <2>1. /\ wire = [c \in G!Connection |-> <<>>] /\ buffer = [c \in G!Connection |-> <<>>]
        /\ pc = [r \in Requests |-> "new"] /\ answer = [r \in Requests |-> "none"]
        /\ Len(<<>>) = 0
    BY DEF G!Init
  <2>2. Joined
    BY <2>1 DEF Joined
  <2>3. InSight
    BY <2>1 DEF InSight, Sent, G!Tasks
  <2> QED
    BY <2>2, <2>3 DEF InSightInv
<1>2. GatewayInv /\ InSightInv /\ [PartsNext]_<<part, vars, gateway, cache>> => InSightInv'
  <2> SUFFICES ASSUME GatewayInv, InSightInv, [PartsNext]_<<part, vars, gateway, cache>>
               PROVE  SightNext
    BY SightParts
  <2>1. CASE G!Next
    BY <2>1, SightStep
  <2>2. CASE UNCHANGED gateway
    <3>1. UNCHANGED <<peer, wire, buffer, published, dropped, lost, pc, using, answer>>
      BY <2>2 DEF gateway
    <3>2. \A s \in G!Tasks : SentNext(s) => Sent(s) /\ using'[s] = using[s]
      BY <3>1 DEF Sent, SentNext
    <3> QED
      BY <3>1, <3>2, SightOfThread
  <2> QED
    BY <2>1, <2>2 DEF PartsNext
<1>3. InSightInv => AcceptedIsInSight
  BY DEF InSightInv, InSight, Sent, AcceptedIsInSight
<1> QED
  BY <1>1, <1>2, <1>3, GatewayAlways, PTL DEF PartsSpec

-----------------------------------------------------------------------------
(* The types of the three parts                                            *)

\* The variables of every part keep their types: an element of the pool is a
\* connection, a piece on the wire is of a request, a reply is to a command.
THEOREM PartsTypes == PartsSpec => []PartsTypeOK
<1>1. PartsInit => TypeOK /\ CallsOK /\ AgreementOK
  BY InitialCalls, PartAssumptions DEF PartsInit
<1>2. TypeOK /\ CallsOK /\ AgreementOK /\ [PartsNext]_<<part, vars, gateway, cache>>
         => (TypeOK /\ CallsOK /\ AgreementOK)'
  <2>1. [PartsNext]_<<part, vars, gateway, cache>> => [Next]_vars
    BY DEF PartsNext
  <2> QED
    BY <2>1, NextCalls, PartAssumptions
<1>3. PartsSpec => [](TypeOK /\ CallsOK /\ AgreementOK)
  BY <1>1, <1>2, PTL DEF PartsSpec
<1>4. OwnershipInv => G!TypeOK
  BY DEF OwnershipInv
<1>5. CacheInv => C!TypeOK
  BY DEF CacheInv
<1>6. TypeOK /\ CallsOK /\ AgreementOK /\ G!TypeOK /\ C!TypeOK => PartsTypeOK
  BY DEF PartsTypeOK
<1> QED
  BY <1>3, <1>4, <1>5, <1>6, OwnershipAlways, CacheAlways, PTL
=============================================================================
