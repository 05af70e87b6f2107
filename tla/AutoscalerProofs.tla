------------------------- MODULE AutoscalerProofs -------------------------
(***************************************************************************)
(* Safety of Autoscaler for every minimum and maximum of workers, every    *)
(* capacity, and any number of jobs, processes and deaths.                 *)
(***************************************************************************)
EXTENDS Autoscaler, FiniteSetTheorems, SequenceTheorems, TLAPS

-----------------------------------------------------------------------------
(* The invariant *)

\* An entry of the dictionary is a process that was started with its name, and
\* every started process has a name.
Entries ==
    /\ \A i \in 1..Len(active) :
          /\ status[active[i].proc] # "new"
          /\ nameOf[active[i].proc] = active[i].id
    /\ \A p \in Process : status[p] # "new" => nameOf[p] \in Name

\* Jobs are given to the process that connected last under a name, and only running
\* processes have any.
Sockets ==
    /\ \A p \in Process : executing[p] # <<>> => status[p] = "running"
    /\ \A n \in Name : socket[n] # 0 =>
          /\ status[socket[n]] \in {"running", "dead"}
          /\ nameOf[socket[n]] = n

\* While only the newest process has died: the entries are named in their order
\* and all but the last are alive, every live process has one, and a running process
\* has the socket of its name.
InOrder ==
    /\ \A i \in 1..Len(active) : active[i].id = i
    /\ \A i \in 1..Len(active) : i < Len(active) => Live(active[i].proc)
    /\ \A p \in Process : Live(p) => p \in Tracked
    /\ \A p \in Process : status[p] = "running" => socket[nameOf[p]] = p

\* While, besides, no process has inherited anything: a running process that is not
\* registered yet has no job, and from then on its jobs, those on their way to it and
\* the completions still to be taken are in the load of its name.
Counted ==
    \A p \in Process : status[p] = "running" =>
        LET n == nameOf[p] IN
        /\ failed[n] = {}
        /\ n \in Unregistered =>
              toSend[n] = <<>> /\ toFree[n] = <<>> /\ executing[p] = <<>>
        /\ n \notin Unregistered =>
              /\ load[n] # Absent
              /\ Len(toSend[n]) + Len(executing[p]) + Len(toFree[n]) <= load[n]

\* What the samples of a round still say when no job has come since: no job is in
\* the queue or in the assigner's hand, and nobody works once nobody did.
SamplesHold ==
    ~loop.unseen =>
        /\ loop.pc \in {"empty", "down", "stop"} => queue = <<>> /\ hand = NoPick
        /\ loop.pc = "stop" => AllIdle

IInv ==
    /\ TypeOK /\ Entries /\ Sockets /\ SamplesHold
    /\ ~gap => InOrder
    /\ ~gap /\ ~inherited => Counted

-----------------------------------------------------------------------------
(* The entries that clean_dead_processes keeps *)

Entry == [id : Name, proc : Process]

\* The elements of a set of positions are numbered by how many come before.
LEMMA Ranks ==
    ASSUME NEW n \in Nat, NEW S \in SUBSET (1..n)
    PROVE  /\ IsFiniteSet(S) /\ Cardinality(S) \in 0..n
           /\ \A k \in 1..Cardinality(S) :
                 \E i \in S : Cardinality({j \in S : j < i}) = k - 1
           /\ \A i \in S : Cardinality({j \in S : j < i}) \in 0..(Cardinality(S) - 1)
           /\ \A i, l \in S : Cardinality({j \in S : j < i})
                                = Cardinality({j \in S : j < l}) => i = l
<1>1. IsFiniteSet(S) /\ Cardinality(S) \in Nat /\ Cardinality(S) <= n
  <2>1. IsFiniteSet(1..n) /\ Cardinality(1..n) = n
    BY FS_Interval
  <2> QED
    BY <2>1, FS_Subset, FS_CardinalityType
<1> DEFINE Before(i) == {j \in S : j < i}
           top == Cardinality(S) - 1
<1>2. ASSUME NEW i \in S
      PROVE  IsFiniteSet(Before(i)) /\ Cardinality(Before(i)) \in 0..top
  <2>1. IsFiniteSet(S \ {i}) /\ Cardinality(S \ {i}) = top
    BY <1>1, FS_RemoveElement
  <2>2. Before(i) \in SUBSET (S \ {i})
    OBVIOUS
  <2>3. IsFiniteSet(Before(i)) /\ Cardinality(Before(i)) <= top
    BY <2>1, <2>2, FS_Subset
  <2>4. Cardinality(Before(i)) \in Nat /\ top \in Int
    BY <1>1, <2>3, FS_CardinalityType
  <2> QED
    BY <2>3, <2>4
<1>3. ASSUME NEW i \in S, NEW l \in S, i < l
      PROVE  Cardinality(Before(i)) < Cardinality(Before(l))
  <2>1. IsFiniteSet(Before(l) \ {i}) /\ Cardinality(Before(l) \ {i}) = Cardinality(Before(l)) - 1
    BY <1>2, <1>3, FS_RemoveElement
  <2>2. Before(i) \in SUBSET (Before(l) \ {i})
    <3>1. \A j \in S : j \in Nat
      OBVIOUS
    <3>2. \A j \in S : j < i => j < l /\ j # i
      BY <1>3, <3>1
    <3> QED
      BY <3>2
  <2>3. Cardinality(Before(i)) <= Cardinality(Before(l)) - 1
    BY <2>1, <2>2, FS_Subset
  <2>4. Cardinality(Before(i)) \in Nat /\ Cardinality(Before(l)) \in Nat
    BY <1>2, FS_CardinalityType
  <2> QED
    BY <2>3, <2>4
<1>4. \A i, l \in S : Cardinality(Before(i)) = Cardinality(Before(l)) => i = l
  <2> SUFFICES ASSUME NEW i \in S, NEW l \in S, i # l
               PROVE  Cardinality(Before(i)) # Cardinality(Before(l))
    OBVIOUS
  <2>0. i \in Nat /\ l \in Nat
    OBVIOUS
  <2>1. i < l \/ l < i
    BY <2>0
  <2>2. Cardinality(Before(i)) \in Nat /\ Cardinality(Before(l)) \in Nat
    BY <1>2, FS_CardinalityType
  <2> HIDE DEF Before
  <2> QED
    BY <1>3, <2>1, <2>2
<1>5. \A k \in 0..top : \E i \in S : Cardinality(Before(i)) = k
  <2> DEFINE rank == [i \in S |-> Cardinality(Before(i))]
  <2>1. rank \in Injection(S, 0..top)
    <3> HIDE DEF Before
    <3>1. rank \in [S -> 0..top]
      BY <1>2
    <3> QED
      BY <1>4, <3>1 DEF Injection, IsInjective
  <2>2. IsFiniteSet(0..top) /\ Cardinality(0..top) = Cardinality(S)
    <3>1. 0 \in Int /\ top \in Int
      BY <1>1
    <3>2. IsFiniteSet(0..top)
          /\ Cardinality(0..top) = IF 0 > top THEN 0 ELSE top - 0 + 1
      BY <3>1, FS_Interval
    <3> QED
      BY <1>1, <3>2
  <2>3. rank \in Surjection(S, 0..top)
    BY <2>1, <2>2, FS_Injection
  <2> HIDE DEF Before, top
  <2> QED
    BY <2>3 DEF Surjection
<1>6. \A k \in 1..Cardinality(S) : \E i \in S : Cardinality(Before(i)) = k - 1
  <2>1. \A k \in 1..Cardinality(S) : k - 1 \in 0..top
    BY <1>1
  <2> HIDE DEF Before, top
  <2> QED
    BY <1>5, <2>1
<1>7. Cardinality(S) \in 0..n
  BY <1>1
<1> QED
  BY <1>1, <1>2, <1>4, <1>6, <1>7

\* What is kept are entries of live processes, each once, and all of them.
LEMMA CleanedEntries ==
    ASSUME TypeOK
    PROVE  /\ Cleaned \in Seq(Entry)
           /\ Len(Cleaned) \in 0..Len(active) /\ Len(active) \in Nat
           /\ \A k \in 1..Len(Cleaned) :
                 \E i \in 1..Len(active) :
                    Cleaned[k] = active[i] /\ Live(active[i].proc)
           /\ \A k, l \in 1..Len(Cleaned) : Cleaned[k].id = Cleaned[l].id => k = l
           /\ \A i \in 1..Len(active) : Live(active[i].proc) =>
                 \E k \in 1..Len(Cleaned) : Cleaned[k] = active[i]
<1> DEFINE c == Cardinality(Kept)
           At(k) == CHOOSE i \in Kept : KeptBefore(i) = k - 1
<1>1. /\ active \in Seq(Entry) /\ Len(active) \in Nat
      /\ \A i, j \in 1..Len(active) : i # j => active[i].id # active[j].id
      /\ \A i \in 1..Len(active) : active[i] \in Entry
  BY ElementOfSeq, LenProperties DEF TypeOK, Entry
<1>2. /\ Kept \in SUBSET (1..Len(active))
      /\ \A i \in Kept : Live(active[i].proc)
      /\ \A i \in 1..Len(active) : Live(active[i].proc) => i \in Kept
  BY DEF Kept
<1>3. /\ c \in 0..Len(active)
      /\ \A k \in 1..c : \E i \in Kept : KeptBefore(i) = k - 1
      /\ \A i \in Kept : KeptBefore(i) \in 0..(c - 1)
      /\ \A i, l \in Kept : KeptBefore(i) = KeptBefore(l) => i = l
  BY <1>1, <1>2, Ranks DEF KeptBefore
<1>4. Cleaned = [k \in 1..c |-> active[At(k)]]
  BY DEF Cleaned
<1>5. \A k \in 1..c : At(k) \in Kept /\ KeptBefore(At(k)) = k - 1
  BY <1>3
<1>6. \A i \in Kept : \E k \in 1..c : At(k) = i
  <2> SUFFICES ASSUME NEW i \in Kept PROVE \E k \in 1..c : At(k) = i
    OBVIOUS
  <2> DEFINE k == KeptBefore(i) + 1
  <2>1. k \in 1..c /\ KeptBefore(i) = k - 1
    BY <1>3
  <2>2. At(k) \in Kept /\ KeptBefore(At(k)) = KeptBefore(i)
    BY <1>5, <2>1
  <2>3. At(k) = i
    BY <1>3, <2>2
  <2> QED
    BY <2>1, <2>3
<1> HIDE DEF At, c
<1>7. Cleaned \in Seq(Entry) /\ Len(Cleaned) = c
  <2>1. \A k \in 1..c : active[At(k)] \in Entry
    BY <1>1, <1>2, <1>5
  <2>2. c \in Nat
    BY <1>1, <1>3
  <2> QED
    BY <1>4, <2>1, <2>2, IsASeq
<1>8. \A k, l \in 1..c : Cleaned[k].id = Cleaned[l].id => k = l
  <2> SUFFICES ASSUME NEW k \in 1..c, NEW l \in 1..c, Cleaned[k].id = Cleaned[l].id
               PROVE  k = l
    OBVIOUS
  <2>1. active[At(k)].id = active[At(l)].id
    BY <1>4
  <2>2. At(k) = At(l)
    BY <1>1, <1>2, <1>5, <2>1
  <2>3. k - 1 = l - 1
    BY <1>5, <2>2
  <2> QED
    BY <1>1, <1>3, <2>3
<1>9. \A k \in 1..c : \E i \in 1..Len(active) :
         Cleaned[k] = active[i] /\ Live(active[i].proc)
  BY <1>2, <1>4, <1>5
<1>10. \A i \in 1..Len(active) : Live(active[i].proc) =>
          \E k \in 1..c : Cleaned[k] = active[i]
  BY <1>2, <1>4, <1>6
<1> QED
  BY <1>1, <1>3, <1>7, <1>8, <1>9, <1>10

\* As long as all but the last are alive, what is kept is a beginning of what
\* was there.
LEMMA CleanedInOrder ==
    ASSUME TypeOK, InOrder
    PROVE  \A k \in 1..Len(Cleaned) : Cleaned[k] = active[k]
<1> DEFINE n == Len(active)
           c == Cardinality(Kept)
<1>1. n \in Nat /\ Len(Cleaned) \in 0..n /\ Cleaned \in Seq(Entry)
  BY CleanedEntries
<1>2. Kept \in SUBSET (1..n) /\ \A i \in 1..n : i < n => i \in Kept
  BY DEF Kept, InOrder
<1>3. /\ c \in 0..n
      /\ \A k \in 1..c : \E i \in Kept : KeptBefore(i) = k - 1
      /\ \A i, l \in Kept : KeptBefore(i) = KeptBefore(l) => i = l
  BY <1>1, <1>2, Ranks DEF KeptBefore
<1>4. Len(Cleaned) = c
  <2>1. Cleaned = [k \in 1..c |-> active[CHOOSE i \in Kept : KeptBefore(i) = k - 1]]
    BY DEF Cleaned
  <2>2. DOMAIN Cleaned = 1..c /\ c \in Nat
    BY <1>1, <1>3, <2>1
  <2>3. DOMAIN Cleaned = 1..Len(Cleaned) /\ Len(Cleaned) \in Nat
    BY <1>1, LenProperties
  <2> HIDE DEF c
  <2> QED
    BY <2>2, <2>3
<1>5. ASSUME NEW k \in Kept PROVE KeptBefore(k) = k - 1
  <2>1. k \in 1..n /\ \A j \in Kept : j \in 1..n
    BY <1>2
  <2>2. \A j \in 1..(k - 1) : j \in Kept /\ j < k
    <3>1. \A j \in 1..(k - 1) : j \in 1..n /\ j < n /\ j < k
      BY <1>1, <2>1
    <3> QED
      BY <1>2, <3>1
  <2>3. \A j \in Kept : j < k => j \in 1..(k - 1)
    BY <1>1, <2>1
  <2>4. {j \in Kept : j < k} = 1..(k - 1)
    BY <2>2, <2>3
  <2>5. Cardinality(1..(k - 1)) = k - 1
    <3>1. 1 \in Int /\ k - 1 \in Int
      BY <1>1, <2>1
    <3>2. Cardinality(1..(k - 1)) = IF 1 > k - 1 THEN 0 ELSE (k - 1) - 1 + 1
      BY <3>1, FS_Interval
    <3> QED
      BY <1>1, <2>1, <3>2
  <2> QED
    BY <2>4, <2>5, Zenon DEF KeptBefore
<1>6. ASSUME NEW k \in 1..c PROVE (CHOOSE i \in Kept : KeptBefore(i) = k - 1) = k
  <2>1. PICK i \in Kept : KeptBefore(i) = k - 1
    BY <1>3
  <2>2. i = k
    BY <1>1, <1>2, <1>3, <1>5, <2>1
  <2> QED
    BY <1>3, <2>1, <2>2
<1> QED
  BY <1>4, <1>6 DEF Cleaned

\* A name that is not in the dictionary is added at its end, one that is keeps
\* its place with the new process.
LEMMA StoredEntries ==
    ASSUME NEW s \in Seq(Entry), NEW n \in Name, NEW p \in Process,
           \A i, j \in 1..Len(s) : s[i].id = s[j].id => i = j
    PROVE  /\ Stored(s, n, p) \in Seq(Entry)
           /\ \A i, j \in 1..Len(Stored(s, n, p)) :
                 Stored(s, n, p)[i].id = Stored(s, n, p)[j].id => i = j
           /\ \A i \in 1..Len(Stored(s, n, p)) :
                 \/ Stored(s, n, p)[i] = [id |-> n, proc |-> p]
                 \/ \E k \in 1..Len(s) : Stored(s, n, p)[i] = s[k]
           /\ (\A i \in 1..Len(s) : s[i].id # n) =>
                 Stored(s, n, p) = Append(s, [id |-> n, proc |-> p])
<1> DEFINE e == [id |-> n, proc |-> p]
           t == Stored(s, n, p)
<1>1. e \in Entry /\ e.id = n
  BY DEF Entry
<1>2. Len(s) \in Nat /\ \A i \in 1..Len(s) : s[i] \in Entry
  BY ElementOfSeq, LenProperties
<1>3. CASE \E i \in 1..Len(s) : s[i].id = n
  <2>1. t = [i \in 1..Len(s) |-> IF s[i].id = n THEN e ELSE s[i]]
    BY <1>3 DEF Stored
  <2> HIDE DEF e, t
  <2>2. \A i \in 1..Len(s) : /\ t[i] \in Entry /\ t[i].id = s[i].id
                             /\ t[i] = e \/ t[i] = s[i]
    BY <1>1, <1>2, <2>1
  <2>3. t \in Seq(Entry) /\ Len(t) = Len(s)
    BY <1>2, <2>1, <2>2, IsASeq
  <2>4. ~(\A i \in 1..Len(s) : s[i].id # n)
    BY <1>3
  <2>5. \A i, j \in 1..Len(t) : t[i].id = t[j].id => i = j
    BY <2>2, <2>3
  <2>6. \A i \in 1..Len(t) : t[i] = e \/ \E k \in 1..Len(s) : t[i] = s[k]
    BY <2>2, <2>3
  <2> QED
    BY <2>3, <2>4, <2>5, <2>6 DEF e, t
<1>4. CASE \A i \in 1..Len(s) : s[i].id # n
  <2>1. t = Append(s, e)
    BY <1>4 DEF Stored
  <2> HIDE DEF e, t
  <2>2. /\ t \in Seq(Entry) /\ Len(t) = Len(s) + 1
        /\ \A i \in 1..Len(s) : t[i] = s[i]
        /\ t[Len(s) + 1] = e
    BY <1>1, <2>1, AppendProperties
  <2>3. \A i \in 1..Len(t) : i \in 1..Len(s) \/ i = Len(s) + 1
    BY <1>2, <2>2
  <2>4. \A i, j \in 1..Len(t) : t[i].id = t[j].id => i = j
    BY <1>1, <1>4, <2>2, <2>3
  <2>5. \A i \in 1..Len(t) : t[i] = e \/ \E k \in 1..Len(s) : t[i] = s[k]
    BY <2>2, <2>3
  <2> QED
    BY <2>1, <2>2, <2>4, <2>5 DEF e, t
<1> QED
  BY <1>3, <1>4
-----------------------------------------------------------------------------
(* Queues *)

\* What is taken from a queue and put into it.
LEMMA Queues ==
    ASSUME NEW S, NEW s \in Seq(S)
    PROVE  /\ Len(s) \in Nat /\ (s = <<>> <=> Len(s) = 0)
           /\ s # <<>> => /\ Head(s) \in S /\ Tail(s) \in Seq(S)
                          /\ Len(Tail(s)) = Len(s) - 1
           /\ \A e \in S : /\ Append(s, e) \in Seq(S)
                           /\ Len(Append(s, e)) = Len(s) + 1
BY LenProperties, EmptySeq, HeadTailProperties, AppendProperties

\* One element is taken out of the middle.
LEMMA OneLess ==
    ASSUME NEW S, NEW s \in Seq(S), NEW i \in 1..Len(s)
    PROVE  Without(s, i) \in Seq(S) /\ Len(Without(s, i)) = Len(s) - 1
<1> DEFINE n == Len(s)
           a == SubSeq(s, 1, i - 1)
           b == SubSeq(s, i + 1, n)
<1>1. n \in Nat /\ i \in Int /\ 1 <= i /\ i <= n /\ \A j \in 1..n : s[j] \in S
  BY LenProperties, ElementOfSeq
<1>2. /\ \A j \in 1..(i - 1) : s[j] \in S
      /\ \A j \in (i + 1)..n : s[j] \in S
  <2>1. 1..(i - 1) \subseteq 1..n /\ (i + 1)..n \subseteq 1..n
    BY <1>1
  <2> HIDE DEF n
  <2> QED
    BY <1>1, <2>1
<1>3. a \in Seq(S) /\ Len(a) = IF 1 <= i - 1 THEN (i - 1) - 1 + 1 ELSE 0
  BY <1>1, <1>2, SubSeqProperties
<1>4. b \in Seq(S) /\ Len(b) = IF i + 1 <= n THEN n - (i + 1) + 1 ELSE 0
  BY <1>1, <1>2, SubSeqProperties
<1> HIDE DEF a, b, n
<1>5. Len(a) = i - 1 /\ Len(b) = n - i
  BY <1>1, <1>3, <1>4
<1>6. a \o b \in Seq(S) /\ Len(a \o b) = Len(a) + Len(b)
  BY <1>3, <1>4, ConcatProperties
<1>7. Len(a \o b) = n - 1
  BY <1>1, <1>5, <1>6
<1> QED
  BY <1>6, <1>7 DEF Without, a, b, n

\* Failover queues jobs, and none when it has found none.
LEMMA Ordered ==
    ASSUME NEW T \in SUBSET Job
    PROVE  /\ InOrderOf(T) \in Seq(Job)
           /\ T = {} => Len(InOrderOf(T)) = 0
<1> DEFINE c == Cardinality(T)
           Nth(k) == CHOOSE j \in T : Cardinality({i \in T : i < j}) = k - 1
<1>1. MaxJobs \in Nat /\ T \in SUBSET (1..MaxJobs)
  BY BoundAssumption DEF Job
<1>2. c \in 0..MaxJobs
      /\ \A k \in 1..c : \E j \in T : Cardinality({i \in T : i < j}) = k - 1
  BY <1>1, Ranks
<1>3. \A k \in 1..c : Nth(k) \in Job
  BY <1>2
<1>4. InOrderOf(T) = [k \in 1..c |-> Nth(k)]
  BY DEF InOrderOf
<1>5. T = {} => c = 0
  BY FS_EmptySet
<1> HIDE DEF c, Nth
<1>6. c \in Nat
  BY <1>1, <1>2
<1>7. InOrderOf(T) \in Seq(Job)
  BY <1>3, <1>4, <1>6, IsASeq
<1>8. DOMAIN InOrderOf(T) = 1..Len(InOrderOf(T)) /\ Len(InOrderOf(T)) \in Nat
  BY <1>7, LenProperties
<1>9. Len(InOrderOf(T)) = c
  BY <1>4, <1>6, <1>8
<1> QED
  BY <1>5, <1>7, <1>9

-----------------------------------------------------------------------------
(* Types *)

DictOK ==
    /\ active \in Seq(Entry)
    /\ \A i, j \in 1..Len(active) : active[i].id = active[j].id => i = j

ProcessOK ==
    /\ status \in [Process -> {"new", "starting", "running", "dead"}]
    /\ nameOf \in [Process -> Name \cup {0}]
    /\ socket \in [Name -> Process \cup {0}]

WorkOK ==
    /\ queue \in Seq(Job)
    /\ hand \in Pending \cup {NoPick}
    /\ load \in [Name -> {Absent} \cup Nat]
    /\ toRegister \in Seq(Name)
    /\ toSend \in [Name -> Seq(Job)]
    /\ toRecord \in Seq(Pending)
    /\ toFree \in [Name -> Seq(Job)]
    /\ toComplete \in Seq(Job)
    /\ failed \in [Name -> SUBSET {"evict", "requeue"}]
    /\ row \in [Job -> Name \cup {Nobody}]
    /\ executing \in [Process -> Seq(Job)]

Loops == [pc : {"asleep", "backlog", "empty", "up", "down", "stop"}, unseen : BOOLEAN]

HistoryOK ==
    /\ saved \in 0..MaxJobs
    /\ submitted \in 0..MaxJobs /\ finished \subseteq Job /\ deaths \in 0..MaxDeaths
    /\ gap \in BOOLEAN /\ inherited \in BOOLEAN /\ late \in BOOLEAN

RestOK == ProcessOK /\ WorkOK /\ loop \in Loops /\ HistoryOK

LEMMA TypeParts == TypeOK <=> DictOK /\ RestOK
BY DEF TypeOK, DictOK, RestOK, ProcessOK, WorkOK, HistoryOK, Entry, Loops

LEMMA TypePartsNext == TypeOK' <=> DictOK' /\ RestOK'
BY DEF TypeOK, DictOK, RestOK, ProcessOK, WorkOK, HistoryOK, Entry, Loops, Pending,
       NoPick

LEMMA NextNameIsName ==
    ASSUME TypeOK, ~AtMaximum
    PROVE  NextName \in Name
BY CleanedEntries, ScaleAssumption DEF NextName, AtMaximum, Name

\* scale_down takes the newest entry away.
LEMMA FrontOf ==
    ASSUME NEW s \in Seq(Entry), Len(s) > 0
    PROVE  /\ Len(s) \in 1..Len(s)
           /\ SubSeq(s, 1, Len(s) - 1) \in Seq(Entry)
           /\ Len(SubSeq(s, 1, Len(s) - 1)) = Len(s) - 1
           /\ \A i \in 1..(Len(s) - 1) : SubSeq(s, 1, Len(s) - 1)[i] = s[i]
<1>1. Len(s) \in Nat /\ Len(s) - 1 \in Nat
  BY LenProperties
<1>2. \A i \in 1..(Len(s) - 1) : i \in 1..Len(s) /\ s[i] \in Entry
  BY <1>1, ElementOfSeq
<1>3. /\ SubSeq(s, 1, Len(s) - 1) \in Seq(Entry)
      /\ Len(SubSeq(s, 1, Len(s) - 1)) =
            IF 1 <= Len(s) - 1 THEN (Len(s) - 1) - 1 + 1 ELSE 0
      /\ \A i \in 1..((Len(s) - 1) - 1 + 1) :
            SubSeq(s, 1, Len(s) - 1)[i] = s[1 + i - 1]
  BY <1>1, <1>2, SubSeqProperties
<1>4. \A i \in 1..(Len(s) - 1) : 1 + i - 1 = i /\ i \in 1..((Len(s) - 1) - 1 + 1)
  BY <1>1
<1>5. \A i \in 1..(Len(s) - 1) : SubSeq(s, 1, Len(s) - 1)[i] = s[i]
  BY <1>3, <1>4
<1>6. Len(SubSeq(s, 1, Len(s) - 1)) = Len(s) - 1
  <2> DEFINE n == Len(s)
             k == Len(SubSeq(s, 1, n - 1))
  <2>1. n \in Nat /\ n - 1 \in Nat /\ k = IF 1 <= n - 1 THEN (n - 1) - 1 + 1 ELSE 0
    BY <1>1, <1>3
  <2> HIDE DEF n, k
  <2>2. k = n - 1
    BY <2>1
  <2> QED
    BY <2>2 DEF n, k
<1> QED
  BY <1>1, <1>3, <1>5, <1>6

-----------------------------------------------------------------------------
(* The dictionary and the processes *)

\* What a step does to them: most steps leave them alone.
LEMMA ProcessSteps ==
    ASSUME Next
    PROVE  \/ UNCHANGED <<active, status, nameOf, socket, gap>>
           \/ active' = Cleaned /\ UNCHANGED <<status, nameOf, socket, gap>>
           \/ \E p \in Process : Connect(p) \/ ProcessDies(p) \/ ScaleUp(p)
           \/ ScaleDown
<1> USE DEF process, history
<1>1. CASE Submit
  BY <1>1 DEF Submit
<1>2. CASE Assigner \/ Save \/ Record \/ Complete \/ Register
  BY <1>2 DEF Assigner, PickStatic, Assign, Pick, Save, Record, Complete, Register
<1>3. ASSUME NEW n \in Name, Send(n) \/ Free(n) \/ Report(n) \/ Evict(n) \/ Requeue(n)
      PROVE  UNCHANGED <<active, status, nameOf, socket, gap>>
  BY <1>3 DEF Send, Free, Report, Evict, Requeue
<1>4. ASSUME NEW p \in Process, NEW i \in 1..Len(executing[p]), Finish(p, i)
      PROVE  UNCHANGED <<active, status, nameOf, socket, gap>>
  BY <1>4 DEF Finish
<1>5. CASE SampleQueue \/ CheckIdle
  BY <1>5 DEF SampleQueue, CheckIdle
<1>6. CASE SampleWorkers \/ ScaleUpAtMaximum \/ ScaleDownAtMinimum
  BY <1>6 DEF SampleWorkers, ScaleUpAtMaximum, ScaleDownAtMinimum
<1> QED
  BY <1>1, <1>2, <1>3, <1>4, <1>5, <1>6 DEF Next, Work, Loop

LEMMA DictionaryStep ==
    ASSUME TypeOK, Next
    PROVE  DictOK'
<1>1. DictOK /\ Cleaned \in Seq(Entry) /\ Len(Cleaned) \in Nat
      /\ \A k, l \in 1..Len(Cleaned) : Cleaned[k].id = Cleaned[l].id => k = l
  BY CleanedEntries, TypeParts
<1>2. CASE UNCHANGED active
  BY <1>1, <1>2 DEF DictOK
<1>3. CASE active' = Cleaned
  BY <1>1, <1>3 DEF DictOK
<1>4. ASSUME NEW p \in Process, ScaleUp(p)
      PROVE  DictOK'
  <2> DEFINE t == Stored(Cleaned, NextName, p)
  <2>1. NextName \in Name
    BY <1>4, NextNameIsName DEF ScaleUp
  <2>2. /\ t \in Seq(Entry)
        /\ \A i, j \in 1..Len(t) : t[i].id = t[j].id => i = j
    BY <1>1, <2>1, StoredEntries
  <2> HIDE DEF t
  <2>3. active' = t
    BY <1>4 DEF t, ScaleUp
  <2> QED
    BY <2>2, <2>3 DEF DictOK
<1>5. CASE ScaleDown
  <2>1. /\ Len(Cleaned) > MinWorkers
        /\ active' = SubSeq(Cleaned, 1, Len(Cleaned) - 1)
    BY <1>5 DEF ScaleDown
  <2>2. Len(Cleaned) > 0
    BY <1>1, <2>1, ScaleAssumption
  <2>3. /\ active' \in Seq(Entry) /\ Len(active') = Len(Cleaned) - 1
        /\ \A i \in 1..(Len(Cleaned) - 1) : active'[i] = Cleaned[i]
    BY <1>1, <2>1, <2>2, FrontOf
  <2>4. \A i \in 1..(Len(Cleaned) - 1) : i \in 1..Len(Cleaned)
    BY <1>1
  <2>5. \A i, j \in 1..Len(active') : active'[i].id = active'[j].id => i = j
    BY <1>1, <2>3, <2>4
  <2> QED
    BY <2>3, <2>5 DEF DictOK
<1>6. ASSUME NEW p \in Process, Connect(p) \/ ProcessDies(p) PROVE UNCHANGED active
  BY <1>6 DEF Connect, ProcessDies
<1> QED
  BY <1>2, <1>3, <1>4, <1>5, <1>6, ProcessSteps

\* Where the actions take what they change from.
LEMMA Facts ==
    ASSUME IInv
    PROVE  /\ TypeOK /\ RestOK
           /\ \A p \in Process : status[p] # "new" => nameOf[p] \in Name
           /\ \A p \in Process : executing[p] # <<>> => status[p] = "running"
           /\ \A p \in Process : Live(p) => nameOf[p] \in Name
           /\ Cleaned \in Seq(Entry) /\ Len(Cleaned) \in Nat
           /\ \A k \in 1..Len(Cleaned) :
                 Cleaned[k].proc \in Process /\ Live(Cleaned[k].proc)
           /\ \A i \in 1..Len(active) : active[i].proc \in Process /\ active[i].id \in Name
<1>1. TypeOK /\ RestOK /\ Entries /\ Sockets
  BY TypeParts DEF IInv
<1>2. Cleaned \in Seq(Entry) /\ Len(Cleaned) \in Nat
  BY <1>1, CleanedEntries
<1>3. \A i \in 1..Len(active) : active[i] \in Entry
  <2>1. active \in Seq(Entry)
    BY <1>1 DEF TypeOK, Entry
  <2> QED
    BY <2>1, ElementOfSeq
<1>4. \A k \in 1..Len(Cleaned) : Cleaned[k].proc \in Process /\ Live(Cleaned[k].proc)
  BY <1>1, <1>3, CleanedEntries DEF Entry
<1>5. \A p \in Process : Live(p) => status[p] # "new"
  BY DEF Live
<1> QED
  BY <1>1, <1>2, <1>3, <1>4, <1>5 DEF Entries, Sockets, Entry

LEMMA NewestIsLive ==
    ASSUME IInv, ScaleDown
    PROVE  /\ Len(Cleaned) \in 1..Len(Cleaned) /\ Len(Cleaned) > 0
           /\ Newest \in Process /\ Live(Newest) /\ Dies(Newest)
<1>1. Len(Cleaned) \in Nat /\ Len(Cleaned) > MinWorkers /\ MinWorkers \in Nat
  BY Facts, ScaleAssumption DEF ScaleDown
<1>2. Len(Cleaned) \in 1..Len(Cleaned) /\ Len(Cleaned) > 0
  BY <1>1
<1> QED
  BY <1>2, Facts DEF Newest, ScaleDown

LEMMA ProcessStep ==
    ASSUME IInv, Next
    PROVE  ProcessOK'
<1>1. ProcessOK
  BY Facts DEF RestOK
<1>2. ASSUME UNCHANGED <<status, nameOf, socket>> PROVE ProcessOK'
  BY <1>1, <1>2 DEF ProcessOK
<1>3. ASSUME NEW p \in Process, Connect(p) PROVE ProcessOK'
  BY <1>1, <1>3 DEF ProcessOK, Connect
<1>4. ASSUME NEW p \in Process, Dies(p), UNCHANGED <<nameOf, socket>> PROVE ProcessOK'
  BY <1>1, <1>4 DEF ProcessOK, Dies
<1>5. ASSUME NEW p \in Process, ProcessDies(p) PROVE ProcessOK'
  BY <1>4, <1>5 DEF ProcessDies
<1>6. ASSUME NEW p \in Process, ScaleUp(p) PROVE ProcessOK'
  <2>1. NextName \in Name
    BY <1>6, Facts, NextNameIsName DEF ScaleUp
  <2> QED
    BY <1>1, <1>6, <2>1 DEF ProcessOK, ScaleUp
<1>7. CASE ScaleDown
  BY <1>4, <1>7, NewestIsLive DEF ScaleDown
<1> QED
  BY <1>2, <1>3, <1>5, <1>6, <1>7, ProcessSteps

-----------------------------------------------------------------------------
(* The work *)

\* What the steps do to the work, one action after the other.
LEMMA WorkStep ==
    ASSUME IInv, Next
    PROVE  WorkOK'
<1> USE DEF process, workload, bus, history
<1>1. /\ WorkOK
      /\ \A p \in Process : Live(p) => nameOf[p] \in Name
      /\ hand # NoPick => hand \in Pending /\ hand.job \in Job /\ hand.to \in Name
      /\ \A n \in Name, j \in Job : [job |-> j, to |-> n] \in Pending
      /\ <<>> \in Seq(Job)
  BY Facts, EmptySeq DEF RestOK, WorkOK, Pending
<1>2. ASSUME UNCHANGED workload PROVE WorkOK'
  BY <1>1, <1>2 DEF WorkOK
<1>3. CASE Submit
  <2>1. submitted' \in Job
    BY <1>3, Facts, BoundAssumption DEF Submit, RestOK, HistoryOK, Job
  <2>2. queue' \in Seq(Job)
    BY <1>1, <1>3, <2>1, Queues DEF WorkOK, Submit
  <2> QED
    BY <1>1, <1>3, <2>2 DEF WorkOK, Submit
<1>4. CASE Save
  BY <1>1, <1>4 DEF WorkOK, Save
<1>5. ASSUME NEW n \in Name, Pick(n) PROVE WorkOK'
  <2>1. queue' \in Seq(Job) /\ hand' \in Pending
    BY <1>1, <1>5, Queues DEF WorkOK, Pick
  <2> QED
    BY <1>1, <1>5, <2>1 DEF WorkOK, Pick
<1>6. CASE PickStatic
  <2>1. queue' \in Seq(Job)
    BY <1>1, <1>6, Queues DEF WorkOK, PickStatic
  <2> QED
    BY <1>1, <1>6, <2>1 DEF WorkOK, PickStatic
<1>7. CASE Assign
  <2>1. hand \in Pending /\ hand.job \in Job /\ hand.to \in Name /\ hand' = NoPick
    BY <1>1, <1>7 DEF Assign
  <2>2. toRecord' \in Seq(Pending)
    BY <1>1, <1>7, <2>1, Queues DEF WorkOK, Assign
  <2>3. toSend' \in [Name -> Seq(Job)]
    <3>1. Append(toSend[hand.to], hand.job) \in Seq(Job)
      BY <1>1, <2>1, Queues DEF WorkOK
    <3> QED
      BY <1>1, <1>7, <3>1 DEF WorkOK, Assign
  <2>4. load' \in [Name -> {Absent} \cup Nat]
    <3>1. load[hand.to] # Absent => load[hand.to] + 1 \in Nat
      BY <1>1, <2>1 DEF WorkOK
    <3> QED
      BY <1>1, <1>7, <3>1 DEF WorkOK, Assign
  <2> QED
    BY <1>1, <1>7, <2>1, <2>2, <2>3, <2>4 DEF WorkOK, Assign
<1>8. ASSUME NEW n \in Name, Send(n) PROVE WorkOK'
  <2>1. Head(toSend[n]) \in Job /\ Tail(toSend[n]) \in Seq(Job)
    BY <1>1, <1>8, Queues DEF WorkOK, Send
  <2>2. \A p \in Process : Append(executing[p], Head(toSend[n])) \in Seq(Job)
    BY <1>1, <2>1, Queues DEF WorkOK
  <2>3. toSend' \in [Name -> Seq(Job)]
    BY <1>1, <1>8, <2>1 DEF WorkOK, Send
  <2>4. executing' \in [Process -> Seq(Job)]
    BY <1>1, <1>8, <2>2 DEF WorkOK, Send
  <2> QED
    BY <1>1, <1>8, <2>3, <2>4 DEF WorkOK, Send
<1>9. CASE Record
  <2>1. Head(toRecord) \in Pending /\ toRecord' \in Seq(Pending)
    BY <1>1, <1>9, Queues DEF WorkOK, Record
  <2>2. Head(toRecord).job \in Job /\ Head(toRecord).to \in Name
    BY <2>1 DEF Pending
  <2>3. row' \in [Job -> Name \cup {Nobody}]
    BY <1>1, <1>9, <2>2 DEF WorkOK, Record
  <2> QED
    BY <1>1, <1>9, <2>1, <2>3 DEF WorkOK, Record
<1>10. ASSUME NEW p \in Process, NEW i \in 1..Len(executing[p]), Finish(p, i) PROVE WorkOK'
  <2>1. nameOf[p] \in Name
    BY <1>1, <1>10 DEF Finish, Live
  <2>2. Without(executing[p], i) \in Seq(Job) /\ executing[p][i] \in Job
    BY <1>1, OneLess, ElementOfSeq DEF WorkOK
  <2>3. toComplete' \in Seq(Job) /\ Append(toFree[nameOf[p]], executing[p][i]) \in Seq(Job)
    BY <1>1, <1>10, <2>1, <2>2, Queues DEF WorkOK, Finish
  <2>4. executing' \in [Process -> Seq(Job)]
    BY <1>1, <1>10, <2>2 DEF WorkOK, Finish
  <2>5. toFree' \in [Name -> Seq(Job)]
    BY <1>1, <1>10, <2>3 DEF WorkOK, Finish
  <2> QED
    BY <1>1, <1>10, <2>3, <2>4, <2>5 DEF WorkOK, Finish
<1>11. ASSUME NEW n \in Name, Free(n) PROVE WorkOK'
  <2>1. Tail(toFree[n]) \in Seq(Job)
    BY <1>1, <1>11, Queues DEF WorkOK, Free
  <2>2. Decremented(load[n]) \in {Absent} \cup Nat
    BY <1>1 DEF WorkOK, Decremented, Absent
  <2> QED
    BY <1>1, <1>11, <2>1, <2>2 DEF WorkOK, Free
<1>12. CASE Complete
  <2>1. toComplete' \in Seq(Job)
    BY <1>1, <1>12, Queues DEF WorkOK, Complete
  <2> QED
    BY <1>1, <1>12, <2>1 DEF WorkOK, Complete
<1>13. ASSUME NEW p \in Process, Connect(p) PROVE WorkOK'
  <2>1. nameOf[p] \in Name
    BY <1>1, <1>13 DEF Connect, Live
  <2>2. toRegister' \in Seq(Name)
    BY <1>1, <1>13, <2>1, Queues DEF WorkOK, Connect
  <2> QED
    BY <1>1, <1>13, <2>2 DEF WorkOK, Connect
<1>14. CASE Register
  <2>1. toRegister' \in Seq(Name)
    BY <1>1, <1>14, Queues DEF WorkOK, Register
  <2>2. load' \in [Name -> {Absent} \cup Nat]
    BY <1>1, <1>14 DEF WorkOK, Register
  <2> QED
    BY <1>1, <1>14, <2>1, <2>2 DEF WorkOK, Register
<1>15. ASSUME NEW n \in Name, Report(n) \/ Evict(n) PROVE WorkOK'
  <2>1. /\ load' \in [Name -> {Absent} \cup Nat]
        /\ failed' \in [Name -> SUBSET {"evict", "requeue"}]
    BY <1>1, <1>15 DEF WorkOK, Report, Evict
  <2> QED
    BY <1>1, <1>15, <2>1 DEF WorkOK, Report, Evict
<1>16. ASSUME NEW n \in Name, Requeue(n) PROVE WorkOK'
  <2>1. queue' \in Seq(Job)
    <3>1. InOrderOf(Owed(n)) \in Seq(Job)
      BY Ordered DEF Owed
    <3> QED
      BY <1>1, <1>16, <3>1, ConcatProperties DEF WorkOK, Requeue
  <2>2. failed' \in [Name -> SUBSET {"evict", "requeue"}]
    BY <1>1, <1>16 DEF WorkOK, Requeue
  <2>3. row' \in [Job -> Name \cup {Nobody}]
    BY <1>1, <1>16 DEF WorkOK, Requeue
  <2> QED
    BY <1>1, <1>16, <2>1, <2>2, <2>3 DEF WorkOK, Requeue
<1>17. ASSUME NEW p \in Process, Dies(p), 
              UNCHANGED <<queue, hand, load, bus, failed, saved, row>>
       PROVE  WorkOK'
  <2>1. executing' \in [Process -> Seq(Job)]
    BY <1>1, <1>17 DEF WorkOK, Dies
  <2> QED
    BY <1>1, <1>17, <2>1 DEF WorkOK
<1>18. ASSUME NEW p \in Process, ProcessDies(p) PROVE WorkOK'
  BY <1>17, <1>18 DEF ProcessDies
<1>19. CASE ScaleDown
  BY <1>17, <1>19, NewestIsLive DEF ScaleDown
<1>20. ASSUME NEW p \in Process, ScaleUp(p) PROVE WorkOK'
  BY <1>2, <1>20 DEF ScaleUp
<1>21. CASE SampleQueue \/ SampleWorkers \/ ScaleUpAtMaximum \/ CheckIdle \/ ScaleDownAtMinimum
  BY <1>2, <1>21 DEF SampleQueue, SampleWorkers, ScaleUpAtMaximum, CheckIdle,
                     ScaleDownAtMinimum
<1> QED
  BY <1>3, <1>4, <1>5, <1>6, <1>7, <1>8, <1>9, <1>10, <1>11, <1>12, <1>13, <1>14,
     <1>15, <1>16, <1>18, <1>19, <1>20, <1>21 DEF Next, Work, Assigner, Loop


-----------------------------------------------------------------------------
(* The loop and the history *)

LEMMA LoopStep ==
    ASSUME IInv, Next
    PROVE  loop' \in Loops
<1> USE DEF history
<1>1. loop \in Loops
  BY Facts DEF RestOK
<1>2. ASSUME JobArrives PROVE loop' \in Loops
  BY <1>1, <1>2 DEF JobArrives, Loops
<1>3. ASSUME Asleep PROVE loop' \in Loops
  BY <1>3 DEF Asleep, Sleeping, Loops
<1>4. CASE Submit
  BY <1>2, <1>4 DEF Submit
<1>5. CASE Assigner \/ Save \/ Record \/ Complete \/ Register
  BY <1>1, <1>5 DEF Assigner, PickStatic, Assign, Pick, Save, Record, Complete, Register
<1>6. ASSUME NEW n \in Name, Send(n) \/ Free(n) \/ Report(n) \/ Evict(n) PROVE loop' \in Loops
  BY <1>1, <1>6 DEF Send, Free, Report, Evict
<1>7. ASSUME NEW n \in Name, Requeue(n) PROVE loop' \in Loops
  BY <1>1, <1>2, <1>7 DEF Requeue
<1>8. ASSUME NEW p \in Process, NEW i \in 1..Len(executing[p]), Finish(p, i)
      PROVE  loop' \in Loops
  BY <1>1, <1>8 DEF Finish
<1>9. ASSUME NEW p \in Process, Connect(p) \/ ProcessDies(p) PROVE loop' \in Loops
  BY <1>1, <1>9 DEF Connect, ProcessDies
<1>10. CASE SampleQueue
  BY <1>10 DEF SampleQueue, Loops
<1>11. CASE SampleWorkers
  BY <1>1, <1>3, <1>11 DEF SampleWorkers, Loops
<1>12. CASE CheckIdle
  BY <1>1, <1>3, <1>12 DEF CheckIdle, Loops
<1>13. CASE ScaleUpAtMaximum \/ ScaleDown \/ ScaleDownAtMinimum \/ \E p \in Process : ScaleUp(p)
  BY <1>3, <1>13 DEF ScaleUpAtMaximum, ScaleDown, ScaleDownAtMinimum, ScaleUp
<1> QED
  BY <1>4, <1>5, <1>6, <1>7, <1>8, <1>9, <1>10, <1>11, <1>12, <1>13 DEF Next, Work, Loop

LEMMA HistoryStep ==
    ASSUME IInv, Next
    PROVE  HistoryOK'
<1> USE DEF history, workload
<1>1. /\ HistoryOK /\ WorkOK /\ MaxJobs \in Nat /\ MaxDeaths \in Nat
      /\ gap \in BOOLEAN /\ inherited \in BOOLEAN /\ late \in BOOLEAN
      /\ saved \in Nat /\ submitted \in Nat /\ deaths \in Nat
      /\ saved <= MaxJobs /\ submitted <= MaxJobs /\ deaths <= MaxDeaths
      /\ finished \subseteq Job
  BY Facts, BoundAssumption DEF RestOK, HistoryOK
<1>2. ASSUME UNCHANGED <<saved, history>> PROVE HistoryOK'
  BY <1>1, <1>2 DEF HistoryOK
<1>3. CASE Submit
  BY <1>1, <1>3 DEF Submit, HistoryOK
<1>4. CASE Save
  BY <1>1, <1>4 DEF Save, HistoryOK
<1>5. CASE PickStatic
  <2>1. Head(queue) \in Job
    BY <1>1, <1>5, Queues DEF WorkOK, PickStatic
  <2> QED
    BY <1>1, <1>5, <2>1 DEF PickStatic, HistoryOK
<1>6. CASE Assign
  BY <1>1, <1>6 DEF Assign, HistoryOK
<1>7. CASE Record
  <2>1. late' \in BOOLEAN
    BY <1>7 DEF Record
  <2> QED
    BY <1>1, <1>7, <2>1 DEF Record, HistoryOK
<1>8. ASSUME NEW p \in Process, NEW i \in 1..Len(executing[p]), Finish(p, i)
      PROVE  HistoryOK'
  <2>1. executing[p][i] \in Job
    BY <1>1, ElementOfSeq DEF WorkOK
  <2> QED
    BY <1>1, <1>8, <2>1 DEF Finish, HistoryOK
<1>9. ASSUME NEW p \in Process, Connect(p) PROVE HistoryOK'
  <2>1. inherited' \in BOOLEAN
    BY <1>9 DEF Connect
  <2> QED
    BY <1>1, <1>9, <2>1 DEF Connect, HistoryOK
<1>10. ASSUME NEW p \in Process, ProcessDies(p) PROVE HistoryOK'
  <2>1. gap' \in BOOLEAN
    BY <1>10 DEF ProcessDies
  <2> QED
    BY <1>1, <1>10, <2>1 DEF ProcessDies, HistoryOK
<1>11. ASSUME NEW n \in Name, Report(n) PROVE HistoryOK'
  BY <1>1, <1>11 DEF Report, HistoryOK
<1>12. CASE Complete \/ Register \/ \E n \in Name : Pick(n)
  BY <1>2, <1>12 DEF Complete, Register, Pick
<1>13. ASSUME NEW n \in Name, Send(n) \/ Free(n) \/ Evict(n) \/ Requeue(n) PROVE HistoryOK'
  BY <1>2, <1>13 DEF Send, Free, Evict, Requeue
<1>14. CASE Loop
  BY <1>2, <1>14 DEF Loop, SampleQueue, SampleWorkers, ScaleUp, ScaleUpAtMaximum,
                     CheckIdle, ScaleDown, ScaleDownAtMinimum
<1> QED
  BY <1>3, <1>4, <1>5, <1>6, <1>7, <1>8, <1>9, <1>10, <1>11, <1>12, <1>13, <1>14
     DEF Next, Work, Assigner

LEMMA TypeStep ==
    ASSUME IInv, Next
    PROVE  TypeOK'
BY Facts, DictionaryStep, ProcessStep, WorkStep, LoopStep, HistoryStep, TypePartsNext
   DEF RestOK

LEMMA InitInv == Init => IInv
<1> SUFFICES ASSUME Init PROVE IInv
  OBVIOUS
<1>1. DictOK /\ ProcessOK
  BY DEF Init, DictOK, ProcessOK
<1>2. WorkOK
  BY DEF Init, WorkOK
<1>3. loop \in Loops /\ HistoryOK
  <2>1. loop \in Loops
    BY DEF Init, Sleeping, Loops
  <2>2. saved \in 0..MaxJobs /\ submitted \in 0..MaxJobs /\ deaths \in 0..MaxDeaths
    BY BoundAssumption DEF Init
  <2>3. /\ finished \subseteq Job
        /\ gap \in BOOLEAN /\ inherited \in BOOLEAN /\ late \in BOOLEAN
    BY DEF Init
  <2> QED
    BY <2>1, <2>2, <2>3 DEF HistoryOK
<1>4. Entries /\ Sockets /\ InOrder /\ SamplesHold /\ Counted
  BY DEF Init, Entries, Sockets, InOrder, SamplesHold, Counted, Live, Sleeping
<1> QED
  BY <1>1, <1>2, <1>3, <1>4, TypeParts DEF IInv, RestOK

-----------------------------------------------------------------------------
(* Processes and their names *)

\* A process is started once and keeps its name.
LEMMA Started ==
    ASSUME IInv, Next, NEW p \in Process
    PROVE  /\ status[p] # "new" => status'[p] # "new" /\ nameOf'[p] = nameOf[p]
           /\ status[p] = "new" => status'[p] = "new" \/ ScaleUp(p)
<1>1. status \in [Process -> {"new", "starting", "running", "dead"}]
      /\ nameOf \in [Process -> Name \cup {0}]
  BY Facts DEF RestOK, ProcessOK
<1>2. CASE UNCHANGED <<status, nameOf>>
  BY <1>2
<1>3. ASSUME NEW q \in Process, Dies(q), Live(q), UNCHANGED nameOf
      PROVE  status[p] # "new" <=> status'[p] # "new"
  BY <1>1, <1>3 DEF Dies, Live
<1>5. ASSUME NEW q \in Process, ProcessDies(q)
      PROVE  status[p] # "new" <=> status'[p] # "new"
  BY <1>3, <1>5 DEF ProcessDies
<1>6. ASSUME NEW q \in Process, Connect(q)
      PROVE  UNCHANGED nameOf /\ (status[p] # "new" <=> status'[p] # "new")
  BY <1>1, <1>6 DEF Connect
<1>7. ASSUME NEW q \in Process, ScaleUp(q)
      PROVE  /\ status[q] = "new"
             /\ p # q => status'[p] = status[p] /\ nameOf'[p] = nameOf[p]
  BY <1>1, <1>7 DEF ScaleUp
<1>8. ASSUME NEW q \in Process, ProcessDies(q) PROVE UNCHANGED nameOf
  BY <1>8 DEF ProcessDies
<1>9. ASSUME ScaleDown
      PROVE UNCHANGED nameOf /\ (status[p] # "new" <=> status'[p] # "new")
  BY <1>3, <1>9, NewestIsLive DEF ScaleDown
<1> QED
  BY <1>2, <1>5, <1>6, <1>7, <1>8, <1>9, ProcessSteps

\* An entry of the dictionary was there before or is that of a new process.
LEMMA EntrySteps ==
    ASSUME IInv, Next, NEW i \in 1..Len(active')
    PROVE  \/ \E j \in 1..Len(active) : active'[i] = active[j]
           \/ \E p \in Process :
                 ScaleUp(p) /\ active'[i] = [id |-> NextName, proc |-> p]
<1>1. /\ Cleaned \in Seq(Entry) /\ Len(Cleaned) \in Nat
      /\ \A k \in 1..Len(Cleaned) : \E j \in 1..Len(active) : Cleaned[k] = active[j]
      /\ \A k, l \in 1..Len(Cleaned) : Cleaned[k].id = Cleaned[l].id => k = l
  BY Facts, CleanedEntries
<1>2. CASE UNCHANGED active
  BY <1>2
<1>3. CASE active' = Cleaned
  BY <1>1, <1>3
<1>4. ASSUME NEW p \in Process, ScaleUp(p), active' = Stored(Cleaned, NextName, p)
      PROVE  \/ \E j \in 1..Len(active) : active'[i] = active[j]
             \/ active'[i] = [id |-> NextName, proc |-> p]
  <2> DEFINE t == Stored(Cleaned, NextName, p)
  <2>1. NextName \in Name
    BY <1>4, Facts, NextNameIsName DEF ScaleUp
  <2>2. \A l \in 1..Len(t) : \/ t[l] = [id |-> NextName, proc |-> p]
                             \/ \E k \in 1..Len(Cleaned) : t[l] = Cleaned[k]
    BY <1>1, <2>1, StoredEntries
  <2> HIDE DEF t
  <2>3. active' = t
    BY <1>4 DEF t
  <2> QED
    BY <1>1, <2>2, <2>3
<1>5. CASE ScaleDown
  <2>1. /\ Len(Cleaned) > 0 /\ active' = SubSeq(Cleaned, 1, Len(Cleaned) - 1)
    BY <1>5, NewestIsLive DEF ScaleDown
  <2>2. /\ Len(active') = Len(Cleaned) - 1
        /\ \A k \in 1..(Len(Cleaned) - 1) : active'[k] = Cleaned[k]
    BY <1>1, <2>1, FrontOf
  <2>3. i \in 1..Len(Cleaned) /\ active'[i] = Cleaned[i]
    BY <1>1, <2>2
  <2> QED
    BY <1>1, <2>3
<1>6. ASSUME NEW p \in Process, Connect(p) \/ ProcessDies(p) PROVE UNCHANGED active
  BY <1>6 DEF Connect, ProcessDies
<1>7. ASSUME NEW p \in Process, ScaleUp(p) PROVE active' = Stored(Cleaned, NextName, p)
  BY <1>7 DEF ScaleUp
<1> QED
  BY <1>2, <1>3, <1>4, <1>5, <1>6, <1>7, ProcessSteps

LEMMA EntriesStep ==
    ASSUME IInv, Next
    PROVE  Entries'
<1>1. /\ nameOf \in [Process -> Name \cup {0}]
      /\ status \in [Process -> {"new", "starting", "running", "dead"}]
      /\ \A p \in Process : status[p] # "new" => nameOf[p] \in Name
      /\ \A i \in 1..Len(active) :
            /\ active[i].proc \in Process
            /\ status[active[i].proc] # "new"
            /\ nameOf[active[i].proc] = active[i].id
  BY Facts DEF RestOK, ProcessOK, IInv, Entries
<1>2. ASSUME NEW p \in Process, ScaleUp(p)
      PROVE  status'[p] = "starting" /\ nameOf'[p] = NextName /\ NextName \in Name
  BY <1>1, <1>2, Facts, NextNameIsName DEF ScaleUp
<1>3. ASSUME NEW i \in 1..Len(active')
      PROVE  /\ status'[active'[i].proc] # "new"
             /\ nameOf'[active'[i].proc] = active'[i].id
  <2>1. CASE \E j \in 1..Len(active) : active'[i] = active[j]
    BY <1>1, <2>1, Started
  <2>2. CASE \E p \in Process : ScaleUp(p) /\ active'[i] = [id |-> NextName, proc |-> p]
    BY <1>2, <2>2
  <2> QED
    BY <2>1, <2>2, EntrySteps
<1>4. ASSUME NEW p \in Process, status'[p] # "new" PROVE nameOf'[p] \in Name
  BY <1>1, <1>2, <1>4, Started
<1> QED
  BY <1>3, <1>4 DEF Entries

LEMMA SocketsStep ==
    ASSUME IInv, Next
    PROVE  Sockets'
<1> USE DEF process, workload, bus, history
<1>1. /\ ProcessOK /\ WorkOK /\ Sockets
      /\ \A p \in Process : p # 0
      /\ \A p \in Process : executing[p] # <<>> => status[p] = "running"
      /\ \A n \in Name : socket[n] # 0 =>
            /\ socket[n] \in Process
            /\ status[socket[n]] \in {"running", "dead"} /\ nameOf[socket[n]] = n
  <2>1. \A p \in Process : p # 0
    BY DEF Process
  <2>2. ProcessOK /\ WorkOK /\ Sockets
    BY Facts DEF IInv, RestOK
  <2> QED
    BY <2>1, <2>2 DEF ProcessOK, Sockets
<1>2. ASSUME UNCHANGED <<status, nameOf, socket>>,
             \A p \in Process : executing'[p] # executing[p] => status[p] = "running"
      PROVE  Sockets'
  BY <1>1, <1>2 DEF Sockets
<1>3. ASSUME UNCHANGED <<process, executing>> PROVE Sockets'
  BY <1>2, <1>3
<1>4. CASE Submit \/ Assigner \/ Save \/ Record \/ Complete \/ Register
  BY <1>3, <1>4 DEF Submit, Assigner, PickStatic, Assign, Pick, Save, Record, Complete,
                    Register
<1>5. ASSUME NEW n \in Name, Free(n) \/ Report(n) \/ Evict(n) \/ Requeue(n) PROVE Sockets'
  BY <1>3, <1>5 DEF Free, Report, Evict, Requeue
<1>6. ASSUME NEW n \in Name, Send(n) PROVE Sockets'
  <2>1. UNCHANGED <<status, nameOf, socket>>
    BY <1>6 DEF Send
  <2>2. ASSUME NEW p \in Process, executing'[p] # executing[p] PROVE status[p] = "running"
    <3>1. p = socket[n] /\ Live(p)
      BY <1>1, <1>6, <2>2 DEF WorkOK, Send
    <3> QED
      BY <1>1, <3>1 DEF Live
  <2> QED
    BY <1>2, <2>1, <2>2
<1>7. ASSUME NEW p \in Process, NEW i \in 1..Len(executing[p]), Finish(p, i) PROVE Sockets'
  <2>1. UNCHANGED <<status, nameOf, socket>> /\ status[p] = "running"
    BY <1>7 DEF Finish
  <2>2. \A q \in Process : q # p => executing'[q] = executing[q]
    BY <1>1, <1>7 DEF WorkOK, Finish
  <2> QED
    BY <1>2, <2>1, <2>2
<1>8. ASSUME NEW p \in Process, Connect(p) PROVE Sockets'
  <2>1. /\ UNCHANGED <<nameOf, executing>> /\ nameOf[p] \in Name
        /\ status[p] = "starting" /\ status'[p] = "running"
        /\ \A q \in Process : q # p => status'[q] = status[q]
        /\ socket'[nameOf[p]] = p
        /\ \A n \in Name : n # nameOf[p] => socket'[n] = socket[n]
    <3>1. nameOf[p] \in Name /\ status[p] = "starting"
      BY <1>8, Facts DEF Connect, Live
    <3> QED
      BY <1>1, <1>8, <3>1 DEF ProcessOK, Connect
  <2>2. \A q \in Process : executing'[q] # <<>> => status'[q] = "running"
    BY <1>1, <2>1
  <2>3. ASSUME NEW n \in Name, socket'[n] # 0
        PROVE  status'[socket'[n]] \in {"running", "dead"} /\ nameOf'[socket'[n]] = n
    BY <1>1, <2>1, <2>3
  <2> QED
    BY <2>2, <2>3 DEF Sockets
<1>9. ASSUME NEW p \in Process, Dies(p), Live(p), UNCHANGED <<nameOf, socket>>
      PROVE  Sockets'
  <2>1. /\ status'[p] = "dead" /\ executing'[p] = <<>>
        /\ \A q \in Process : q # p => status'[q] = status[q] /\ executing'[q] = executing[q]
    BY <1>1, <1>9 DEF ProcessOK, WorkOK, Dies
  <2>2. \A q \in Process : executing'[q] # <<>> => status'[q] = "running"
    BY <1>1, <2>1
  <2>3. ASSUME NEW n \in Name, socket'[n] # 0
        PROVE  status'[socket'[n]] \in {"running", "dead"} /\ nameOf'[socket'[n]] = n
    BY <1>1, <1>9, <2>1, <2>3
  <2> QED
    BY <2>2, <2>3 DEF Sockets
<1>10. ASSUME NEW p \in Process, ProcessDies(p) PROVE Sockets'
  BY <1>9, <1>10 DEF ProcessDies
<1>11. CASE ScaleDown
  BY <1>9, <1>11, NewestIsLive DEF ScaleDown
<1>12. ASSUME NEW p \in Process, ScaleUp(p) PROVE Sockets'
  <2>1. /\ UNCHANGED <<socket, executing>> /\ status[p] = "new"
        /\ \A q \in Process : q # p => status'[q] = status[q] /\ nameOf'[q] = nameOf[q]
    BY <1>1, <1>12 DEF ProcessOK, ScaleUp
  <2>2. \A q \in Process : executing'[q] # <<>> => status'[q] = "running"
    BY <1>1, <2>1
  <2>3. ASSUME NEW n \in Name, socket'[n] # 0
        PROVE  status'[socket'[n]] \in {"running", "dead"} /\ nameOf'[socket'[n]] = n
    BY <1>1, <2>1, <2>3
  <2> QED
    BY <2>2, <2>3 DEF Sockets
<1>13. CASE SampleQueue \/ SampleWorkers \/ ScaleUpAtMaximum \/ CheckIdle \/ ScaleDownAtMinimum
  BY <1>3, <1>13 DEF SampleQueue, SampleWorkers, ScaleUpAtMaximum, CheckIdle,
                     ScaleDownAtMinimum
<1> QED
  BY <1>4, <1>5, <1>6, <1>7, <1>8, <1>10, <1>11, <1>12, <1>13 DEF Next, Work, Loop

-----------------------------------------------------------------------------
(* The samples of a round *)

LEMMA SamplesHoldStep ==
    ASSUME IInv, Next
    PROVE  SamplesHold'
<1> USE DEF process, workload, bus, history
<1>1. /\ RestOK /\ WorkOK /\ SamplesHold /\ loop \in Loops
      /\ \A n \in Name : load[n] \in Int
  BY Facts DEF RestOK, WorkOK, IInv, Absent
<1>2. ASSUME Asleep PROVE SamplesHold'
  BY <1>2 DEF Asleep, Sleeping, SamplesHold
<1>3. ASSUME JobArrives, UNCHANGED <<load, hand>> PROVE SamplesHold'
  <2>1. /\ loop'.pc = loop.pc
        /\ loop'.unseen = (loop.unseen \/ loop.pc \in {"empty", "down", "stop"})
    BY <1>1, <1>3 DEF JobArrives, Loops
  <2> QED
    BY <1>1, <2>1 DEF SamplesHold
<1>4. ASSUME UNCHANGED <<loop, queue, hand>>, \A n \in Name : load[n] <= 0 => load'[n] <= 0
      PROVE  SamplesHold'
  BY <1>1, <1>4 DEF SamplesHold, AllIdle
<1>5. ASSUME UNCHANGED <<loop, queue, hand, load>> PROVE SamplesHold'
  BY <1>4, <1>5
<1>6. ASSUME UNCHANGED loop, queue # <<>> \/ hand # NoPick PROVE SamplesHold'
  <2>1. ~loop.unseen => loop.pc \notin {"empty", "down", "stop"}
    BY <1>1, <1>6 DEF SamplesHold
  <2> QED
    BY <1>6, <2>1 DEF SamplesHold
<1>7. CASE Submit
  BY <1>3, <1>7 DEF Submit
<1>8. CASE Assigner
  BY <1>6, <1>8 DEF Assigner, PickStatic, Assign, Pick
<1>9. CASE Save \/ Record \/ Complete
  BY <1>5, <1>9 DEF Save, Record, Complete
<1>10. CASE Register
  <2>1. \A n \in Name : load[n] <= 0 => load'[n] <= 0
    BY <1>1, <1>10 DEF WorkOK, Register
  <2> QED
    BY <1>4, <1>10, <2>1 DEF Register
<1>11. ASSUME NEW n \in Name, Send(n) \/ Report(n) PROVE SamplesHold'
  BY <1>5, <1>11 DEF Send, Report
<1>12. ASSUME NEW n \in Name, Free(n) PROVE SamplesHold'
  <2>1. \A m \in Name : load[m] <= 0 => load'[m] <= 0
    BY <1>1, <1>12 DEF WorkOK, Free, Decremented
  <2> QED
    BY <1>4, <1>12, <2>1 DEF Free
<1>13. ASSUME NEW n \in Name, Evict(n) PROVE SamplesHold'
  <2>1. \A m \in Name : load[m] <= 0 => load'[m] <= 0
    BY <1>1, <1>13 DEF WorkOK, Evict, Absent
  <2> QED
    BY <1>4, <1>13, <2>1 DEF Evict
<1>14. ASSUME NEW n \in Name, Requeue(n) PROVE SamplesHold'
  <2>1. CASE Owed(n) # {}
    BY <1>3, <1>14, <2>1 DEF Requeue
  <2>2. CASE Owed(n) = {}
    <3>1. InOrderOf(Owed(n)) \in Seq(Job) /\ Len(InOrderOf(Owed(n))) = 0
      BY <2>2, Ordered
    <3>2. InOrderOf(Owed(n)) = <<>>
      BY <3>1, Queues
    <3>3. queue' = queue \o <<>> /\ queue \in Seq(Job)
      BY <1>1, <1>14, <3>2 DEF WorkOK, Requeue
    <3>4. queue' = queue
      BY <3>3, ConcatEmptySeq
    <3> QED
      BY <1>5, <1>14, <2>2, <3>4 DEF Requeue
  <2> QED
    BY <2>1, <2>2
<1>15. ASSUME NEW p \in Process, NEW i \in 1..Len(executing[p]), Finish(p, i)
       PROVE  SamplesHold'
  BY <1>5, <1>15 DEF Finish
<1>16. ASSUME NEW p \in Process, Connect(p) \/ ProcessDies(p) PROVE SamplesHold'
  BY <1>5, <1>16 DEF Connect, ProcessDies
<1>17. CASE SampleQueue
  <2>1. CASE queue # <<>>
    BY <1>17, <2>1 DEF SampleQueue, SamplesHold
  <2>2. CASE queue = <<>>
    <3>1. loop'.pc = "empty" /\ loop'.unseen = (hand # NoPick) /\ UNCHANGED <<queue, hand>>
      BY <1>17, <2>2 DEF SampleQueue
    <3> QED
      BY <2>2, <3>1 DEF SamplesHold
  <2> QED
    BY <2>1, <2>2
<1>18. CASE SampleWorkers
  <2>1. CASE Asleep
    BY <1>2, <2>1
  <2>2. CASE ~Asleep
    <3>1. /\ loop'.unseen = loop.unseen /\ UNCHANGED <<queue, hand>>
          /\ loop'.pc = "up" \/ (loop.pc = "empty" /\ loop'.pc = "down")
      BY <1>1, <1>18, <2>2 DEF SampleWorkers, MayStop, Loops
    <3> QED
      BY <1>1, <3>1 DEF SamplesHold
  <2> QED
    BY <2>1, <2>2
<1>19. CASE CheckIdle
  <2>1. CASE AllIdle
    <3>1. /\ loop.pc = "down" /\ loop'.pc = "stop" /\ loop'.unseen = loop.unseen
          /\ UNCHANGED <<queue, hand, load>>
      BY <1>1, <1>19, <2>1 DEF CheckIdle, Loops
    <3> QED
      BY <1>1, <2>1, <3>1 DEF SamplesHold, AllIdle
  <2>2. CASE ~AllIdle
    BY <1>2, <1>19, <2>2 DEF CheckIdle
  <2> QED
    BY <2>1, <2>2
<1>20. CASE ScaleUpAtMaximum \/ ScaleDown \/ ScaleDownAtMinimum \/ \E p \in Process : ScaleUp(p)
  BY <1>2, <1>20 DEF ScaleUpAtMaximum, ScaleDown, ScaleDownAtMinimum, ScaleUp
<1> QED
  BY <1>7, <1>8, <1>9, <1>10, <1>11, <1>12, <1>13, <1>14, <1>15, <1>16, <1>17,
     <1>18, <1>19, <1>20 DEF Next, Work, Loop

-----------------------------------------------------------------------------
(* The order of the dictionary *)

\* Live processes have different names.
LEMMA NamesDiffer ==
    ASSUME IInv, InOrder, NEW p \in Process, NEW q \in Process,
           Live(p), Live(q), nameOf[p] = nameOf[q]
    PROVE  p = q
<1>1. PICK i \in 1..Len(active) : active[i].proc = p
  BY DEF InOrder, Tracked
<1>2. PICK j \in 1..Len(active) : active[j].proc = q
  BY DEF InOrder, Tracked
<1>3. nameOf[p] = i /\ nameOf[q] = j
  BY <1>1, <1>2 DEF IInv, Entries, InOrder
<1> QED
  BY <1>1, <1>2, <1>3

\* The cleaned dictionary has every live process, under the number of its place.
LEMMA CleanedIsLive ==
    ASSUME IInv, InOrder
    PROVE  /\ Cleaned \in Seq(Entry) /\ Len(Cleaned) \in Nat
           /\ \A k \in 1..Len(Cleaned) :
                 /\ Cleaned[k].id = k /\ Live(Cleaned[k].proc)
                 /\ Cleaned[k].proc \in Process /\ nameOf[Cleaned[k].proc] = k
           /\ \A p \in Process : Live(p) => \E k \in 1..Len(Cleaned) : Cleaned[k].proc = p
<1>1. /\ Cleaned \in Seq(Entry) /\ Len(Cleaned) \in 0..Len(active) /\ Len(active) \in Nat
      /\ \A i \in 1..Len(active) : Live(active[i].proc) =>
            \E k \in 1..Len(Cleaned) : Cleaned[k] = active[i]
  BY Facts, CleanedEntries
<1>2. \A k \in 1..Len(Cleaned) : k \in 1..Len(active) /\ Cleaned[k] = active[k]
  BY <1>1, Facts, CleanedInOrder
<1>3. \A k \in 1..Len(Cleaned) :
         /\ Cleaned[k].id = k /\ Live(Cleaned[k].proc)
         /\ Cleaned[k].proc \in Process /\ nameOf[Cleaned[k].proc] = k
  BY <1>2, Facts DEF InOrder, IInv, Entries
<1>4. ASSUME NEW p \in Process, Live(p)
      PROVE  \E k \in 1..Len(Cleaned) : Cleaned[k].proc = p
  <2>1. PICK i \in 1..Len(active) : active[i].proc = p
    BY <1>4 DEF InOrder, Tracked
  <2> QED
    BY <1>1, <1>4, <2>1
<1> QED
  BY <1>1, <1>3, <1>4

LiveNext(p) == status'[p] \in {"starting", "running"}

\* What a step does to the entries when all of them stay in their order.
LEMMA PlacesStep ==
    ASSUME IInv, Next, InOrder, ~gap'
    PROVE  /\ \A i \in 1..Len(active') : active'[i].id = i
           /\ \A i \in 1..Len(active') : i < Len(active') => LiveNext(active'[i].proc)
           /\ \A p \in Process : LiveNext(p) => p \in Tracked'
<1> DEFINE Places ==
              /\ \A i \in 1..Len(active') : active'[i].id = i
              /\ \A i \in 1..Len(active') : i < Len(active') => LiveNext(active'[i].proc)
              /\ \A p \in Process : LiveNext(p) => p \in Tracked'
           c == Len(Cleaned)
<1>1. /\ RestOK /\ Entries /\ Len(active) \in Nat
      /\ \A i \in 1..Len(active) : active[i].proc \in Process
  BY Facts, CleanedEntries DEF IInv
<1>2. /\ Cleaned \in Seq(Entry) /\ c \in Nat
      /\ \A k \in 1..c :
            /\ Cleaned[k].id = k /\ Live(Cleaned[k].proc)
            /\ Cleaned[k].proc \in Process /\ nameOf[Cleaned[k].proc] = k
      /\ \A p \in Process : Live(p) => \E k \in 1..c : Cleaned[k].proc = p
  BY CleanedIsLive
<1>3. ASSUME UNCHANGED active,
             \A i \in 1..Len(active) : i < Len(active) => LiveNext(active[i].proc),
             \A p \in Process : LiveNext(p) => Live(p)
      PROVE  Places
  BY <1>3 DEF InOrder, Tracked
<1>4. ASSUME UNCHANGED <<active, status>> PROVE Places
  BY <1>1, <1>3, <1>4 DEF InOrder, Live, LiveNext
<1>5. ASSUME active' = Cleaned, UNCHANGED status PROVE Places
  <2>1. \A p \in Process : LiveNext(p) <=> Live(p)
    BY <1>5 DEF Live, LiveNext
  <2> QED
    BY <1>2, <1>5, <2>1 DEF Tracked
<1>6. ASSUME NEW p \in Process, Connect(p) PROVE Places
  <2>1. UNCHANGED active /\ \A q \in Process : LiveNext(q) <=> Live(q)
    BY <1>1, <1>6 DEF RestOK, ProcessOK, Connect, Live, LiveNext
  <2> QED
    BY <1>1, <1>3, <2>1 DEF InOrder
<1>7. ASSUME NEW p \in Process, ProcessDies(p) PROVE Places
  <2>1. /\ UNCHANGED active /\ Live(p)
        /\ ~(p \in Tracked /\ p # active[Len(active)].proc)
        /\ \A q \in Process : q # p => (LiveNext(q) <=> Live(q))
        /\ ~LiveNext(p)
    BY <1>1, <1>7 DEF RestOK, ProcessOK, ProcessDies, Dies, Live, LiveNext
  <2>2. p = active[Len(active)].proc
    BY <2>1 DEF InOrder
  <2>3. ASSUME NEW i \in 1..Len(active), i < Len(active) PROVE active[i].proc # p
    <3>1. Len(active) \in 1..Len(active)
      BY <1>1, <2>3
    <3>2. nameOf[active[i].proc] = i /\ nameOf[active[Len(active)].proc] = Len(active)
      BY <3>1 DEF InOrder, IInv, Entries
    <3> QED
      BY <2>2, <2>3, <3>2
  <2> QED
    BY <1>1, <1>3, <2>1, <2>3 DEF InOrder
<1>8. ASSUME NEW p \in Process, ScaleUp(p) PROVE Places
  <2> DEFINE e == [id |-> NextName, proc |-> p]
  <2>1. NextName \in Name /\ NextName = c + 1
    BY <1>8, Facts, NextNameIsName DEF ScaleUp, NextName
  <2>2. /\ \A k \in 1..c : Cleaned[k].id # NextName
        /\ \A k, l \in 1..c : Cleaned[k].id = Cleaned[l].id => k = l
    BY <1>2, <2>1
  <2>3. active' = Append(Cleaned, e)
    <3>1. Stored(Cleaned, NextName, p) = Append(Cleaned, e)
      BY <1>2, <2>1, <2>2, StoredEntries
    <3> QED
      BY <1>8, <3>1 DEF ScaleUp
  <2>4. e \in Entry /\ e.id = c + 1 /\ e.proc = p
    BY <2>1 DEF Entry
  <2>5. /\ Len(active') = c + 1 /\ active'[c + 1] = e
        /\ \A k \in 1..c : active'[k] = Cleaned[k]
    BY <1>2, <2>3, <2>4, AppendProperties
  <2>6. \A i \in 1..Len(active') : i = c + 1 \/ i \in 1..c
    BY <1>2, <2>5
  <2>7. c + 1 \in 1..Len(active') /\ 1..c \subseteq 1..Len(active')
    BY <1>2, <2>5
  <2>8. /\ \A q \in Process : q # p => (LiveNext(q) <=> Live(q))
        /\ ~Live(p)
    BY <1>1, <1>8 DEF RestOK, ProcessOK, ScaleUp, Live, LiveNext
  <2> HIDE DEF e, c
  <2>9. \A i \in 1..Len(active') : active'[i].id = i
    BY <1>2, <2>4, <2>5, <2>6
  <2>10. \A i \in 1..Len(active') : i < Len(active') => LiveNext(active'[i].proc)
    <3> SUFFICES ASSUME NEW i \in 1..Len(active'), i < Len(active')
                 PROVE  LiveNext(active'[i].proc)
      OBVIOUS
    <3>1. i \in 1..c
      BY <1>2, <2>5, <2>6
    <3>2. active'[i].proc \in Process /\ Live(active'[i].proc) /\ active'[i] = Cleaned[i]
      BY <1>2, <2>5, <3>1
    <3> QED
      BY <2>8, <3>2
  <2>11. ASSUME NEW q \in Process, LiveNext(q) PROVE q \in Tracked'
    <3>1. CASE q = p
      BY <2>4, <2>5, <2>7, <3>1 DEF Tracked
    <3>2. CASE q # p
      <4>1. PICK k \in 1..c : Cleaned[k].proc = q
        BY <1>2, <2>8, <2>11, <3>2
      <4> QED
        BY <2>5, <2>7, <4>1 DEF Tracked
    <3> QED
      BY <3>1, <3>2
  <2> QED
    BY <2>9, <2>10, <2>11
<1>9. ASSUME ScaleDown PROVE Places
  <2>1. /\ c > 0 /\ active' = SubSeq(Cleaned, 1, c - 1) /\ c \in 1..c
        /\ Newest \in Process /\ Live(Newest) /\ Dies(Newest)
        /\ nameOf[Newest] = c
    BY <1>2, <1>9, NewestIsLive DEF ScaleDown, Newest
  <2>2. /\ Len(active') = c - 1
        /\ \A k \in 1..(c - 1) : active'[k] = Cleaned[k]
    BY <1>2, <2>1, FrontOf
  <2>3. /\ \A q \in Process : q # Newest => (LiveNext(q) <=> Live(q))
        /\ ~LiveNext(Newest)
    BY <1>1, <2>1 DEF RestOK, ProcessOK, Dies, Live, LiveNext
  <2> HIDE DEF c
  <2>4. \A k \in 1..(c - 1) : k \in 1..c /\ k # c
    BY <1>2
  <2>5. \A k \in 1..(c - 1) : /\ active'[k].id = k /\ active'[k].proc = Cleaned[k].proc
                              /\ active'[k].proc \in Process
                              /\ active'[k].proc # Newest
    BY <1>2, <2>1, <2>2, <2>4
  <2>6. ASSUME NEW q \in Process, LiveNext(q) PROVE q \in Tracked'
    <3>1. q # Newest /\ Live(q)
      BY <2>3, <2>6
    <3>2. PICK k \in 1..c : Cleaned[k].proc = q
      BY <1>2, <3>1
    <3>3. k # c
      BY <3>1, <3>2 DEF Newest, c
    <3>4. k \in 1..(c - 1)
      BY <1>2, <3>3
    <3> QED
      BY <2>2, <3>2, <3>4 DEF Tracked
  <2>7. \A i \in 1..Len(active') : LiveNext(active'[i].proc)
    BY <1>2, <2>2, <2>3, <2>4, <2>5
  <2> QED
    BY <2>2, <2>5, <2>6, <2>7
<1> HIDE DEF Places
<1>10. Places
  BY <1>4, <1>5, <1>6, <1>7, <1>8, <1>9, ProcessSteps
<1> QED
  BY <1>10 DEF Places

\* The gap and the inheritance are remembered.
LEMMA GapStays ==
    ASSUME Next
    PROVE  (gap => gap') /\ (inherited => inherited')
<1> DEFINE Stays == (gap => gap') /\ (inherited => inherited')
<1>1. ASSUME gap' = gap, inherited' = inherited PROVE Stays
  BY <1>1
<1>2. ASSUME Assign PROVE Stays
  <2>1. gap' = gap /\ (inherited => inherited')
    BY <1>2 DEF Assign
  <2> QED
    BY <2>1
<1>3. ASSUME NEW p \in Process, Connect(p) PROVE Stays
  <2>1. gap' = gap /\ (inherited => inherited')
    BY <1>3 DEF Connect
  <2> QED
    BY <2>1
<1>4. ASSUME NEW p \in Process, ProcessDies(p) PROVE Stays
  <2>1. inherited' = inherited /\ (gap => gap')
    BY <1>4 DEF ProcessDies
  <2> QED
    BY <2>1
<1>5. ASSUME NEW n \in Name, Report(n) PROVE Stays
  <2>1. gap' = gap /\ (inherited => inherited')
    BY <1>5 DEF Report
  <2> QED
    BY <2>1
<1> HIDE DEF Stays
<1> USE DEF history
<1>6. ASSUME Submit \/ PickStatic \/ Save \/ Record \/ Complete \/ Register PROVE Stays
  BY <1>1, <1>6 DEF Submit, PickStatic, Save, Record, Complete, Register
<1>7. ASSUME NEW n \in Name, Pick(n) \/ Send(n) \/ Free(n) \/ Evict(n) \/ Requeue(n)
      PROVE  Stays
  BY <1>1, <1>7 DEF Pick, Send, Free, Evict, Requeue
<1>8. ASSUME NEW p \in Process, NEW i \in 1..Len(executing[p]), Finish(p, i) PROVE Stays
  BY <1>1, <1>8 DEF Finish
<1>9. ASSUME Loop PROVE Stays
  BY <1>1, <1>9 DEF Loop, SampleQueue, SampleWorkers, ScaleUp, ScaleUpAtMaximum, CheckIdle,
                    ScaleDown, ScaleDownAtMinimum
<1>10. Stays
  BY <1>2, <1>3, <1>4, <1>5, <1>6, <1>7, <1>8, <1>9 DEF Next, Work, Assigner
<1> QED
  BY <1>10 DEF Stays

\* A running process has the socket of its name.
LEMMA SocketStep ==
    ASSUME IInv, Next, InOrder
    PROVE  \A p \in Process : status'[p] = "running" => socket'[nameOf'[p]] = p
<1>1. /\ ProcessOK
      /\ \A q \in Process : status[q] = "running" =>
            socket[nameOf[q]] = q /\ nameOf[q] \in Name /\ Live(q)
  BY Facts DEF RestOK, InOrder, Live
<1> SUFFICES ASSUME NEW q \in Process, status'[q] = "running"
             PROVE  socket'[nameOf'[q]] = q
  OBVIOUS
<1>2. CASE UNCHANGED <<status, nameOf, socket>>
  BY <1>1, <1>2
<1>3. ASSUME NEW p \in Process, Connect(p) PROVE socket'[nameOf'[q]] = q
  <2>1. /\ UNCHANGED nameOf /\ Live(p) /\ nameOf[p] \in Name
        /\ status' = [status EXCEPT ![p] = "running"]
        /\ socket' = [socket EXCEPT ![nameOf[p]] = p]
    BY <1>3, Facts DEF Connect, Live
  <2>2. CASE p = q
    BY <1>1, <2>1, <2>2 DEF ProcessOK
  <2>3. CASE p # q
    <3>1. status[q] = "running"
      BY <1>1, <2>1, <2>3 DEF ProcessOK
    <3>2. nameOf[q] \in Name /\ nameOf[p] # nameOf[q]
      BY <1>1, <2>1, <2>3, <3>1, NamesDiffer
    <3> QED
      BY <1>1, <2>1, <3>1, <3>2 DEF ProcessOK
  <2> QED
    BY <2>2, <2>3
<1>4. ASSUME NEW p \in Process, Dies(p), UNCHANGED <<nameOf, socket>>
      PROVE  socket'[nameOf'[q]] = q
  BY <1>1, <1>4 DEF ProcessOK, Dies
<1>5. ASSUME NEW p \in Process, ProcessDies(p) PROVE socket'[nameOf'[q]] = q
  BY <1>4, <1>5 DEF ProcessDies
<1>6. CASE ScaleDown
  BY <1>4, <1>6, NewestIsLive DEF ScaleDown
<1>7. ASSUME NEW p \in Process, ScaleUp(p) PROVE socket'[nameOf'[q]] = q
  <2>1. p # q /\ status[q] = "running" /\ nameOf'[q] = nameOf[q] /\ socket' = socket
    BY <1>1, <1>7 DEF ProcessOK, ScaleUp
  <2> QED
    BY <1>1, <2>1
<1> QED
  BY <1>2, <1>3, <1>5, <1>6, <1>7, ProcessSteps

LEMMA InOrderStep ==
    ASSUME IInv, Next, ~gap'
    PROVE  InOrder'
<1>1. InOrder
  BY GapStays DEF IInv
<1>2. /\ \A i \in 1..Len(active') : active'[i].id = i
      /\ \A i \in 1..Len(active') : i < Len(active') => LiveNext(active'[i].proc)
      /\ \A p \in Process : LiveNext(p) => p \in Tracked'
  BY <1>1, PlacesStep
<1>3. \A p \in Process : status'[p] = "running" => socket'[nameOf'[p]] = p
  BY <1>1, SocketStep
<1> QED
  BY <1>2, <1>3 DEF InOrder, Live, LiveNext

-----------------------------------------------------------------------------
(* The load counts the jobs of a process *)

\* What counts for a running process: its own jobs, and what concerns its name.
CountedAt(p, n) ==
    /\ failed[n] = {}
    /\ n \in Unregistered => toSend[n] = <<>> /\ toFree[n] = <<>> /\ executing[p] = <<>>
    /\ n \notin Unregistered =>
          /\ load[n] # Absent
          /\ Len(toSend[n]) + Len(executing[p]) + Len(toFree[n]) <= load[n]

\* Names are registered in the order of their REGISTER.
LEMMA RegisterQueue ==
    ASSUME WorkOK
    PROVE  /\ Unregistered \subseteq Name
           /\ \A n \in Name : toRegister' = Append(toRegister, n) =>
                 Unregistered' = Unregistered \cup {n}
           /\ toRegister # <<>> =>
                 /\ Head(toRegister) \in Unregistered
                 /\ toRegister' = Tail(toRegister) =>
                       /\ Unregistered' \subseteq Unregistered
                       /\ Unregistered \subseteq Unregistered' \cup {Head(toRegister)}
<1> DEFINE s == toRegister
<1>1. s \in Seq(Name) /\ Len(s) \in Nat /\ \A i \in 1..Len(s) : s[i] \in Name
  BY LenProperties, ElementOfSeq DEF WorkOK
<1>2. Unregistered \subseteq Name
  BY <1>1 DEF Unregistered
<1>3. ASSUME NEW n \in Name, toRegister' = Append(toRegister, n)
      PROVE  Unregistered' = Unregistered \cup {n}
  <2>1. /\ Len(s') = Len(s) + 1 /\ s'[Len(s) + 1] = n
        /\ \A i \in 1..Len(s) : s'[i] = s[i]
    BY <1>1, <1>3, AppendProperties
  <2>2. \A i \in 1..Len(s') : i \in 1..Len(s) \/ i = Len(s) + 1
    BY <1>1, <2>1
  <2>3. Len(s) + 1 \in 1..Len(s') /\ \A i \in 1..Len(s) : i \in 1..Len(s')
    BY <1>1, <2>1
  <2>4. \A x \in Unregistered' : x \in Unregistered \cup {n}
    BY <2>1, <2>2 DEF Unregistered
  <2>5. \A x \in Unregistered \cup {n} : x \in Unregistered'
    BY <2>1, <2>3 DEF Unregistered
  <2> QED
    BY <2>4, <2>5
<1>4. ASSUME toRegister # <<>>
      PROVE  /\ Head(toRegister) \in Unregistered
             /\ toRegister' = Tail(toRegister) =>
                   /\ Unregistered' \subseteq Unregistered
                   /\ Unregistered \subseteq Unregistered' \cup {Head(toRegister)}
  <2>1. /\ Len(s) > 0 /\ Head(s) = s[1] /\ Len(Tail(s)) = Len(s) - 1
        /\ \A i \in 1..Len(Tail(s)) : Tail(s)[i] = s[i + 1]
    BY <1>1, <1>4, EmptySeq, HeadTailProperties, LenProperties
  <2>2. 1 \in 1..Len(s)
    BY <1>1, <2>1
  <2>3. Head(s) \in Unregistered
    BY <2>1, <2>2 DEF Unregistered
  <2>4. ASSUME toRegister' = Tail(toRegister)
        PROVE  /\ Unregistered' \subseteq Unregistered
               /\ Unregistered \subseteq Unregistered' \cup {Head(toRegister)}
    <3>1. Len(s') = Len(s) - 1 /\ \A i \in 1..(Len(s) - 1) : s'[i] = s[i + 1]
      BY <2>1, <2>4
    <3>2. \A i \in 1..(Len(s) - 1) : i + 1 \in 1..Len(s)
      BY <1>1
    <3>3. \A i \in 1..Len(s) : i = 1 \/ (i - 1 \in 1..(Len(s) - 1) /\ (i - 1) + 1 = i)
      BY <1>1
    <3>4. \A x \in Unregistered' : x \in Unregistered
      BY <3>1, <3>2 DEF Unregistered
    <3>5. ASSUME NEW x \in Unregistered PROVE x \in Unregistered' \cup {Head(toRegister)}
      <4>1. PICK i \in 1..Len(s) : x = s[i]
        BY DEF Unregistered
      <4>2. CASE i = 1
        BY <2>1, <4>1, <4>2
      <4>3. CASE i # 1
        <5>1. i - 1 \in 1..Len(s') /\ s'[i - 1] = x
          BY <3>1, <3>3, <4>1, <4>3
        <5> QED
          BY <5>1 DEF Unregistered
      <4> QED
        BY <4>2, <4>3
    <3> QED
      BY <3>4, <3>5
  <2> QED
    BY <2>3, <2>4
<1> QED
  BY <1>2, <1>3, <1>4

LEMMA CountedStep ==
    ASSUME IInv, Next, ~gap', ~inherited'
    PROVE  Counted'
<1> USE DEF process, workload, bus, history
<1>1. ProcessOK /\ WorkOK /\ InOrder /\ Counted /\ Unregistered \subseteq Name
  BY Facts, GapStays, RegisterQueue DEF IInv, RestOK
<1>2. \A p \in Process : status[p] = "running" =>
         CountedAt(p, nameOf[p]) /\ nameOf[p] \in Name /\ Live(p) /\ socket[nameOf[p]] = p
  BY <1>1, Facts DEF Counted, CountedAt, InOrder, Live
<1>3. /\ \A n \in Name : /\ Len(toSend[n]) \in Nat /\ Len(toFree[n]) \in Nat
                         /\ load[n] \in Int
                         /\ toSend[n] \in Seq(Job) /\ toFree[n] \in Seq(Job)
      /\ \A p \in Process : Len(executing[p]) \in Nat /\ executing[p] \in Seq(Job)
  BY <1>1, LenProperties DEF WorkOK, Absent
<1> SUFFICES ASSUME NEW q \in Process, status'[q] = "running"
             PROVE  CountedAt(q, nameOf[q])' 
  BY DEF Counted, CountedAt
<1> DEFINE m == nameOf[q]
           Same == /\ status[q] = "running" /\ nameOf'[q] = m
                   /\ failed'[m] = failed[m] /\ toSend'[m] = toSend[m]
                   /\ toFree'[m] = toFree[m] /\ executing'[q] = executing[q]
                   /\ load'[m] = load[m] /\ (m \in Unregistered' <=> m \in Unregistered)
           Goal == CountedAt(q, nameOf[q])'
<1>4. ASSUME Same PROVE Goal
  BY <1>2, <1>4 DEF CountedAt
<1>5. ASSUME UNCHANGED <<status, nameOf, failed, toSend, toFree, executing, load, toRegister>>
      PROVE  Goal
  <2>1. Unregistered' = Unregistered
    BY <1>5 DEF Unregistered
  <2> QED
    BY <1>4, <1>5, <2>1
<1> HIDE DEF Goal, Same
<1>6. ASSUME Submit \/ PickStatic \/ Save \/ Record \/ Complete PROVE Goal
  <2>1. UNCHANGED <<status, nameOf, failed, toSend, toFree, executing, load, toRegister>>
    BY <1>6 DEF Submit, PickStatic, Save, Record, Complete
  <2> QED
    BY <1>5, <2>1
<1>7. ASSUME NEW n \in Name, Pick(n) PROVE Goal
  <2>1. UNCHANGED <<status, nameOf, failed, toSend, toFree, executing, load, toRegister>>
    BY <1>7 DEF Pick
  <2> QED
    BY <1>5, <2>1
<1>8. ASSUME Loop PROVE Goal
  <2>1. CASE SampleQueue \/ SampleWorkers \/ ScaleUpAtMaximum \/ CheckIdle \/ ScaleDownAtMinimum
    <3>1. UNCHANGED <<status, nameOf, failed, toSend, toFree, executing, load, toRegister>>
      BY <2>1 DEF SampleQueue, SampleWorkers, ScaleUpAtMaximum, CheckIdle,
                  ScaleDownAtMinimum
    <3> QED
      BY <1>5, <3>1
  <2>2. ASSUME NEW p \in Process, ScaleUp(p) PROVE Goal
    <3>1. /\ status[q] = "running" /\ nameOf'[q] = m
          /\ UNCHANGED <<failed, toSend, toFree, executing, load, toRegister>>
      BY <1>1, <2>2 DEF ProcessOK, ScaleUp
    <3>2. Unregistered' = Unregistered
      BY <3>1 DEF Unregistered
    <3> QED
      <4>1. Same
        BY <3>1, <3>2 DEF Same
      <4> QED
        BY <1>4, <4>1
  <2>3. CASE ScaleDown
    <3>1. /\ status[q] = "running" /\ nameOf'[q] = m /\ executing'[q] = executing[q]
          /\ UNCHANGED <<failed, toSend, toFree, load, toRegister>>
      BY <1>1, <2>3, NewestIsLive DEF ProcessOK, WorkOK, ScaleDown, Dies
    <3>2. Unregistered' = Unregistered
      BY <3>1 DEF Unregistered
    <3> QED
      <4>1. Same
        BY <3>1, <3>2 DEF Same
      <4> QED
        BY <1>4, <4>1
  <2> QED
    BY <1>8, <2>1, <2>2, <2>3 DEF Loop
<1>9. ASSUME NEW p \in Process, ProcessDies(p) PROVE Goal
  <2>1. /\ status[q] = "running" /\ nameOf'[q] = m /\ executing'[q] = executing[q]
        /\ UNCHANGED <<failed, toSend, toFree, load, toRegister>>
    BY <1>1, <1>9 DEF ProcessOK, WorkOK, ProcessDies, Dies
  <2>2. Unregistered' = Unregistered
    BY <2>1 DEF Unregistered
  <2> QED
    <3>1. Same
      BY <2>1, <2>2 DEF Same
    <3> QED
      BY <1>4, <3>1
<1>10. ASSUME Assign PROVE Goal
  <2> DEFINE n == hand.to
  <2>1. /\ UNCHANGED <<status, nameOf, failed, toFree, executing, toRegister>>
        /\ n \in Name /\ hand.job \in Job /\ n \notin Unregistered
        /\ toSend' = [toSend EXCEPT ![n] = Append(@, hand.job)]
        /\ load' = IF load[n] = Absent THEN load ELSE [load EXCEPT ![n] = @ + 1]
    BY <1>1, <1>10 DEF WorkOK, Assign, Pending
  <2>2. Unregistered' = Unregistered
    BY <2>1 DEF Unregistered
  <2>3. status[q] = "running" /\ CountedAt(q, m) /\ m \in Name
    BY <1>2, <2>1
  <2>4. CASE n # m
    <3>1. toSend'[m] = toSend[m] /\ load'[m] = load[m]
      BY <1>1, <2>1, <2>3, <2>4 DEF WorkOK
    <3> QED
      <4>1. Same
        BY <2>1, <2>2, <2>3, <3>1 DEF Same
      <4> QED
        BY <1>4, <4>1
  <2>5. CASE n = m
    <3>1. /\ m \notin Unregistered' /\ load[m] # Absent
          /\ Len(toSend[m]) + Len(executing[q]) + Len(toFree[m]) <= load[m]
      BY <2>1, <2>2, <2>3, <2>5 DEF CountedAt
    <3>2. toSend'[m] = Append(toSend[m], hand.job) /\ load'[m] = load[m] + 1
      BY <1>1, <2>1, <2>3, <2>5, <3>1 DEF WorkOK
    <3>3. Len(toSend'[m]) = Len(toSend[m]) + 1
      BY <1>3, <2>1, <2>3, <3>2, Queues
    <3>4. load[m] \in Nat
      BY <1>1, <2>3, <3>1 DEF WorkOK
    <3>5. load'[m] # Absent
          /\ Len(toSend'[m]) + Len(executing[q]) + Len(toFree[m]) <= load'[m]
      <4> DEFINE a == Len(toSend[m])
                 b == Len(executing[q])
                 c == Len(toFree[m])
                 l == load[m]
      <4>1. /\ a \in Nat /\ b \in Nat /\ c \in Nat /\ l \in Nat /\ a + b + c <= l
            /\ Len(toSend'[m]) = a + 1 /\ load'[m] = l + 1
        BY <1>3, <2>3, <3>1, <3>2, <3>3, <3>4
      <4> HIDE DEF a, b, c, l
      <4>2. (a + 1) + b + c <= l + 1 /\ l + 1 # Absent
        BY <4>1 DEF Absent
      <4> QED
        BY <4>1, <4>2 DEF b, c
    <3>6. failed[m] = {}
      BY <2>3 DEF CountedAt
    <3> QED
      BY <2>1, <3>1, <3>5, <3>6 DEF Goal, CountedAt
  <2> QED
    BY <2>4, <2>5
<1>11. ASSUME NEW n \in Name, Send(n) PROVE Goal
  <2> DEFINE p == socket[n]
  <2>1. /\ UNCHANGED <<status, nameOf, failed, toFree, load, toRegister>>
        /\ toSend[n] # <<>>
        /\ toSend' = [toSend EXCEPT ![n] = Tail(@)]
        /\ executing' = IF p # 0 /\ Live(p)
                        THEN [executing EXCEPT ![p] = Append(@, Head(toSend[n]))]
                        ELSE executing
    BY <1>11 DEF Send
  <2>2. Unregistered' = Unregistered
    BY <2>1 DEF Unregistered
  <2>3. /\ status[q] = "running" /\ CountedAt(q, m) /\ m \in Name /\ Live(q)
        /\ socket[m] = q /\ q # 0
    BY <1>2, <2>1 DEF Process
  <2>4. CASE n # m
    <3>1. toSend'[m] = toSend[m]
      BY <1>1, <2>1, <2>3, <2>4 DEF WorkOK
    <3>2. p # q
      <4>1. p # 0 => nameOf[p] = n
        BY DEF IInv, Sockets
      <4> QED
        BY <2>3, <2>4, <4>1
    <3>3. executing'[q] = executing[q]
      BY <1>1, <2>1, <3>2 DEF WorkOK
    <3> QED
      <4>1. Same
        BY <2>1, <2>2, <2>3, <3>1, <3>3 DEF Same
      <4> QED
        BY <1>4, <4>1
  <2>5. CASE n = m
    <3>1. /\ m \notin Unregistered' /\ load[m] # Absent /\ failed[m] = {}
          /\ Len(toSend[m]) + Len(executing[q]) + Len(toFree[m]) <= load[m]
      BY <2>1, <2>2, <2>3, <2>5 DEF CountedAt
    <3>2. /\ toSend'[m] = Tail(toSend[m])
          /\ executing'[q] = Append(executing[q], Head(toSend[m]))
      BY <1>1, <2>1, <2>3, <2>5 DEF WorkOK
    <3>3. Head(toSend[m]) \in Job /\ Len(toSend'[m]) = Len(toSend[m]) - 1
      BY <1>3, <2>1, <2>3, <2>5, <3>2, Queues
    <3>4. Len(executing'[q]) = Len(executing[q]) + 1
      BY <1>3, <3>2, <3>3, Queues
    <3>5. Len(toSend'[m]) + Len(executing'[q]) + Len(toFree[m]) <= load[m]
      <4> DEFINE a == Len(toSend[m])
                 b == Len(executing[q])
                 c == Len(toFree[m])
                 l == load[m]
      <4>1. /\ a \in Nat /\ b \in Nat /\ c \in Nat /\ l \in Int /\ a + b + c <= l
            /\ Len(toSend'[m]) = a - 1 /\ Len(executing'[q]) = b + 1
        BY <1>3, <2>3, <3>1, <3>3, <3>4
      <4> HIDE DEF a, b, c, l
      <4>2. (a - 1) + (b + 1) + c <= l
        BY <4>1
      <4> QED
        BY <4>1, <4>2 DEF c, l
    <3> QED
      BY <2>1, <3>1, <3>5 DEF Goal, CountedAt
  <2> QED
    BY <2>4, <2>5
<1>12. ASSUME NEW p \in Process, NEW i \in 1..Len(executing[p]), Finish(p, i) PROVE Goal
  <2>1. /\ UNCHANGED <<status, nameOf, failed, toSend, load, toRegister>>
        /\ status[p] = "running" /\ nameOf[p] \in Name
        /\ executing' = [executing EXCEPT ![p] = Without(@, i)]
        /\ toFree' = [toFree EXCEPT ![nameOf[p]] = Append(@, executing[p][i])]
    BY <1>2, <1>12 DEF Finish
  <2>2. Unregistered' = Unregistered
    BY <2>1 DEF Unregistered
  <2>3. status[q] = "running" /\ CountedAt(q, m) /\ m \in Name /\ Live(q)
    BY <1>2, <2>1
  <2>4. CASE p # q
    <3>1. nameOf[p] # m
      BY <1>1, <2>1, <2>3, <2>4, NamesDiffer DEF Live
    <3>2. toFree'[m] = toFree[m] /\ executing'[q] = executing[q]
      BY <1>1, <2>1, <2>3, <2>4, <3>1 DEF WorkOK
    <3> QED
      <4>1. Same
        BY <2>1, <2>2, <2>3, <3>2 DEF Same
      <4> QED
        BY <1>4, <4>1
  <2>5. CASE p = q
    <3>1. executing[q] # <<>>
      <4>1. Len(executing[q]) \in Nat /\ i \in 1..Len(executing[q])
        BY <1>3, <2>5
      <4>2. Len(executing[q]) # 0
        BY <4>1
      <4> QED
        BY <1>3, <4>2, Queues
    <3>2. /\ m \notin Unregistered' /\ load[m] # Absent /\ failed[m] = {}
          /\ Len(toSend[m]) + Len(executing[q]) + Len(toFree[m]) <= load[m]
      BY <2>2, <2>3, <3>1 DEF CountedAt
    <3>3. /\ toFree'[m] = Append(toFree[m], executing[q][i])
          /\ executing'[q] = Without(executing[q], i)
      BY <1>1, <2>1, <2>3, <2>5 DEF WorkOK
    <3>4. executing[q][i] \in Job /\ Len(executing'[q]) = Len(executing[q]) - 1
      BY <1>3, <2>5, <3>3, ElementOfSeq, OneLess
    <3>5. Len(toFree'[m]) = Len(toFree[m]) + 1
      BY <1>3, <2>3, <3>3, <3>4, Queues
    <3>6. Len(toSend[m]) + Len(executing'[q]) + Len(toFree'[m]) <= load[m]
      <4> DEFINE a == Len(toSend[m])
                 b == Len(executing[q])
                 c == Len(toFree[m])
                 l == load[m]
      <4>1. /\ a \in Nat /\ b \in Nat /\ c \in Nat /\ l \in Int /\ a + b + c <= l
            /\ Len(executing'[q]) = b - 1 /\ Len(toFree'[m]) = c + 1
        BY <1>3, <2>3, <3>2, <3>4, <3>5
      <4> HIDE DEF a, b, c, l
      <4>2. a + (b - 1) + (c + 1) <= l
        BY <4>1
      <4> QED
        BY <4>1, <4>2 DEF a, l
    <3> QED
      BY <2>1, <3>2, <3>6 DEF Goal, CountedAt
  <2> QED
    BY <2>4, <2>5
<1>13. ASSUME NEW n \in Name, Free(n) PROVE Goal
  <2>1. /\ UNCHANGED <<status, nameOf, failed, toSend, executing, toRegister>>
        /\ toFree[n] # <<>>
        /\ toFree' = [toFree EXCEPT ![n] = Tail(@)]
        /\ load' = [load EXCEPT ![n] = Decremented(@)]
    BY <1>13 DEF Free
  <2>2. Unregistered' = Unregistered
    BY <2>1 DEF Unregistered
  <2>3. status[q] = "running" /\ CountedAt(q, m) /\ m \in Name
    BY <1>2, <2>1
  <2>4. CASE n # m
    <3>1. toFree'[m] = toFree[m] /\ load'[m] = load[m]
      BY <1>1, <2>1, <2>3, <2>4 DEF WorkOK
    <3> QED
      <4>1. Same
        BY <2>1, <2>2, <2>3, <3>1 DEF Same
      <4> QED
        BY <1>4, <4>1
  <2>5. CASE n = m
    <3>1. /\ m \notin Unregistered' /\ load[m] # Absent /\ failed[m] = {}
          /\ Len(toSend[m]) + Len(executing[q]) + Len(toFree[m]) <= load[m]
      BY <2>1, <2>2, <2>3, <2>5 DEF CountedAt
    <3>2. toFree'[m] = Tail(toFree[m]) /\ load'[m] = Decremented(load[m])
      BY <1>1, <2>1, <2>3, <2>5 DEF WorkOK
    <3>3. Len(toFree'[m]) = Len(toFree[m]) - 1 /\ Len(toFree[m]) # 0
      BY <1>3, <2>1, <2>3, <2>5, <3>2, Queues
    <3>4. load'[m] # Absent
          /\ Len(toSend[m]) + Len(executing[q]) + Len(toFree'[m]) <= load'[m]
      <4> DEFINE a == Len(toSend[m])
                 b == Len(executing[q])
                 c == Len(toFree[m])
                 l == load[m]
      <4>1. /\ a \in Nat /\ b \in Nat /\ c \in Nat /\ l \in Int /\ a + b + c <= l
            /\ c # 0 /\ Len(toFree'[m]) = c - 1 /\ load'[m] = Decremented(l)
        BY <1>3, <2>3, <3>1, <3>2, <3>3
      <4> HIDE DEF a, b, c, l
      <4>2. Decremented(l) = l - 1 /\ a + b + (c - 1) <= l - 1 /\ l - 1 # Absent
        BY <4>1 DEF Absent, Decremented
      <4> QED
        BY <4>1, <4>2 DEF a, b
    <3> QED
      BY <2>1, <3>1, <3>4 DEF Goal, CountedAt
  <2> QED
    BY <2>4, <2>5
<1>14. ASSUME NEW p \in Process, Connect(p) PROVE Goal
  <2> DEFINE n == nameOf[p]
  <2>1. /\ UNCHANGED <<nameOf, failed, toSend, toFree, load, executing>>
        /\ status[p] = "starting" /\ Live(p) /\ n \in Name
        /\ status' = [status EXCEPT ![p] = "running"]
        /\ toRegister' = Append(toRegister, n)
        /\ failed[n] = {} /\ toSend[n] = <<>> /\ toFree[n] = <<>>
    BY <1>14, Facts DEF Connect, Live
  <2>2. Unregistered' = Unregistered \cup {n}
    BY <1>1, <2>1, RegisterQueue
  <2>3. CASE p = q
    <3>1. executing[q] = <<>>
      BY <2>1, <2>3, Facts
    <3>2. m \in Unregistered'
      BY <2>2, <2>3
    <3> QED
      BY <2>1, <2>3, <3>1, <3>2 DEF Goal, CountedAt
  <2>4. CASE p # q
    <3>1. status[q] = "running"
      BY <1>1, <2>1, <2>4 DEF ProcessOK
    <3>2. n # m
      BY <1>1, <1>2, <2>1, <2>4, <3>1, NamesDiffer
    <3> QED
      <4>1. Same
        BY <2>1, <2>2, <3>1, <3>2 DEF Same
      <4> QED
        BY <1>4, <4>1
  <2> QED
    BY <2>3, <2>4
<1>15. ASSUME Register PROVE Goal
  <2> DEFINE n == Head(toRegister)
  <2>1. /\ UNCHANGED <<status, nameOf, failed, toSend, toFree, executing>>
        /\ toRegister # <<>> /\ toRegister' = Tail(toRegister)
        /\ load' = [load EXCEPT ![n] = 0]
    BY <1>15 DEF Register
  <2>2. /\ n \in Unregistered /\ n \in Name
        /\ Unregistered' \subseteq Unregistered /\ Unregistered \subseteq Unregistered' \cup {n}
    BY <1>1, <2>1, RegisterQueue
  <2>3. status[q] = "running" /\ CountedAt(q, m) /\ m \in Name
    BY <1>2, <2>1
  <2> HIDE DEF n
  <2>4. CASE n # m
    <3>1. load'[m] = load[m] /\ (m \in Unregistered' <=> m \in Unregistered)
      BY <1>1, <2>1, <2>2, <2>3, <2>4 DEF WorkOK
    <3> QED
      <4>1. Same
        BY <2>1, <2>3, <3>1 DEF Same
      <4> QED
        BY <1>4, <4>1
  <2>5. CASE n = m
    <3>1. failed[m] = {} /\ toSend[m] = <<>> /\ toFree[m] = <<>> /\ executing[q] = <<>>
      BY <2>2, <2>3, <2>5 DEF CountedAt
    <3>2. load'[m] = 0
      BY <1>1, <2>1, <2>3, <2>5 DEF WorkOK
    <3>3. Len(toSend[m]) = 0 /\ Len(toFree[m]) = 0 /\ Len(executing[q]) = 0
      BY <1>3, <2>3, <3>1, Queues
    <3>4. load'[m] # Absent
          /\ Len(toSend[m]) + Len(executing[q]) + Len(toFree[m]) <= load'[m]
      BY <3>2, <3>3 DEF Absent
    <3> QED
      BY <2>1, <3>1, <3>4 DEF Goal, CountedAt
  <2> QED
    BY <2>4, <2>5
<1>16. ASSUME NEW n \in Name, Report(n) PROVE Goal
  <2>1. /\ UNCHANGED <<status, nameOf, toSend, toFree, executing, load, toRegister>>
        /\ n \notin Unregistered
        /\ \A p \in Process : nameOf[p] = n => status[p] # "running"
        /\ failed' = [failed EXCEPT ![n] = {"evict", "requeue"}]
    BY <1>16 DEF Report
  <2>2. Unregistered' = Unregistered
    BY <2>1 DEF Unregistered
  <2>3. status[q] = "running" /\ m \in Name /\ n # m
    BY <1>2, <2>1
  <2>4. failed'[m] = failed[m]
    BY <1>1, <2>1, <2>3 DEF WorkOK
  <2> QED
    <3>1. Same
      BY <2>1, <2>2, <2>3, <2>4 DEF Same
    <3> QED
      BY <1>4, <3>1
<1>17. ASSUME NEW n \in Name, Evict(n) \/ Requeue(n) PROVE Goal
  <2>1. /\ UNCHANGED <<status, nameOf, toSend, toFree, executing, toRegister>>
        /\ failed[n] # {}
        /\ \A x \in Name : x # n => failed'[x] = failed[x] /\ load'[x] = load[x]
    BY <1>1, <1>17 DEF Evict, Requeue, WorkOK
  <2>2. Unregistered' = Unregistered
    BY <2>1 DEF Unregistered
  <2>3. status[q] = "running" /\ m \in Name /\ n # m
    BY <1>2, <2>1 DEF CountedAt
  <2> QED
    <3>1. Same
      BY <2>1, <2>2, <2>3 DEF Same
    <3> QED
      BY <1>4, <3>1
<1> QED
  BY <1>6, <1>7, <1>8, <1>9, <1>10, <1>11, <1>12, <1>13, <1>14, <1>15, <1>16, <1>17
     DEF Next, Work, Assigner, Goal

-----------------------------------------------------------------------------
(* Theorems *)

LEMMA StepInv == IInv /\ [Next]_vars => IInv'
<1> SUFFICES ASSUME IInv, [Next]_vars PROVE IInv'
  OBVIOUS
<1>1. CASE Next
  <2>1. TypeOK' /\ Entries' /\ Sockets' /\ SamplesHold'
    BY <1>1, TypeStep, EntriesStep, SocketsStep, SamplesHoldStep
  <2>2. ~gap' => InOrder'
    BY <1>1, InOrderStep
  <2>3. ~gap' /\ ~inherited' => Counted'
    BY <1>1, CountedStep
  <2> QED
    BY <2>1, <2>2, <2>3 DEF IInv
<1>2. CASE UNCHANGED vars
  <2> USE <1>2 DEF vars, process, workload, bus, history
  <2>1. TypeOK'
    <3>1. TypeOK
      BY DEF IInv
    <3> QED
      BY <3>1 DEF TypeOK
  <2>2. Entries' /\ Sockets'
    BY DEF IInv, Entries, Sockets
  <2>3. SamplesHold'
    BY DEF IInv, SamplesHold, AllIdle
  <2>4. ~gap' => InOrder'
    BY DEF IInv, InOrder, Live, Tracked
  <2>5. ~gap' /\ ~inherited' => Counted'
    <3>1. ~gap' /\ ~inherited' => Counted
      BY DEF IInv
    <3>2. Unregistered' = Unregistered
      BY DEF Unregistered
    <3> QED
      BY <3>1, <3>2 DEF Counted
  <2> QED
    BY <2>1, <2>2, <2>3, <2>4, <2>5 DEF IInv
<1> QED
  BY <1>1, <1>2

LEMMA Invariance == Spec => []IInv
BY InitInv, StepInv, PTL DEF Spec

\* Every variable keeps its type, and the dictionary never has a name twice.
THEOREM TypeCorrect == Spec => []TypeOK
<1>1. IInv => TypeOK
  BY DEF IInv
<1> QED
  BY <1>1, Invariance, PTL

\* A process the autoscaler forgets comes from a death that was not the newest's:
\* the names it makes are otherwise those of the places in the dictionary.
THEOREM NoOrphans == Spec => []OrphansNeedGap
<1>1. IInv => OrphansNeedGap
  BY DEF IInv, InOrder, OrphansNeedGap
<1> QED
  BY <1>1, Invariance, PTL

\* Without such a death live processes have different names, of which there are
\* max_workers.
THEOREM MaximumHolds == Spec => []LiveWithinMaximum
<1>1. ASSUME IInv, ~gap PROVE Cardinality({p \in Process : Live(p)}) <= MaxWorkers
  <2> DEFINE L == {p \in Process : Live(p)}
             f == [p \in L |-> nameOf[p]]
  <2>1. f \in Injection(L, Name)
    <3>1. f \in [L -> Name]
      BY <1>1, Facts
    <3>2. \A p, q \in L : f[p] = f[q] => p = q
      BY <1>1, NamesDiffer DEF IInv
    <3> QED
      BY <3>1, <3>2 DEF Injection, IsInjective
  <2>2. IsFiniteSet(Name) /\ Cardinality(Name) = MaxWorkers
    <3>1. IsFiniteSet(1..MaxWorkers)
          /\ Cardinality(1..MaxWorkers) = IF 1 > MaxWorkers THEN 0 ELSE MaxWorkers - 1 + 1
      BY ScaleAssumption, FS_Interval
    <3> QED
      BY <3>1, ScaleAssumption DEF Name
  <2> HIDE DEF L, f
  <2>3. Cardinality(L) <= MaxWorkers
    BY <2>1, <2>2, FS_Injection
  <2> QED
    BY <2>3 DEF L
<1>2. IInv => LiveWithinMaximum
  BY <1>1 DEF LiveWithinMaximum
<1> QED
  BY <1>2, Invariance, PTL

\* Without such a death scale_down ends a process that has a task only when a job was
\* on its way when the loop read the length of the queue or came after that, or when
\* work of an earlier process of the name has got mixed up with its own.
THEOREM StopsTheUnseen == Spec => StopsBusyOnlyUnseen
<1>1. ASSUME IInv, ScaleDown, ~gap, ~loop.unseen, ~inherited PROVE executing[Newest] = <<>>
  <2>1. Newest \in Process /\ Live(Newest)
    BY <1>1, NewestIsLive
  <2>2. /\ nameOf[Newest] \in Name /\ executing[Newest] \in Seq(Job)
        /\ toSend[nameOf[Newest]] \in Seq(Job) /\ toFree[nameOf[Newest]] \in Seq(Job)
        /\ load[nameOf[Newest]] \in Int
    BY <1>1, <2>1, Facts DEF RestOK, WorkOK, Absent
  <2>3. load[nameOf[Newest]] <= 0
    BY <1>1, <2>2 DEF IInv, SamplesHold, AllIdle, ScaleDown
  <2>4. CASE status[Newest] = "running" /\ nameOf[Newest] \notin Unregistered
    <3> DEFINE a == Len(toSend[nameOf[Newest]])
               b == Len(executing[Newest])
               c == Len(toFree[nameOf[Newest]])
    <3>1. a \in Nat /\ b \in Nat /\ c \in Nat
      BY <2>2, Queues
    <3>2. a + b + c <= load[nameOf[Newest]]
      BY <1>1, <2>1, <2>4 DEF IInv, Counted
    <3> HIDE DEF a, b, c
    <3>3. b = 0
      BY <2>2, <2>3, <3>1, <3>2
    <3> QED
      BY <2>2, <3>3, Queues DEF b
  <2>5. CASE status[Newest] = "running" /\ nameOf[Newest] \in Unregistered
    BY <1>1, <2>1, <2>5 DEF IInv, Counted
  <2>6. CASE status[Newest] # "running"
    BY <1>1, <2>1, <2>6, Facts
  <2> QED
    BY <2>4, <2>5, <2>6
<1>2. IInv => [ScaleDown => \/ gap \/ loop.unseen \/ inherited
                            \/ executing[Newest] = <<>>]_vars
  BY <1>1
<1> QED
  BY <1>2, Invariance, PTL DEF StopsBusyOnlyUnseen
=============================================================================
