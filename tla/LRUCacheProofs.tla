--------------------------- MODULE LRUCacheProofs ---------------------------
(***************************************************************************)
(* Safety of LRUCache for every set of connections, keys and values and    *)
(* for every capacity.                                                     *)
(***************************************************************************)
EXTENDS LRUCache, SequenceTheorems, FiniteSetTheorems, TLAPS

-----------------------------------------------------------------------------
(* Sequences that list a set: each element once and nothing else. *)

Listing(s, K) ==
    /\ s \in Seq(K)
    /\ \A k \in K : \E i \in 1 .. Len(s) : s[i] = k
    /\ \A i, j \in 1 .. Len(s) : s[i] = s[j] => i = j

\* The place of an element in a listing, and what is left without it.
LEMMA WithoutRemoves ==
    ASSUME NEW K, NEW s, Listing(s, K), NEW i \in 1 .. Len(s)
    PROVE  /\ Without(s, s[i]) \in Seq(K)
           /\ Len(Without(s, s[i])) = Len(s) - 1
           /\ \A j \in 1 .. Len(s) - 1 :
                 Without(s, s[i])[j] = IF j < i THEN s[j] ELSE s[j + 1]
<1> DEFINE left  == SubSeq(s, 1, i - 1)
           right == SubSeq(s, i + 1, Len(s))
<1>1. s \in Seq(K) /\ Len(s) \in Nat
  BY LenProperties DEF Listing
<1>2. Without(s, s[i]) = left \o right
  <2>1. {j \in 1 .. Len(s) : s[j] = s[i]} = {i}
    BY SMTT(30) DEF Listing
  <2>2. Min({i}) = i
    BY <1>1 DEF Min
  <2>3. SelectInSeq(s, LAMBDA v : v = s[i]) = i
    BY <2>1, <2>2 DEF SelectInSeq
  <2> QED
    BY <2>3 DEF Without, RemoveFirst, RemoveAt
<1>3. /\ left \in Seq(K) /\ Len(left) = i - 1
      /\ \A j \in 1 .. i - 1 : left[j] = s[j]
  BY <1>1
<1>4. /\ right \in Seq(K) /\ Len(right) = Len(s) - i
      /\ \A j \in 1 .. Len(s) - i : right[j] = s[j + i]
  BY <1>1
<1> HIDE DEF left, right
<1>5. /\ left \o right \in Seq(K)
      /\ Len(left \o right) = Len(s) - 1
      /\ \A j \in 1 .. Len(s) - 1 :
            (left \o right)[j] = IF j < i THEN s[j] ELSE s[j + 1]
  <2>1. /\ left \o right \in Seq(K)
        /\ Len(left \o right) = Len(left) + Len(right)
        /\ \A j \in 1 .. Len(left) + Len(right) :
              (left \o right)[j] =
                 IF j <= Len(left) THEN left[j] ELSE right[j - Len(left)]
    BY <1>3, <1>4, ConcatProperties
  <2>2. ASSUME NEW j \in 1 .. Len(s) - 1
        PROVE  (left \o right)[j] = IF j < i THEN s[j] ELSE s[j + 1]
    <3>1. j \in 1 .. Len(left) + Len(right) /\ j \in Nat /\ i \in Nat
      BY <1>1, <1>3, <1>4
    <3>2. CASE j < i
      BY <2>1, <3>1, <3>2, <1>3
    <3>3. CASE ~(j < i)
      <4>1. (left \o right)[j] = right[j - (i - 1)]
        BY <2>1, <3>1, <3>3, <1>3
      <4>2. j - (i - 1) \in 1 .. Len(s) - i /\ j - (i - 1) + i = j + 1
        BY <3>1, <3>3, <1>1
      <4> QED
        BY <4>1, <4>2, <3>3, <1>4
    <3> QED
      BY <3>2, <3>3
  <2> QED
    BY <2>1, <2>2, <1>1, <1>3, <1>4
<1> QED
  BY <1>1, <1>2, <1>5

\* Without k a listing lists everything else.
LEMMA WithoutListing ==
    ASSUME NEW K, NEW s, Listing(s, K), NEW k
    PROVE  Listing(Without(s, k), K \ {k})
<1>1. s \in Seq(K) /\ Len(s) \in Nat
  BY LenProperties DEF Listing
<1>2. CASE k \notin K
  <2>1. ~ \E i \in 1 .. Len(s) : s[i] = k
    BY <1>1, <1>2, ElementOfSeq
  <2>2. Without(s, k) = s /\ K \ {k} = K
    BY <1>2, <2>1 DEF Without, RemoveFirst
  <2> QED
    BY <2>2
<1>3. CASE k \in K
  <2>1. PICK i \in 1 .. Len(s) : s[i] = k
    BY <1>3 DEF Listing
  <2> DEFINE t == Without(s, k)
             n == Len(s) - 1
             At(j) == IF j < i THEN j ELSE j + 1
  <2>2. /\ Len(t) = n /\ n \in Nat
        /\ \A j \in 1 .. n : /\ t[j] = s[At(j)]
                             /\ At(j) \in 1 .. Len(s)
                             /\ At(j) # i
    <3>1. /\ Len(t) = Len(s) - 1
          /\ \A j \in 1 .. Len(s) - 1 : t[j] = IF j < i THEN s[j] ELSE s[j + 1]
      BY <2>1, WithoutRemoves
    <3> HIDE DEF t
    <3> QED
      BY <3>1, <1>1
  <2>3. t \in Seq(K \ {k})
    <3>1. \A j \in 1 .. n : t[j] \in K \ {k}
      <4> SUFFICES ASSUME NEW j \in 1 .. n PROVE t[j] \in K \ {k}
        OBVIOUS
      <4>1. s[At(j)] \in K /\ s[At(j)] # k
        BY <1>1, <2>1, <2>2, ElementOfSeq DEF Listing
      <4> QED
        BY <2>2, <4>1
    <3>2. t \in Seq(K)
      BY <2>1, WithoutRemoves
    <3>3. t \in [1 .. n -> K \ {k}]
      BY <3>1, <3>2, <2>2, LenProperties
    <3> QED
      BY <3>3, <2>2, SeqDef
  <2>4. ASSUME NEW x \in K \ {k} PROVE \E j \in 1 .. Len(t) : t[j] = x
    <3>1. PICK m \in 1 .. Len(s) : s[m] = x
      BY DEF Listing
    <3>2. m # i
      BY <2>1, <3>1
    <3> DEFINE j == IF m < i THEN m ELSE m - 1
    <3>3. j \in 1 .. n /\ At(j) = m
      BY <3>1, <3>2, <1>1
    <3> QED
      BY <2>2, <3>1, <3>3
  <2>5. ASSUME NEW a \in 1 .. Len(t), NEW b \in 1 .. Len(t), t[a] = t[b]
        PROVE  a = b
    <3>1. At(a) = At(b)
      <4>1. /\ At(a) \in 1 .. Len(s) /\ At(b) \in 1 .. Len(s)
            /\ s[At(a)] = s[At(b)]
        BY <2>2, <2>5
      <4> HIDE DEF At
      <4> QED
        BY <4>1 DEF Listing
    <3>2. a \in Nat /\ b \in Nat /\ i \in Nat
      BY <2>2, <1>1
    <3> QED
      BY <3>1, <3>2
  <2> QED
    BY <2>3, <2>4, <2>5 DEF Listing
<1> QED
  BY <1>2, <1>3

\* A new element at the end of a listing.
LEMMA AppendListing ==
    ASSUME NEW K, NEW s, Listing(s, K), NEW k, k \notin K
    PROVE  Listing(Append(s, k), K \cup {k})
<1>1. s \in Seq(K \cup {k}) /\ Len(s) \in Nat
  BY LenProperties, SeqMonotonic DEF Listing
<1> DEFINE t == Append(s, k)
<1>2. /\ t \in Seq(K \cup {k}) /\ Len(t) = Len(s) + 1
      /\ t[Len(s) + 1] = k
      /\ \A i \in 1 .. Len(s) : t[i] = s[i] /\ s[i] \in K
  BY <1>1, AppendProperties, ElementOfSeq DEF Listing
<1> HIDE DEF t
<1>3. ASSUME NEW x \in K \cup {k} PROVE \E j \in 1 .. Len(t) : t[j] = x
  <2>1. CASE x = k
    BY <1>1, <1>2, <2>1
  <2>2. CASE x \in K
    <3>1. PICK j \in 1 .. Len(s) : s[j] = x
      BY <2>2 DEF Listing
    <3>2. j \in 1 .. Len(t) /\ t[j] = x
      BY <1>1, <1>2, <3>1
    <3> QED
      BY <3>2
  <2> QED
    BY <2>1, <2>2
<1>4. ASSUME NEW a \in 1 .. Len(t), NEW b \in 1 .. Len(t), t[a] = t[b]
      PROVE  a = b
  <2>1. \A c \in 1 .. Len(t) : c = Len(s) + 1 \/ c \in 1 .. Len(s)
    BY <1>1, <1>2
  <2> QED
    BY <1>2, <1>4, <2>1 DEF Listing
<1> QED
  BY <1>2, <1>3, <1>4 DEF Listing, t

\* A listing has as many elements as the set it lists.
LEMMA ListingCounts ==
    ASSUME NEW K, NEW s, Listing(s, K)
    PROVE  /\ IsFiniteSet(K)
           /\ Len(s) \in Nat
           /\ Cardinality(K) = Len(s)
<1>1. Len(s) \in Nat /\ s \in [1 .. Len(s) -> K]
  BY LenProperties DEF Listing
<1>2. s \in Bijection(1 .. Len(s), K)
  BY <1>1 DEF Listing, Bijection, Injection, Surjection, IsInjective
<1>3. ExistsBijection(1 .. Len(s), K)
  BY <1>2 DEF ExistsBijection
<1> QED
  BY <1>1, <1>3, FS_CountingElements, FS_NatBijection

-----------------------------------------------------------------------------
(* The dictionary *)

\* A dictionary is well formed when its order lists its keys and is no longer
\* than the capacity.
Listed(d) == d \in Dict /\ Listing(d.order, KeysOf(d))

LEMMA WellFormedIsListed ==
    ASSUME NEW d
    PROVE  WellFormedDict(d) <=> Listed(d) /\ Len(d.order) <= MaxCapacity
<1>1. ASSUME Listed(d), Len(d.order) <= MaxCapacity PROVE WellFormedDict(d)
  <2>1. Listing(d.order, KeysOf(d)) /\ d \in Dict
    BY <1>1 DEF Listed
  <2>2. \A i \in 1 .. Len(d.order) : d.order[i] \in KeysOf(d)
    BY <2>1, ElementOfSeq DEF Listing
  <2>3. {d.order[i] : i \in 1 .. Len(d.order)} = KeysOf(d)
    BY <2>1, <2>2, SMTT(30) DEF Listing
  <2> QED
    BY <1>1, <2>1, <2>3, ListingCounts DEF WellFormedDict
<1>2. ASSUME WellFormedDict(d) PROVE Listed(d) /\ Len(d.order) <= MaxCapacity
  <2> DEFINE s == d.order
             K == KeysOf(d)
             I == 1 .. Len(s)
  <2>1. /\ d \in Dict /\ s \in Seq(Keys)
        /\ {s[i] : i \in I} = K
        /\ Len(s) = Cardinality(K)
        /\ Len(s) <= MaxCapacity
    BY <1>2 DEF WellFormedDict, Dict
  <2> HIDE DEF s, K
  <2>2. Len(s) \in Nat /\ s \in [I -> Keys]
    BY <2>1, LenProperties
  <2>3. s \in Surjection(I, K)
    <3>1. s \in [I -> K]
      BY <2>1, <2>2
    <3> QED
      BY <2>1, <3>1 DEF Surjection
  <2>4. IsFiniteSet(I) /\ Cardinality(I) = Len(s)
    BY <2>2, FS_Interval
  <2>5. s \in Injection(I, K)
    BY <2>1, <2>3, <2>4, FS_SurjSameCardinalityImpliesInj
  <2>6. s \in Seq(K)
    BY <2>2, <2>3, SeqDef DEF Surjection
  <2>7. \A k \in K : \E i \in I : s[i] = k
    BY <2>1
  <2>8. \A i, j \in I : s[i] = s[j] => i = j
    BY <2>5 DEF Injection, IsInjective
  <2>9. Listing(s, K)
    BY <2>6, <2>7, <2>8 DEF Listing
  <2> QED
    BY <2>1, <2>9 DEF Listed, s, K
<1> QED
  BY <1>1, <1>2

\* del data_store[k] leaves the other keys and their values.
LEMMA DroppedListed ==
    ASSUME NEW d, Listed(d), NEW k \in Keys
    PROVE  /\ Listed(Dropped(d, k))
           /\ KeysOf(Dropped(d, k)) = KeysOf(d) \ {k}
           /\ Dropped(d, k).value = [d.value EXCEPT ![k] = NoValue]
           /\ Len(Dropped(d, k).order)
                 = IF Holds(d, k) THEN Len(d.order) - 1 ELSE Len(d.order)
<1> DEFINE e == Dropped(d, k)
<1>1. /\ d.order \in Seq(Keys) /\ d.value \in [Keys -> Values \cup {NoValue}]
      /\ Listing(d.order, KeysOf(d))
  BY DEF Listed, Dict
<1>2. /\ e.order = Without(d.order, k)
      /\ e.value = [d.value EXCEPT ![k] = NoValue]
      /\ e = [order |-> e.order, value |-> e.value]
  BY DEF Dropped
<1> HIDE DEF e
<1>3. KeysOf(e) = KeysOf(d) \ {k}
  BY <1>1, <1>2 DEF KeysOf, Holds
<1>4. Listing(e.order, KeysOf(e))
  BY <1>1, <1>2, <1>3, WithoutListing
<1>5. e \in Dict
  <2>1. e.order \in Seq(Keys)
    BY <1>4, SeqMonotonic DEF Listing, KeysOf
  <2>2. e.value \in [Keys -> Values \cup {NoValue}]
    BY <1>1, <1>2
  <2> QED
    BY <1>2, <2>1, <2>2 DEF Dict
<1>6. Len(e.order) = IF Holds(d, k) THEN Len(d.order) - 1 ELSE Len(d.order)
  <2>1. /\ IsFiniteSet(KeysOf(d)) /\ Len(d.order) = Cardinality(KeysOf(d))
        /\ Len(e.order) = Cardinality(KeysOf(e))
    BY <1>1, <1>4, ListingCounts
  <2>2. k \in KeysOf(d) <=> Holds(d, k)
    BY DEF KeysOf
  <2> QED
    BY <1>3, <2>1, <2>2, FS_RemoveElement
<1> QED
  BY <1>2, <1>3, <1>4, <1>5, <1>6 DEF Listed, e

LEMMA DroppedBounded ==
    ASSUME NEW d, Listed(d), Len(d.order) <= MaxCapacity, NEW k \in Keys
    PROVE  Listed(Dropped(d, k)) /\ Len(Dropped(d, k).order) <= MaxCapacity
<1>1. Len(d.order) \in Nat /\ MaxCapacity \in Nat
  BY LenProperties, MaxCapacityAssumption DEF Listed, Listing
<1>2. /\ Listed(Dropped(d, k))
      /\ \/ Len(Dropped(d, k).order) = Len(d.order) - 1
         \/ Len(Dropped(d, k).order) = Len(d.order)
  BY DroppedListed
<1> QED
  BY <1>1, <1>2

\* move_to_end changes the order of a key that is there, and nothing else.
LEMMA MovedListed ==
    ASSUME NEW d, Listed(d), NEW k \in Keys, Holds(d, k)
    PROVE  /\ Listed(MovedToEnd(d, k))
           /\ MovedToEnd(d, k).value = d.value
           /\ Len(MovedToEnd(d, k).order) = Len(d.order)
<1> DEFINE e == MovedToEnd(d, k)
<1>1. /\ d.order \in Seq(Keys) /\ d.value \in [Keys -> Values \cup {NoValue}]
      /\ Listing(d.order, KeysOf(d))
      /\ d = [order |-> d.order, value |-> d.value]
  BY DEF Listed, Dict
<1>2. /\ e.order = Append(Without(d.order, k), k)
      /\ e.value = d.value
      /\ e = [order |-> e.order, value |-> e.value]
  <2> DEFINE moved == Append(Without(d.order, k), k)
  <2>1. e = [d EXCEPT !.order = moved]
    BY DEF MovedToEnd
  <2> HIDE DEF moved, e
  <2>2. e = [order |-> moved, value |-> d.value]
    BY <1>1, <2>1
  <2> QED
    BY <2>2 DEF moved
<1> HIDE DEF e
<1>3. KeysOf(e) = KeysOf(d) /\ (KeysOf(d) \ {k}) \cup {k} = KeysOf(d)
  BY <1>2 DEF KeysOf, Holds
<1>4. Listing(e.order, KeysOf(e))
  <2>1. Listing(Without(d.order, k), KeysOf(d) \ {k})
    BY <1>1, WithoutListing
  <2> QED
    BY <1>2, <1>3, <2>1, AppendListing
<1>5. e \in Dict
  <2>1. e.order \in Seq(Keys)
    BY <1>4, SeqMonotonic DEF Listing, KeysOf
  <2> QED
    BY <1>1, <1>2, <2>1 DEF Dict
<1>6. Len(e.order) = Len(d.order)
  BY <1>1, <1>3, <1>4, ListingCounts
<1> QED
  BY <1>2, <1>4, <1>5, <1>6 DEF Listed, e

\* Writing the value of a key that is new puts it in the keys, but not yet in
\* the order: the step inside Put.
LEMMA WrittenListed ==
    ASSUME NEW d, Listed(d), NEW k \in Keys, NEW v \in Values
    PROVE  LET e == MovedToEnd([d EXCEPT !.value[k] = v], k)
           IN  /\ Listed(e)
               /\ KeysOf(e) = KeysOf(d) \cup {k}
               /\ e.value = [d.value EXCEPT ![k] = v]
               /\ Len(e.order)
                     = IF Holds(d, k) THEN Len(d.order) ELSE Len(d.order) + 1
<1> DEFINE w == [d EXCEPT !.value[k] = v]
           e == MovedToEnd(w, k)
<1>1. /\ d.order \in Seq(Keys) /\ d.value \in [Keys -> Values \cup {NoValue}]
      /\ Listing(d.order, KeysOf(d))
      /\ d = [order |-> d.order, value |-> d.value]
  BY DEF Listed, Dict
<1>2. /\ w.order = d.order /\ w.value = [d.value EXCEPT ![k] = v]
      /\ w = [order |-> w.order, value |-> w.value]
  BY <1>1
<1> HIDE DEF w
<1>3. /\ e.order = Append(Without(d.order, k), k)
      /\ e.value = [d.value EXCEPT ![k] = v]
      /\ e = [order |-> e.order, value |-> e.value]
  BY <1>2 DEF MovedToEnd
<1> HIDE DEF e
<1>4. KeysOf(e) = KeysOf(d) \cup {k} /\ (KeysOf(d) \ {k}) \cup {k} = KeysOf(e)
  BY <1>1, <1>3, AbsenceAssumption DEF KeysOf, Holds
<1>5. Listing(e.order, KeysOf(e))
  <2>1. Listing(Without(d.order, k), KeysOf(d) \ {k})
    BY <1>1, WithoutListing
  <2> QED
    BY <1>3, <1>4, <2>1, AppendListing
<1>6. e \in Dict
  <2>1. e.order \in Seq(Keys)
    BY <1>5, SeqMonotonic DEF Listing, KeysOf
  <2>2. e.value \in [Keys -> Values \cup {NoValue}]
    BY <1>1, <1>3
  <2> QED
    BY <1>3, <2>1, <2>2 DEF Dict
<1>7. Len(e.order) = IF Holds(d, k) THEN Len(d.order) ELSE Len(d.order) + 1
  <2>1. /\ IsFiniteSet(KeysOf(d)) /\ Len(d.order) = Cardinality(KeysOf(d))
        /\ Len(e.order) = Cardinality(KeysOf(e))
    BY <1>1, <1>5, ListingCounts
  <2>2. k \in KeysOf(d) <=> Holds(d, k)
    BY DEF KeysOf
  <2> QED
    BY <1>4, <2>1, <2>2, FS_AddElement, ZenonT(40)
<1> QED
  BY <1>3, <1>4, <1>5, <1>6, <1>7 DEF Listed, w, e

\* The key popitem(last=False) takes is one the dictionary holds, and not the
\* one being written.
LEMMA VictimProperties ==
    ASSUME NEW d, Listed(d), NEW k \in Keys, Victim(d, k) # NoKey
    PROVE  /\ Victim(d, k) \in KeysOf(d)
           /\ Victim(d, k) # k
           /\ ~Holds(d, k)
           /\ Full(d)
<1>1. ~Holds(d, k) /\ Full(d) /\ Victim(d, k) = Head(d.order)
  BY DEF Victim
<1>2. d.order \in Seq(KeysOf(d)) /\ Len(d.order) \in Nat /\ d.order # <<>>
  <2>1. d.order \in Seq(KeysOf(d)) /\ Len(d.order) \in Nat
    BY LenProperties DEF Listed, Listing
  <2> QED
    BY <1>1, <2>1, EmptySeq, MaxCapacityAssumption DEF Full
<1>3. Victim(d, k) \in KeysOf(d)
  BY <1>1, <1>2, HeadTailProperties
<1> QED
  BY <1>1, <1>3 DEF KeysOf

LEMMA VictimType ==
    ASSUME NEW d, Listed(d), NEW k \in Keys
    PROVE  Victim(d, k) \in Keys \cup {NoKey}
BY VictimProperties DEF KeysOf

\* What execute_lru_set does to a dictionary: k has the value, the victim is
\* gone, every other key keeps its value, and there is never one too many.
LEMMA PutListed ==
    ASSUME NEW d, Listed(d), Len(d.order) <= MaxCapacity,
           NEW k \in Keys, NEW v \in Values
    PROVE  /\ Listed(Put(d, k, v))
           /\ Len(Put(d, k, v).order) <= MaxCapacity
           /\ Put(d, k, v).value[k] = v
           /\ \A x \in Keys \ {k} : Put(d, k, v).value[x]
                 = IF x = Victim(d, k) THEN NoValue ELSE d.value[x]
<1> DEFINE e == Victim(d, k)
           room == IF e = NoKey THEN d ELSE Dropped(d, e)
<1>1. Put(d, k, v) = MovedToEnd([room EXCEPT !.value[k] = v], k)
  BY DEF Put
<1>2. /\ d.value \in [Keys -> Values \cup {NoValue}]
      /\ Len(d.order) \in Nat /\ MaxCapacity \in Nat
  BY LenProperties, MaxCapacityAssumption DEF Listed, Listing, Dict
<1>3. e \in Keys \cup {NoKey} /\ NoKey \notin Keys
  BY VictimType, AbsenceAssumption
<1>4. /\ Listed(room)
      /\ \A x \in Keys : room.value[x] = IF x = e THEN NoValue ELSE d.value[x]
      /\ Len(room.order) \in Nat
      /\ IF Holds(room, k) THEN Len(room.order) <= MaxCapacity
                           ELSE Len(room.order) < MaxCapacity
  <2>1. CASE e = NoKey
    <3>1. room = d
      BY <2>1
    <3>2. Holds(d, k) \/ Len(d.order) < MaxCapacity
      <4>1. CASE Full(d) /\ ~Holds(d, k)
        <5>1. e = Head(d.order) /\ d.order \in Seq(Keys) /\ d.order # <<>>
          <6>1. d.order # <<>>
            BY <4>1, EmptySeq, MaxCapacityAssumption DEF Full
          <6> QED
            BY <4>1, <6>1 DEF Victim, Listed, Dict
        <5>2. e \in Keys
          BY <5>1, HeadTailProperties
        <5> QED
          BY <1>3, <2>1, <5>2
      <4>2. CASE ~Full(d)
        BY <1>2, <4>2 DEF Full
      <4> QED
        BY <4>1, <4>2
    <3> QED
      BY <1>2, <1>3, <2>1, <3>1, <3>2
  <2>2. CASE e # NoKey
    <3>1. e \in KeysOf(d) /\ e # k /\ ~Holds(d, k)
      BY <2>2, VictimProperties
    <3>2. e \in Keys /\ Holds(d, e)
      BY <3>1 DEF KeysOf
    <3>3. /\ room = Dropped(d, e)
          /\ Listed(room)
          /\ room.value = [d.value EXCEPT ![e] = NoValue]
          /\ Len(room.order) = Len(d.order) - 1
      BY <2>2, <3>2, DroppedListed
    <3>4. Len(room.order) \in Nat
      BY <3>3, LenProperties DEF Listed, Listing
    <3>5. \A x \in Keys :
             room.value[x] = IF x = e THEN NoValue ELSE d.value[x]
      BY <1>2, <3>2, <3>3
    <3> HIDE DEF room
    <3> QED
      BY <1>2, <3>3, <3>4, <3>5
  <2> QED
    BY <2>1, <2>2
<1> HIDE DEF e, room
<1>5. /\ Listed(Put(d, k, v))
      /\ Put(d, k, v).value = [room.value EXCEPT ![k] = v]
      /\ Len(Put(d, k, v).order)
            = IF Holds(room, k) THEN Len(room.order) ELSE Len(room.order) + 1
  BY <1>1, <1>4, WrittenListed
<1>6. room.value \in [Keys -> Values \cup {NoValue}]
  BY <1>4 DEF Listed, Dict
<1>7. Len(Put(d, k, v).order) <= MaxCapacity
  BY <1>2, <1>4, <1>5
<1> QED
  BY <1>4, <1>5, <1>6, <1>7 DEF e

-----------------------------------------------------------------------------
(* Type correctness *)

Entry == [entry : {"SET", "DEL"}, key : Keys, value : Values,
          evicted : Keys \cup {NoKey}]

\* What CacheTypeOK says of the entries one client has due.
DueOK(r) == /\ r \in {Nothing} \cup Entry
            /\ r.entry = "DEL" <=> r.evicted # NoKey

LEMMA TypeByParts ==
    CacheTypeOK <=>
        /\ running \in BOOLEAN
        /\ Listed(data_store) /\ Len(data_store.order) <= MaxCapacity
        /\ logged \in [Keys -> Values \cup {NoValue}]
        /\ due \in [Clients -> {Nothing} \cup Entry]
        /\ \A c \in Clients : DueOK(due[c])
        /\ used \subseteq Keys
        /\ since \in [Keys -> SUBSET Keys]
        /\ unsure \subseteq Keys
<1>1. WellFormedDict(data_store)
         <=> Listed(data_store) /\ Len(data_store.order) <= MaxCapacity
  BY WellFormedIsListed
<1>2. ASSUME due \in [Clients -> {Nothing} \cup Entry], NEW c \in Clients
      PROVE  DueOK(due[c]) <=> (due[c].entry = "DEL" <=> due[c].evicted # NoKey)
  BY <1>2 DEF DueOK
<1> QED
  BY <1>1, <1>2 DEF CacheTypeOK, Entry

\* A client that has entries due has a key and a value to log.
LEMMA DueFields ==
    ASSUME NEW r, DueOK(r)
    PROVE  /\ r.entry = "none" <=> r = Nothing
           /\ r.entry \in {"none", "SET", "DEL"}
           /\ r.entry # "none" =>
                 /\ r = [entry |-> r.entry, key |-> r.key, value |-> r.value,
                         evicted |-> r.evicted]
                 /\ r.key \in Keys /\ r.value \in Values
           /\ r.entry = "DEL" => r.evicted \in Keys
           /\ r.entry # "DEL" => r.evicted = NoKey
BY DEF DueOK, Entry, Nothing

\* The empty dictionary.
LEMMA EmptyListed ==
    /\ Listed(EmptyDict)
    /\ Len(EmptyDict.order) <= MaxCapacity
    /\ EmptyDict.order = <<>>
    /\ EmptyDict.value = NoValues
    /\ KeysOf(EmptyDict) = {}
<1>1. EmptyDict \in Dict /\ EmptyDict.order = <<>> /\ Len(EmptyDict.order) = 0
  BY EmptySeq DEF EmptyDict, Dict, NoValues
<1>2. KeysOf(EmptyDict) = {}
  BY DEF KeysOf, Holds, EmptyDict, NoValues
<1> QED
  BY <1>1, <1>2, EmptySeq, MaxCapacityAssumption DEF Listed, Listing, EmptyDict

\* What one client has due after LogEviction.
LEMMA AfterEviction ==
    ASSUME CacheTypeOK, NEW c \in Clients, LogEviction(c)
    PROVE  LET r == [entry |-> "SET", key |-> due[c].key,
                     value |-> due[c].value, evicted |-> NoKey]
           IN  /\ r \in Entry /\ DueOK(r)
               /\ due' = [due EXCEPT ![c] = r]
               /\ due[c].evicted \in Keys
<1> DEFINE q == [due[c] EXCEPT !.entry = "SET", !.evicted = NoKey]
           r == [entry |-> "SET", key |-> due[c].key,
                 value |-> due[c].value, evicted |-> NoKey]
<1>t. due \in [Clients -> {Nothing} \cup Entry] /\ DueOK(due[c])
  BY TypeByParts
<1>1. /\ due[c] = [entry |-> "DEL", key |-> due[c].key,
                   value |-> due[c].value, evicted |-> due[c].evicted]
      /\ due[c].key \in Keys /\ due[c].value \in Values
      /\ due[c].evicted \in Keys
  BY <1>t, DueFields DEF LogEviction
<1>2. q = r
  <2> DEFINE s == [due[c] EXCEPT !.entry = "SET"]
  <2>1. q = [s EXCEPT !.evicted = NoKey]
    BY <1>1
  <2>2. s = [entry |-> "SET", key |-> due[c].key,
             value |-> due[c].value, evicted |-> due[c].evicted]
    BY <1>1
  <2> HIDE DEF s, q
  <2> QED
    BY <2>1, <2>2
<1>3. due' = [due EXCEPT ![c] = q]
  BY <1>t, <1>1 DEF LogEviction
<1> HIDE DEF q
<1>4. r \in Entry /\ DueOK(r)
  BY <1>1 DEF Entry, DueOK
<1> QED
  BY <1>1, <1>2, <1>3, <1>4

\* The dictionary after every step.
LEMMA StoreNext ==
    ASSUME CacheTypeOK, [CacheNext]_cacheVars
    PROVE  Listed(data_store') /\ Len(data_store'.order) <= MaxCapacity
<1>t. Listed(data_store) /\ Len(data_store.order) <= MaxCapacity
  BY TypeByParts
<1>1. ASSUME NEW c \in Clients, NEW k \in Keys, NEW v \in Values,
             ExecuteLruSet(c, k, v)
      PROVE  Listed(data_store') /\ Len(data_store'.order) <= MaxCapacity
  BY <1>1, <1>t, PutListed DEF ExecuteLruSet
<1>2. ASSUME NEW c \in Clients, NEW k \in Keys, ExecuteLruGet(c, k)
      PROVE  Listed(data_store') /\ Len(data_store'.order) <= MaxCapacity
  BY <1>2, <1>t, MovedListed DEF ExecuteLruGet
<1>3. ASSUME NEW c \in Clients, NEW k \in Keys, Delete(c, k)
      PROVE  Listed(data_store') /\ Len(data_store'.order) <= MaxCapacity
  BY <1>3, <1>t, DroppedBounded DEF Delete
<1>4. ASSUME NEW c \in Clients, LogEviction(c) \/ LogSet(c) \/ LogFails(c)
      PROVE  Listed(data_store') /\ Len(data_store'.order) <= MaxCapacity
  BY <1>4, <1>t DEF LogEviction, LogSet, LogFails
<1>5. CASE Crash \/ Start
  BY <1>5, EmptyListed DEF Crash, Start, Recovered
<1>6. CASE UNCHANGED cacheVars
  BY <1>6, <1>t DEF cacheVars
<1> QED
  BY <1>1, <1>2, <1>3, <1>4, <1>5, <1>6 DEF CacheNext

LEMMA TypeNext == CacheTypeOK /\ [CacheNext]_cacheVars => CacheTypeOK'
<1> SUFFICES ASSUME CacheTypeOK, [CacheNext]_cacheVars PROVE CacheTypeOK'
  OBVIOUS
<1>t. /\ running \in BOOLEAN
      /\ Listed(data_store)
      /\ logged \in [Keys -> Values \cup {NoValue}]
      /\ due \in [Clients -> {Nothing} \cup Entry]
      /\ \A c \in Clients : DueOK(due[c])
      /\ used \subseteq Keys
      /\ since \in [Keys -> SUBSET Keys]
      /\ unsure \subseteq Keys
  BY TypeByParts
<1> DEFINE Calls == /\ due' \in [Clients -> {Nothing} \cup Entry]
                    /\ \A c \in Clients : DueOK(due'[c])
           Rest  == /\ running' \in BOOLEAN
                    /\ logged' \in [Keys -> Values \cup {NoValue}]
                    /\ used' \subseteq Keys
                    /\ since' \in [Keys -> SUBSET Keys]
                    /\ unsure' \subseteq Keys
<1>p. ASSUME Calls, Rest PROVE CacheTypeOK'
  <2>1. WellFormedDict(data_store')
    BY StoreNext, WellFormedIsListed
  <2>2. \A c \in Clients :
           due'[c].entry = "DEL" <=> due'[c].evicted # NoKey
    BY <1>p DEF DueOK
  <2> QED
    BY <1>p, <2>1, <2>2 DEF CacheTypeOK, Entry
<1>n. DueOK(Nothing) /\ Nothing \in {Nothing} \cup Entry
  BY DEF DueOK, Nothing
<1>c. ASSUME NEW c \in Clients, NEW r \in {Nothing} \cup Entry, DueOK(r),
             due' = [due EXCEPT ![c] = r]
      PROVE  Calls
  BY <1>c, <1>t
<1>d. Due \subseteq Keys
  <2>1. \A c \in Clients : DueFrom(c) \subseteq Keys
    BY <1>t, DueFields DEF DueFrom, Nothing
  <2> QED
    BY <2>1 DEF Due
<1>1. ASSUME NEW c \in Clients, NEW k \in Keys, NEW v \in Values,
             ExecuteLruSet(c, k, v)
      PROVE  CacheTypeOK'
  <2> DEFINE e == Victim(data_store, k)
             r == [entry |-> FirstEntry(e), key |-> k, value |-> v, evicted |-> e]
  <2>1. e \in Keys \cup {NoKey}
    BY <1>t, VictimType
  <2>2. r \in Entry /\ DueOK(r)
    BY <2>1 DEF Entry, DueOK, FirstEntry
  <2>3. due' = [due EXCEPT ![c] = r]
    BY <1>1 DEF ExecuteLruSet
  <2> HIDE DEF r
  <2>4. Rest
    BY <1>1, <1>t, <1>d DEF ExecuteLruSet, Use, Change
  <2> QED
    BY <1>c, <1>p, <2>2, <2>3, <2>4
<1>2. ASSUME NEW c \in Clients, NEW k \in Keys, ExecuteLruGet(c, k)
      PROVE  CacheTypeOK'
  BY <1>2, <1>t, <1>p DEF ExecuteLruGet, Use
<1>3. ASSUME NEW c \in Clients, NEW k \in Keys, Delete(c, k)
      PROVE  CacheTypeOK'
  BY <1>3, <1>t, <1>d, <1>p DEF Delete, Change
<1>4. ASSUME NEW c \in Clients, LogEviction(c) PROVE CacheTypeOK'
  <2>1. Calls /\ due[c].evicted \in Keys
    BY <1>4, <1>c, AfterEviction
  <2>2. Rest
    BY <1>4, <1>t, <2>1 DEF LogEviction
  <2> QED
    BY <1>p, <2>1, <2>2
<1>5. ASSUME NEW c \in Clients, LogSet(c) PROVE CacheTypeOK'
  <2>1. due[c].key \in Keys /\ due[c].value \in Values
    BY <1>5, <1>t, DueFields DEF LogSet
  <2>2. Calls
    BY <1>5, <1>n, <1>c DEF LogSet
  <2> QED
    BY <1>5, <1>t, <1>p, <2>1, <2>2 DEF LogSet
<1>6. ASSUME NEW c \in Clients, LogFails(c) PROVE CacheTypeOK'
  <2>1. Calls
    BY <1>6, <1>n, <1>c DEF LogFails
  <2>2. DueFrom(c) \subseteq Keys
    BY <1>d DEF Due
  <2> QED
    BY <1>6, <1>t, <1>p, <2>1, <2>2 DEF LogFails
<1>7. CASE Crash
  BY <1>7, <1>t, <1>d, <1>n, <1>p DEF Crash
<1>8. CASE Start
  BY <1>8, <1>t, <1>p DEF Start
<1>9. CASE UNCHANGED cacheVars
  BY <1>9, <1>t, <1>p DEF cacheVars
<1> QED
  BY <1>1, <1>2, <1>3, <1>4, <1>5, <1>6, <1>7, <1>8, <1>9 DEF CacheNext

\* The dictionary names each key it holds once and never holds more than
\* max_capacity, whatever the clients do and wherever the process ends.
THEOREM TypeCorrect == CacheSpec => []CacheTypeOK
<1>1. CacheInit => CacheTypeOK
  <2> SUFFICES ASSUME CacheInit PROVE CacheTypeOK
    OBVIOUS
  <2>1. DueOK(Nothing)
    BY DEF DueOK, Nothing
  <2> QED
    BY <2>1, EmptyListed, TypeByParts DEF CacheInit, NoValues
<1> QED
  BY <1>1, TypeNext, PTL DEF CacheSpec

-----------------------------------------------------------------------------
(* The order of the keys *)

\* x comes before y in the sequence s.
Precedes(s, x, y) == \E i, j \in 1 .. Len(s) : i < j /\ s[i] = x /\ s[j] = y

LEMMA WithoutPrecedes ==
    ASSUME NEW K, NEW s, Listing(s, K), NEW k, NEW x, NEW y,
           Precedes(Without(s, k), x, y)
    PROVE  Precedes(s, x, y)
<1>1. s \in Seq(K) /\ Len(s) \in Nat
  BY LenProperties DEF Listing
<1>2. CASE k \notin K
  <2>1. ~ \E i \in 1 .. Len(s) : s[i] = k
    BY <1>1, <1>2, ElementOfSeq
  <2> QED
    BY <2>1 DEF Without, RemoveFirst
<1>3. CASE k \in K
  <2>1. PICK i \in 1 .. Len(s) : s[i] = k
    BY <1>3 DEF Listing
  <2> DEFINE t == Without(s, k)
             n == Len(s) - 1
             At(j) == IF j < i THEN j ELSE j + 1
  <2>2. /\ Len(t) = n
        /\ \A j \in 1 .. n : t[j] = s[At(j)]
    <3>1. /\ Len(t) = Len(s) - 1
          /\ \A j \in 1 .. Len(s) - 1 : t[j] = IF j < i THEN s[j] ELSE s[j + 1]
      BY <2>1, WithoutRemoves
    <3> HIDE DEF t
    <3> QED
      BY <3>1
  <2> HIDE DEF t
  <2>3. PICK a, b \in 1 .. n : a < b /\ t[a] = x /\ t[b] = y
    BY <2>2 DEF Precedes, t
  <2>4. At(a) \in 1 .. Len(s) /\ At(b) \in 1 .. Len(s) /\ At(a) < At(b)
    BY <1>1, <2>3
  <2>5. s[At(a)] = x /\ s[At(b)] = y
    BY <2>2, <2>3
  <2> HIDE DEF At
  <2> QED
    BY <2>4, <2>5 DEF Precedes
<1> QED
  BY <1>2, <1>3

\* After move_to_end of k the pairs are old ones without k, and those of another
\* key and k.
LEMMA MovedPrecedes ==
    ASSUME NEW K, NEW s, Listing(s, K), NEW k, NEW x, NEW y,
           Precedes(Append(Without(s, k), k), x, y)
    PROVE  x \in K \ {k} /\ (y = k \/ Precedes(s, x, y))
<1> DEFINE t == Without(s, k)
           u == Append(t, k)
<1>1. Listing(t, K \ {k})
  BY WithoutListing
<1>2. t \in Seq(K \ {k}) /\ Len(t) \in Nat
  BY <1>1, LenProperties DEF Listing
<1>3. \A i \in 1 .. Len(t) : t[i] \in K \ {k}
  BY <1>2, ElementOfSeq
<1>4. \A x1, y1 : Precedes(t, x1, y1) => Precedes(s, x1, y1)
  BY WithoutPrecedes
<1> HIDE DEF t
<1>5. /\ Len(u) = Len(t) + 1
      /\ u[Len(t) + 1] = k
      /\ \A i \in 1 .. Len(t) : u[i] = t[i]
  <2>1. t \in Seq(K \cup {k})
    BY <1>2, SeqMonotonic
  <2> QED
    BY <2>1, AppendProperties
<1>6. Precedes(u, x, y)
  BY DEF t
<1> HIDE DEF u
<1>7. PICK a, b \in 1 .. Len(u) : a < b /\ u[a] = x /\ u[b] = y
  BY <1>6 DEF Precedes
<1>8. a \in 1 .. Len(t) /\ (b = Len(t) + 1 \/ b \in 1 .. Len(t))
  BY <1>2, <1>5, <1>7
<1>9. x \in K \ {k}
  BY <1>3, <1>5, <1>7, <1>8
<1>10. CASE b \in 1 .. Len(t)
  <2>1. Precedes(t, x, y)
    BY <1>5, <1>7, <1>8, <1>10 DEF Precedes
  <2> QED
    BY <1>4, <1>9, <2>1
<1> QED
  BY <1>5, <1>7, <1>8, <1>9, <1>10

\* The first key of a listing comes before every other one.
LEMMA HeadPrecedes ==
    ASSUME NEW K, NEW s, Listing(s, K), s # <<>>, NEW y \in K \ {Head(s)}
    PROVE  Precedes(s, Head(s), y)
<1>1. s \in Seq(K) /\ Len(s) \in Nat /\ 1 \in 1 .. Len(s) /\ s[1] = Head(s)
  <2>1. s \in Seq(K) /\ Len(s) \in Nat
    BY LenProperties DEF Listing
  <2>2. Len(s) # 0
    BY <2>1, EmptySeq
  <2> QED
    BY <2>1, <2>2, HeadTailProperties
<1>2. PICK j \in 1 .. Len(s) : s[j] = y
  BY DEF Listing
<1>3. j # 1
  BY <1>1, <1>2
<1> QED
  BY <1>1, <1>2, <1>3 DEF Precedes

-----------------------------------------------------------------------------
(* The keys in use *)

\* Of two keys in the dictionary the newer one was used after the older one's last
\* use.  A key that was evicted since its last use has seen max_capacity others.
\* A process that has not started has nothing in memory.
RecencyInv ==
    /\ ~running => data_store = EmptyDict
    /\ KeysOf(data_store) \subseteq used
    /\ \A x, y \in Keys : Precedes(data_store.order, x, y) => y \in since[x]
    /\ \A x \in Keys : x \notin since[x] /\ IsFiniteSet(since[x])
    /\ \A x \in used \ KeysOf(data_store) : MaxCapacity <= Cardinality(since[x])

\* What a use of k does to the sets of later keys.
LEMMA UseProperties ==
    ASSUME CacheTypeOK, RecencyInv, NEW k \in Keys, Use(k)
    PROVE  /\ since'[k] = {} /\ k \in used' /\ used' = used \cup {k}
           /\ \A x \in Keys \ {k} : since'[x] = since[x] \cup {k}
           /\ \A x \in Keys : x \notin since'[x] /\ IsFiniteSet(since'[x])
           /\ \A x \in Keys \ {k} : /\ IsFiniteSet(since[x])
                                    /\ Cardinality(since[x]) \in Nat
                                    /\ Cardinality(since'[x]) \in Nat
                                    /\ Cardinality(since[x]) <= Cardinality(since'[x])
<1>1. /\ since'[k] = {} /\ k \in used' /\ used' = used \cup {k}
      /\ \A x \in Keys \ {k} : since'[x] = since[x] \cup {k}
  BY DEF Use
<1>2. ASSUME NEW x \in Keys \ {k}
      PROVE  /\ x \notin since'[x] /\ IsFiniteSet(since'[x]) /\ IsFiniteSet(since[x])
             /\ Cardinality(since[x]) \in Nat /\ Cardinality(since'[x]) \in Nat
             /\ Cardinality(since[x]) <= Cardinality(since'[x])
  <2>1. x \notin since[x] /\ IsFiniteSet(since[x])
    BY DEF RecencyInv
  <2>2. IsFiniteSet(since'[x]) /\ since[x] \subseteq since'[x] /\ x \notin since'[x]
    BY <1>1, <2>1, FS_AddElement
  <2> QED
    BY <2>1, <2>2, FS_Subset, FS_CardinalityType
<1>3. k \notin since'[k] /\ IsFiniteSet(since'[k])
  BY <1>1, FS_EmptySet
<1> QED
  BY <1>1, <1>2, <1>3

\* The key that is evicted for k has seen the use of every other key of a full
\* dictionary, and now that of k.
LEMMA VictimSawOthers ==
    ASSUME CacheTypeOK, RecencyInv, NEW k \in Keys, Use(k),
           Victim(data_store, k) # NoKey
    PROVE  MaxCapacity <= Cardinality(since'[Victim(data_store, k)])
<1> DEFINE e == Victim(data_store, k)
           K == KeysOf(data_store)
           s == data_store.order
           others == (K \ {e}) \cup {k}
<1>1. Listed(data_store) /\ Listing(s, K) /\ K \subseteq Keys
  BY TypeByParts DEF Listed, KeysOf
<1>2. e \in K /\ e # k /\ ~Holds(data_store, k) /\ Full(data_store) /\ e = Head(s)
  BY <1>1, VictimProperties DEF Victim
<1>3. /\ IsFiniteSet(K) /\ Len(s) \in Nat /\ Cardinality(K) = Len(s)
      /\ MaxCapacity <= Len(s) /\ MaxCapacity \in Nat
  BY <1>1, <1>2, ListingCounts, MaxCapacityAssumption DEF Full
<1>4. s # <<>>
  <2>1. Len(s) # 0
    BY <1>3, MaxCapacityAssumption
  <2> QED
    BY <2>1, EmptySeq
<1> HIDE DEF e, s, K
<1>5. \A y \in K \ {e} : y \in since[e]
  <2> TAKE y \in K \ {e}
  <2>1. Precedes(s, e, y)
    BY <1>1, <1>2, <1>4, HeadPrecedes
  <2> QED
    BY <1>1, <1>2, <2>1 DEF RecencyInv, s
<1>6. others \subseteq since'[e] /\ IsFiniteSet(since'[e])
  BY <1>1, <1>2, <1>5, UseProperties
<1>7. IsFiniteSet(others) /\ Cardinality(others) = Cardinality(K)
  <2>1. k \notin K
    BY <1>2 DEF K, KeysOf
  <2>2. IsFiniteSet(K \ {e}) /\ Cardinality(K \ {e}) = Cardinality(K) - 1
    BY <1>2, <1>3, FS_RemoveElement
  <2>3. k \notin K \ {e}
    BY <2>1
  <2> HIDE DEF others
  <2>4. IsFiniteSet(others) /\ Cardinality(others) = Cardinality(K \ {e}) + 1
    BY <2>2, <2>3, FS_AddElement, ZenonT(30) DEF others
  <2> QED
    BY <1>3, <2>2, <2>4
<1>8. Cardinality(others) <= Cardinality(since'[e]) /\ Cardinality(since'[e]) \in Nat
  BY <1>6, <1>7, FS_Subset, FS_CardinalityType
<1> QED
  BY <1>3, <1>7, <1>8 DEF e

\* The keys of a dictionary, and their order, after execute_lru_set.
LEMMA PutOrder ==
    ASSUME NEW d, Listed(d), Len(d.order) <= MaxCapacity,
           NEW k \in Keys, NEW v \in Values
    PROVE  /\ KeysOf(Put(d, k, v)) = (KeysOf(d) \ {Victim(d, k)}) \cup {k}
           /\ \A x, y \in Keys : Precedes(Put(d, k, v).order, x, y)
                 => x # k /\ (y = k \/ Precedes(d.order, x, y))
<1> DEFINE e == Victim(d, k)
           room == IF e = NoKey THEN d ELSE Dropped(d, e)
           w == [room EXCEPT !.value[k] = v]
<1>1. Put(d, k, v) = MovedToEnd(w, k)
  BY DEF Put
<1>2. e = NoKey \/ e \in KeysOf(d)
  BY VictimProperties
<1>3. Listed(room) /\ Listing(d.order, KeysOf(d))
  BY <1>2, DroppedListed DEF Listed, KeysOf
<1>4. \A x, y : Precedes(room.order, x, y) => Precedes(d.order, x, y)
  BY <1>3, WithoutPrecedes DEF Dropped
<1> HIDE DEF room
<1>5. Listing(room.order, KeysOf(room)) /\ room \in Dict
  BY <1>3 DEF Listed
<1>6. room = [order |-> room.order, value |-> room.value]
  BY <1>5 DEF Dict
<1>7. w.order = room.order
  BY <1>6
<1> HIDE DEF w
<1>8. Put(d, k, v).order = Append(Without(room.order, k), k)
  BY <1>1, <1>7 DEF MovedToEnd
<1>9. ASSUME NEW x \in Keys, NEW y \in Keys, Precedes(Put(d, k, v).order, x, y)
      PROVE  x # k /\ (y = k \/ Precedes(d.order, x, y))
  <2>1. x # k /\ (y = k \/ Precedes(room.order, x, y))
    BY <1>5, <1>8, <1>9, MovedPrecedes
  <2> QED
    BY <1>4, <2>1
<1>10. KeysOf(Put(d, k, v)) = (KeysOf(d) \ {e}) \cup {k}
  <2>1. /\ Put(d, k, v).value[k] = v
        /\ \A x \in Keys \ {k} : Put(d, k, v).value[x]
              = IF x = e THEN NoValue ELSE d.value[x]
    BY PutListed
  <2>2. v # NoValue
    BY AbsenceAssumption
  <2> HIDE DEF e
  <2> QED
    BY <2>1, <2>2 DEF KeysOf, Holds
<1> QED
  BY <1>9, <1>10

LEMMA RecencyNext ==
    CacheTypeOK /\ RecencyInv /\ [CacheNext]_cacheVars => RecencyInv'
<1> SUFFICES ASSUME CacheTypeOK, RecencyInv, [CacheNext]_cacheVars
             PROVE  RecencyInv'
  OBVIOUS
<1>t. /\ Listed(data_store) /\ Len(data_store.order) <= MaxCapacity
      /\ Listing(data_store.order, KeysOf(data_store))
      /\ used \subseteq Keys
  BY TypeByParts DEF Listed
<1>i. /\ ~running => data_store = EmptyDict
      /\ KeysOf(data_store) \subseteq used
      /\ \A x, y \in Keys : Precedes(data_store.order, x, y) => y \in since[x]
      /\ \A x \in Keys : x \notin since[x] /\ IsFiniteSet(since[x])
      /\ \A x \in used \ KeysOf(data_store) : MaxCapacity <= Cardinality(since[x])
  BY DEF RecencyInv
\* A step that changes neither the dictionary nor the history.
<1>s. ASSUME data_store' = data_store, used' = used, since' = since,
             running' = running
      PROVE  RecencyInv'
  BY <1>s, <1>i DEF RecencyInv, KeysOf, Holds
<1>1. ASSUME NEW c \in Clients, NEW k \in Keys, NEW v \in Values,
             ExecuteLruSet(c, k, v)
      PROVE  RecencyInv'
  <2> DEFINE e == Victim(data_store, k)
  <2>1. data_store' = Put(data_store, k, v) /\ Use(k) /\ running'
    BY <1>1 DEF ExecuteLruSet, Free
  <2>2. /\ KeysOf(data_store') = (KeysOf(data_store) \ {e}) \cup {k}
        /\ \A x, y \in Keys : Precedes(data_store'.order, x, y)
              => x # k /\ (y = k \/ Precedes(data_store.order, x, y))
    BY <1>t, <2>1, PutOrder
  <2>3. e # NoKey => MaxCapacity <= Cardinality(since'[e])
    BY <2>1, VictimSawOthers
  <2>4. NoKey \notin Keys /\ MaxCapacity \in Nat
    BY AbsenceAssumption, MaxCapacityAssumption
  <2> HIDE DEF e
  <2>5. KeysOf(data_store') \subseteq used'
    BY <1>i, <2>1, <2>2, UseProperties
  <2>6. \A x, y \in Keys : Precedes(data_store'.order, x, y) => y \in since'[x]
    BY <1>i, <2>1, <2>2, UseProperties
  <2>7. \A x \in Keys : x \notin since'[x] /\ IsFiniteSet(since'[x])
    BY <2>1, UseProperties
  <2>8. ASSUME NEW x \in used' \ KeysOf(data_store')
        PROVE  MaxCapacity <= Cardinality(since'[x])
    <3>1. x # k /\ x \in used /\ x \in Keys
      BY <1>t, <2>1, <2>2, UseProperties
    <3>2. CASE x = e
      BY <2>3, <2>4, <3>1, <3>2
    <3>3. CASE x # e
      <4>1. MaxCapacity <= Cardinality(since[x])
        BY <1>i, <2>2, <3>1, <3>3
      <4>2. /\ Cardinality(since[x]) \in Nat /\ Cardinality(since'[x]) \in Nat
            /\ Cardinality(since[x]) <= Cardinality(since'[x])
        BY <2>1, <3>1, UseProperties
      <4> QED
        BY <2>4, <4>1, <4>2
    <3> QED
      BY <3>2, <3>3
  <2> QED
    BY <2>1, <2>5, <2>6, <2>7, <2>8 DEF RecencyInv
<1>2. ASSUME NEW c \in Clients, NEW k \in Keys, ExecuteLruGet(c, k)
      PROVE  RecencyInv'
  <2>1. /\ data_store' = MovedToEnd(data_store, k) /\ Use(k)
        /\ Holds(data_store, k) /\ running'
    BY <1>2 DEF ExecuteLruGet, Free
  <2>2. KeysOf(data_store') = KeysOf(data_store) /\ k \in KeysOf(data_store)
    BY <1>t, <2>1, MovedListed DEF KeysOf, Holds
  <2>3. \A x, y \in Keys : Precedes(data_store'.order, x, y)
              => x # k /\ (y = k \/ Precedes(data_store.order, x, y))
    <3>1. data_store'.order = Append(Without(data_store.order, k), k)
      <4>1. data_store = [order |-> data_store.order, value |-> data_store.value]
        BY <1>t DEF Listed, Dict
      <4> QED
        BY <2>1, <4>1 DEF MovedToEnd
    <3> QED
      BY <1>t, <3>1, MovedPrecedes
  <2>4. MaxCapacity \in Nat
    BY MaxCapacityAssumption
  <2>5. KeysOf(data_store') \subseteq used'
    BY <1>i, <2>1, <2>2, UseProperties
  <2>6. \A x, y \in Keys : Precedes(data_store'.order, x, y) => y \in since'[x]
    BY <1>i, <2>1, <2>3, UseProperties
  <2>7. \A x \in Keys : x \notin since'[x] /\ IsFiniteSet(since'[x])
    BY <2>1, UseProperties
  <2>8. ASSUME NEW x \in used' \ KeysOf(data_store')
        PROVE  MaxCapacity <= Cardinality(since'[x])
    <3>1. x # k /\ x \in used /\ x \in Keys /\ x \notin KeysOf(data_store)
      BY <1>t, <2>1, <2>2, UseProperties
    <3>2. MaxCapacity <= Cardinality(since[x])
      BY <1>i, <3>1
    <3>3. /\ Cardinality(since[x]) \in Nat /\ Cardinality(since'[x]) \in Nat
          /\ Cardinality(since[x]) <= Cardinality(since'[x])
      BY <2>1, <3>1, UseProperties
    <3> QED
      BY <2>4, <3>2, <3>3
  <2> QED
    BY <2>1, <2>5, <2>6, <2>7, <2>8 DEF RecencyInv
<1>3. ASSUME NEW c \in Clients, NEW k \in Keys, Delete(c, k)
      PROVE  RecencyInv'
  <2>1. /\ data_store' = Dropped(data_store, k)
        /\ used' = used \ {k} /\ since' = since /\ running'
    BY <1>3 DEF Delete, Free
  <2>2. KeysOf(data_store') = KeysOf(data_store) \ {k}
    BY <1>t, <2>1, DroppedListed
  <2>3. \A x, y : Precedes(data_store'.order, x, y)
                     => Precedes(data_store.order, x, y)
    BY <1>t, <2>1, WithoutPrecedes DEF Dropped
  <2> QED
    BY <1>i, <2>1, <2>2, <2>3 DEF RecencyInv
<1>4. ASSUME NEW c \in Clients, LogEviction(c) \/ LogSet(c) \/ LogFails(c)
      PROVE  RecencyInv'
  BY <1>4, <1>s DEF LogEviction, LogSet, LogFails
<1>5. CASE Crash
  <2>1. data_store' = EmptyDict /\ used' = {} /\ since' = since
    BY <1>5 DEF Crash
  <2>2. \A x, y : ~Precedes(EmptyDict.order, x, y)
    BY EmptyListed, EmptySeq DEF Precedes
  <2> QED
    BY <1>i, <2>1, <2>2, EmptyListed DEF RecencyInv
<1>6. CASE Start
  <2>1. data_store' = EmptyDict /\ used' = used /\ since' = since
    BY <1>6 DEF Start, Recovered
  <2>2. data_store = EmptyDict /\ running'
    BY <1>6 DEF Start, RecencyInv
  <2> QED
    BY <1>i, <2>1, <2>2 DEF RecencyInv
<1>7. CASE UNCHANGED cacheVars
  BY <1>7, <1>s DEF cacheVars
<1> QED
  BY <1>1, <1>2, <1>3, <1>4, <1>5, <1>6, <1>7 DEF CacheNext

\* A key is evicted only when max_capacity other keys have been written or read
\* after its last use, for every number of connections and every capacity.
THEOREM InUseIsKept == CacheSpec => []RecentlyUsedKept
<1>1. CacheInit => RecencyInv
  <2> SUFFICES ASSUME CacheInit PROVE RecencyInv
    OBVIOUS
  <2>1. \A x, y : ~Precedes(EmptyDict.order, x, y)
    BY EmptyListed, EmptySeq DEF Precedes
  <2>2. \A x \in Keys : since[x] = {} /\ IsFiniteSet(since[x])
    BY FS_EmptySet DEF CacheInit
  <2> QED
    BY <2>1, <2>2, EmptyListed DEF CacheInit, RecencyInv
<1>2. CacheTypeOK /\ RecencyInv => RecentlyUsedKept
  <2> SUFFICES ASSUME CacheTypeOK, RecencyInv, NEW k \in used,
                      Cardinality(since[k]) < MaxCapacity
               PROVE  Holds(data_store, k)
    BY DEF RecentlyUsedKept
  <2>1. k \in Keys /\ IsFiniteSet(since[k])
    BY TypeByParts DEF RecencyInv
  <2>2. Cardinality(since[k]) \in Nat /\ MaxCapacity \in Nat
    BY <2>1, FS_CardinalityType, MaxCapacityAssumption
  <2>3. k \in KeysOf(data_store)
    BY <2>2 DEF RecencyInv
  <2> QED
    BY <2>3 DEF KeysOf
<1> QED
  BY <1>1, <1>2, RecencyNext, TypeCorrect, PTL DEF CacheSpec

-----------------------------------------------------------------------------
(* The file *)

\* What the file will say of key k when client c has appended its entries.
Announced(c, k) == IF k = due[c].key THEN due[c].value ELSE NoValue

\* A key that is not unsure has entries due from one client at most, which
\* announce its value in memory; and what the file says of it when there is none.
FileInv ==
    /\ ~running => data_store = EmptyDict
    /\ \A c \in Clients : due[c].entry = "DEL" => due[c].evicted # due[c].key
    /\ \A k \in Keys \ unsure : \A b, c \in Clients :
          k \in DueFrom(b) /\ k \in DueFrom(c) => b = c
    /\ \A k \in Keys \ unsure : \A c \in Clients :
          k \in DueFrom(c) => data_store.value[k] = Announced(c, k)
    /\ FileFollowsMemory

LEMMA FileTypes ==
    ASSUME CacheTypeOK
    PROVE  /\ Listed(data_store) /\ Len(data_store.order) <= MaxCapacity
           /\ data_store.value \in [Keys -> Values \cup {NoValue}]
           /\ logged \in [Keys -> Values \cup {NoValue}]
           /\ due \in [Clients -> {Nothing} \cup Entry]
           /\ \A c \in Clients : DueOK(due[c])
BY TypeByParts DEF Listed, Dict

\* The keys a client has due, by what it has still to append.
LEMMA DueKeys ==
    ASSUME NEW r, DueOK(r)
    PROVE  {r.key, r.evicted} \ {NoKey} =
              CASE r.entry = "none" -> {}
                [] r.entry = "SET"  -> {r.key}
                [] r.entry = "DEL"  -> {r.key, r.evicted}
<1>1. NoKey \notin Keys
  BY AbsenceAssumption
<1>2. CASE r.entry = "none"
  <2>1. r.key = NoKey /\ r.evicted = NoKey
    BY <1>2, DueFields DEF Nothing
  <2> QED
    BY <1>2, <2>1
<1>3. CASE r.entry = "SET"
  BY <1>1, <1>3, DueFields
<1>4. CASE r.entry = "DEL"
  BY <1>1, <1>4, DueFields
<1> QED
  BY <1>2, <1>3, <1>4, DueFields

LEMMA FileNext == CacheTypeOK /\ FileInv /\ [CacheNext]_cacheVars => FileInv'
<1> SUFFICES ASSUME CacheTypeOK, FileInv, [CacheNext]_cacheVars PROVE FileInv'
  OBVIOUS
<1>t. /\ Listed(data_store) /\ Len(data_store.order) <= MaxCapacity
      /\ data_store.value \in [Keys -> Values \cup {NoValue}]
      /\ logged \in [Keys -> Values \cup {NoValue}]
      /\ due \in [Clients -> {Nothing} \cup Entry]
      /\ \A c \in Clients : DueOK(due[c])
  BY FileTypes
<1>i. /\ ~running => data_store = EmptyDict
      /\ \A c \in Clients : due[c].entry = "DEL" => due[c].evicted # due[c].key
      /\ \A k \in Keys \ unsure : \A b, c \in Clients :
            k \in DueFrom(b) /\ k \in DueFrom(c) => b = c
      /\ \A k \in Keys \ unsure : \A c \in Clients :
            k \in DueFrom(c) => data_store.value[k] = Announced(c, k)
      /\ \A k \in Keys \ (Due \cup unsure) : logged[k] = data_store.value[k]
  BY DEF FileInv, FileFollowsMemory
<1>k. NoKey \notin Keys /\ NoValue \notin Values
  BY AbsenceAssumption
\* One key after the step: what FileInv' says of it.
<1> DEFINE Owned(k) == \A b, c \in Clients :
                          k \in DueFrom(b)' /\ k \in DueFrom(c)' => b = c
           Told(k)  == \A c \in Clients :
                          k \in DueFrom(c)' => data_store'.value[k] = Announced(c, k)'
           Kept(k)  == k \in Due' \/ logged'[k] = data_store'.value[k]
<1>p. ASSUME ~running' => data_store' = EmptyDict,
             \A c \in Clients : due'[c].entry = "DEL" => due'[c].evicted # due'[c].key,
             \A k \in Keys \ unsure' : Owned(k) /\ Told(k) /\ Kept(k)
      PROVE  FileInv'
  BY <1>p DEF FileInv, FileFollowsMemory
<1>q. \A k : k \in Due' <=> \E c \in Clients : k \in DueFrom(c)'
  BY DEF Due
<1>r. \A k : k \in Due <=> \E c \in Clients : k \in DueFrom(c)
  BY DEF Due
\* A client whose entry stays has the same keys due.
<1>u. ASSUME NEW c \in Clients, due'[c] = due[c]
      PROVE  /\ DueFrom(c)' = DueFrom(c)
             /\ \A k : Announced(c, k)' = Announced(c, k)
  BY <1>u DEF DueFrom, Announced
<1>n. DueOK(Nothing) /\ {Nothing.key, Nothing.evicted} \ {NoKey} = {}
  BY DEF DueOK, Nothing
<1>1. ASSUME NEW c \in Clients, NEW k \in Keys, NEW v \in Values,
             ExecuteLruSet(c, k, v)
      PROVE  FileInv'
  <2> DEFINE e == Victim(data_store, k)
             r == [entry |-> FirstEntry(e), key |-> k, value |-> v, evicted |-> e]
  <2>1. /\ data_store'.value[k] = v
        /\ \A x \in Keys \ {k} : data_store'.value[x]
              = IF x = e THEN NoValue ELSE data_store.value[x]
        /\ running' /\ logged' = logged
    BY <1>1, <1>t, PutListed DEF ExecuteLruSet, Free
  <2>2. e \in Keys \cup {NoKey} /\ e # k
    BY <1>t, <1>k, VictimType, VictimProperties
  <2>3. /\ due' = [due EXCEPT ![c] = r] /\ due[c].entry = "none"
        /\ unsure' = (unsure \ ({k, e} \ {NoKey})) \cup (({k, e} \ {NoKey}) \cap Due)
    BY <1>1 DEF ExecuteLruSet, Free, Change
  <2> HIDE DEF e
  <2>4. due'[c] = r /\ \A b \in Clients \ {c} : due'[b] = due[b]
    BY <1>t, <2>3
  <2>5. DueFrom(c)' = {k, e} \ {NoKey} /\ DueFrom(c) = {}
    <3>1. DueFrom(c)' = {r.key, r.evicted} \ {NoKey}
      BY <2>4 DEF DueFrom
    <3>2. DueFrom(c) = {}
      BY <1>t, <2>3, DueKeys DEF DueFrom
    <3> QED
      BY <3>1, <3>2
  <2>6. \A x : Announced(c, x)' = IF x = k THEN v ELSE NoValue
    BY <2>4 DEF Announced
  <2>7. \A b \in Clients : due'[b].entry = "DEL" => due'[b].evicted # due'[b].key
    BY <1>i, <2>2, <2>4
  <2> HIDE DEF r
  <2>8. ASSUME NEW x \in Keys \ unsure' PROVE Owned(x) /\ Told(x) /\ Kept(x)
    <3>1. CASE x \in {k, e}
      <4>1. x \notin Due /\ x \in DueFrom(c)'
        BY <1>k, <2>3, <2>5, <2>8, <3>1
      <4>2. \A b \in Clients \ {c} : x \notin DueFrom(b)'
        BY <1>r, <1>u, <2>4, <4>1
      <4>3. Owned(x) /\ Kept(x)
        BY <1>q, <4>1, <4>2
      <4>4. data_store'.value[x] = IF x = k THEN v ELSE NoValue
        BY <2>1, <3>1
      <4> QED
        BY <2>6, <4>2, <4>3, <4>4
    <3>2. CASE x \notin {k, e}
      <4>1. x \notin unsure /\ x \notin DueFrom(c)'
        BY <2>3, <2>5, <2>8, <3>2
      <4>2. data_store'.value[x] = data_store.value[x]
        BY <2>1, <3>2
      <4>3. Owned(x) /\ Told(x)
        BY <1>i, <1>u, <2>4, <4>1, <4>2
      <4>4. Kept(x)
        BY <1>i, <1>q, <1>r, <1>u, <2>1, <2>4, <2>5, <4>1, <4>2
      <4> QED
        BY <4>3, <4>4
    <3> QED
      BY <3>1, <3>2
  <2> HIDE DEF Owned, Told, Kept
  <2> QED
    BY <1>p, <2>1, <2>7, <2>8
<1>2. ASSUME NEW c \in Clients, NEW k \in Keys, ExecuteLruGet(c, k)
      PROVE  FileInv'
  <2>1. /\ data_store'.value = data_store.value /\ running'
        /\ logged' = logged /\ due' = due /\ unsure' = unsure
    BY <1>2, <1>t, MovedListed DEF ExecuteLruGet, Free
  <2>2. Due' = Due
    BY <2>1 DEF Due, DueFrom
  <2>3. \A x \in Keys \ unsure' : Owned(x) /\ Told(x) /\ Kept(x)
    BY <1>i, <1>u, <2>1, <2>2
  <2> HIDE DEF Owned, Told, Kept
  <2> QED
    BY <1>p, <1>i, <2>1, <2>3
<1>3. ASSUME NEW c \in Clients, NEW k \in Keys, Delete(c, k)
      PROVE  FileInv'
  <2>1. /\ data_store'.value = [data_store.value EXCEPT ![k] = NoValue]
        /\ running' /\ due' = due
        /\ \/ /\ logged' = [logged EXCEPT ![k] = NoValue]
              /\ unsure' = (unsure \ {k}) \cup ({k} \cap Due)
           \/ /\ logged' = logged
              /\ unsure' = unsure \cup {k}
    BY <1>3, <1>t, DroppedListed DEF Delete, Free, Change
  <2>2. Due' = Due /\ \A b \in Clients : due'[b] = due[b]
    BY <2>1 DEF Due, DueFrom
  <2>3. ASSUME NEW x \in Keys \ unsure' PROVE Owned(x) /\ Told(x) /\ Kept(x)
    <3>1. CASE x = k
      <4>1. x \notin Due /\ logged'[x] = NoValue /\ data_store'.value[x] = NoValue
        BY <1>t, <2>1, <2>3, <3>1
      <4>2. \A b \in Clients : x \notin DueFrom(b)'
        BY <1>q, <2>2, <4>1
      <4> QED
        BY <4>1, <4>2
    <3>2. CASE x # k
      <4>1. /\ x \notin unsure /\ logged'[x] = logged[x]
            /\ data_store'.value[x] = data_store.value[x]
        BY <1>t, <2>1, <2>3, <3>2
      <4>2. Owned(x) /\ Told(x)
        BY <1>i, <1>u, <2>2, <4>1
      <4>3. Kept(x)
        BY <1>i, <2>2, <4>1
      <4> QED
        BY <4>2, <4>3
    <3> QED
      BY <3>1, <3>2
  <2> HIDE DEF Owned, Told, Kept
  <2> QED
    BY <1>p, <1>i, <2>1, <2>2, <2>3
<1>4. ASSUME NEW c \in Clients, LogEviction(c) PROVE FileInv'
  <2> DEFINE r == [entry |-> "SET", key |-> due[c].key,
                   value |-> due[c].value, evicted |-> NoKey]
             e == due[c].evicted
  <2>1. /\ DueOK(r) /\ due' = [due EXCEPT ![c] = r] /\ e \in Keys
    BY <1>4, AfterEviction
  <2>2. /\ logged' = [logged EXCEPT ![e] = NoValue]
        /\ running' = running /\ data_store' = data_store /\ unsure' = unsure
        /\ due[c].entry = "DEL"
    BY <1>4 DEF LogEviction
  <2>3. due'[c] = r /\ \A b \in Clients \ {c} : due'[b] = due[b]
    BY <1>t, <2>1
  <2>4. DueFrom(c) = {due[c].key, e} /\ DueFrom(c)' = {due[c].key} /\ e # due[c].key
    <3>1. DueFrom(c) = {due[c].key, e}
      BY <1>t, <2>2, DueKeys DEF DueFrom
    <3>2. DueFrom(c)' = {due[c].key}
      BY <2>1, <2>3, DueKeys DEF DueFrom
    <3> QED
      BY <1>i, <2>2, <3>1, <3>2
  <2>5. \A x : Announced(c, x)' = Announced(c, x)
    BY <2>3 DEF Announced
  <2>6. \A b \in Clients : due'[b].entry = "DEL" => due'[b].evicted # due'[b].key
    BY <1>i, <2>3
  <2>7. Announced(c, e) = NoValue
    BY <2>4 DEF Announced
  <2> HIDE DEF r, e
  <2>8. ASSUME NEW x \in Keys \ unsure' PROVE Owned(x) /\ Told(x) /\ Kept(x)
    <3>1. Owned(x) /\ Told(x)
      BY <1>i, <1>u, <2>2, <2>3, <2>4, <2>5, <2>8
    <3>2. CASE x = e
      <4>1. data_store.value[x] = NoValue
        BY <1>i, <2>2, <2>4, <2>7, <2>8, <3>2
      <4> QED
        BY <1>t, <2>2, <3>1, <3>2, <4>1
    <3>3. CASE x # e
      <4>1. x \in Due' <=> x \in Due
        BY <1>q, <1>r, <1>u, <2>3, <2>4, <3>3
      <4>2. logged'[x] = logged[x]
        BY <1>t, <2>2, <3>3
      <4> QED
        BY <1>i, <2>2, <2>8, <3>1, <4>1, <4>2
    <3> QED
      BY <3>2, <3>3
  <2> HIDE DEF Owned, Told, Kept
  <2> QED
    BY <1>p, <1>i, <2>2, <2>6, <2>8
<1>5. ASSUME NEW c \in Clients, LogSet(c) PROVE FileInv'
  <2>1. /\ logged' = [logged EXCEPT ![due[c].key] = due[c].value]
        /\ due' = [due EXCEPT ![c] = Nothing]
        /\ running' = running /\ data_store' = data_store /\ unsure' = unsure
        /\ due[c].entry = "SET"
    BY <1>5 DEF LogSet
  <2>2. due'[c] = Nothing /\ \A b \in Clients \ {c} : due'[b] = due[b]
    BY <1>t, <2>1
  <2>3. DueFrom(c) = {due[c].key} /\ DueFrom(c)' = {}
    <3>1. DueFrom(c) = {due[c].key}
      BY <1>t, <2>1, DueKeys DEF DueFrom
    <3>2. DueFrom(c)' = {}
      BY <1>n, <2>2 DEF DueFrom
    <3> QED
      BY <3>1, <3>2
  <2>4. \A b \in Clients : due'[b].entry = "DEL" => due'[b].evicted # due'[b].key
    BY <1>i, <2>2 DEF Nothing
  <2>5. Announced(c, due[c].key) = due[c].value
    BY DEF Announced
  <2>6. ASSUME NEW x \in Keys \ unsure' PROVE Owned(x) /\ Told(x) /\ Kept(x)
    <3>1. Owned(x) /\ Told(x)
      BY <1>i, <1>u, <2>1, <2>2, <2>3, <2>6
    <3>2. CASE x = due[c].key
      <4>1. data_store.value[x] = due[c].value
        BY <1>i, <2>1, <2>3, <2>5, <2>6, <3>2
      <4> QED
        BY <1>t, <2>1, <3>1, <3>2, <4>1
    <3>3. CASE x # due[c].key
      <4>1. x \in Due' <=> x \in Due
        BY <1>q, <1>r, <1>u, <2>2, <2>3, <3>3
      <4>2. logged'[x] = logged[x]
        BY <1>t, <2>1, <3>3
      <4> QED
        BY <1>i, <2>1, <2>6, <3>1, <4>1, <4>2
    <3> QED
      BY <3>2, <3>3
  <2> HIDE DEF Owned, Told, Kept
  <2> QED
    BY <1>p, <1>i, <2>1, <2>4, <2>6
<1>6. ASSUME NEW c \in Clients, LogFails(c) PROVE FileInv'
  <2>1. /\ due' = [due EXCEPT ![c] = Nothing]
        /\ unsure' = unsure \cup DueFrom(c)
        /\ running' = running /\ data_store' = data_store /\ logged' = logged
    BY <1>6 DEF LogFails
  <2>2. due'[c] = Nothing /\ \A b \in Clients \ {c} : due'[b] = due[b]
    BY <1>t, <2>1
  <2>3. DueFrom(c)' = {}
    BY <1>n, <2>2 DEF DueFrom
  <2>4. \A b \in Clients : due'[b].entry = "DEL" => due'[b].evicted # due'[b].key
    BY <1>i, <2>2 DEF Nothing
  <2>5. ASSUME NEW x \in Keys \ unsure' PROVE Owned(x) /\ Told(x) /\ Kept(x)
    <3>1. x \notin unsure /\ x \notin DueFrom(c)
      BY <2>1, <2>5
    <3>2. Owned(x) /\ Told(x)
      BY <1>i, <1>u, <2>1, <2>2, <2>3, <3>1
    <3>3. x \in Due' <=> x \in Due
      BY <1>q, <1>r, <1>u, <2>2, <2>3, <3>1
    <3> QED
      BY <1>i, <2>1, <3>1, <3>2, <3>3
  <2> HIDE DEF Owned, Told, Kept
  <2> QED
    BY <1>p, <1>i, <2>1, <2>4, <2>5
<1>7. CASE Crash
  <2>1. /\ data_store' = EmptyDict /\ logged' = logged
        /\ \A x \in Keys \ unsure' : logged[x] = NoValue
        /\ \A b \in Clients : due'[b] = Nothing
    BY <1>7 DEF Crash
  <2>2. \A b \in Clients : DueFrom(b)' = {}
    BY <1>n, <2>1 DEF DueFrom
  <2>3. \A b \in Clients : due'[b].entry = "DEL" => due'[b].evicted # due'[b].key
    BY <2>1 DEF Nothing
  <2>4. \A x \in Keys : data_store'.value[x] = NoValue
    BY <2>1, EmptyListed DEF NoValues
  <2>5. \A x \in Keys \ unsure' : Owned(x) /\ Told(x) /\ Kept(x)
    BY <2>1, <2>2, <2>4
  <2> HIDE DEF Owned, Told, Kept
  <2> QED
    BY <1>p, <2>1, <2>3, <2>5
<1>8. CASE Start \/ UNCHANGED cacheVars
  <2>1. /\ data_store' = data_store /\ logged' = logged /\ due' = due
        /\ unsure' = unsure
        /\ ~running' => data_store' = EmptyDict
    BY <1>8, <1>i DEF Start, Recovered, cacheVars
  <2>2. Due' = Due
    BY <2>1 DEF Due, DueFrom
  <2>3. \A x \in Keys \ unsure' : Owned(x) /\ Told(x) /\ Kept(x)
    BY <1>i, <1>u, <2>1, <2>2
  <2> HIDE DEF Owned, Told, Kept
  <2> QED
    BY <1>p, <1>i, <2>1, <2>3
<1> QED
  BY <1>1, <1>2, <1>3, <1>4, <1>5, <1>6, <1>7, <1>8 DEF CacheNext

\* The file says of a key what memory does, once the entries of its last change
\* are appended and unless two threads changed the key at once, an entry failed or
\* the process ended: for every number of connections, in every order of appending.
THEOREM FileFollows == CacheSpec => []FileFollowsMemory
<1>1. CacheInit => FileInv
  <2> SUFFICES ASSUME CacheInit PROVE FileInv
    OBVIOUS
  <2>1. \A c \in Clients : due[c] = Nothing /\ DueFrom(c) = {}
    BY DEF CacheInit, DueFrom, Nothing
  <2>2. FileFollowsMemory
    BY EmptyListed DEF CacheInit, FileFollowsMemory
  <2> QED
    BY <2>1, <2>2 DEF CacheInit, FileInv, Nothing
<1>2. FileInv => FileFollowsMemory
  BY DEF FileInv
<1> QED
  BY <1>1, <1>2, FileNext, TypeCorrect, PTL DEF CacheSpec

=============================================================================
