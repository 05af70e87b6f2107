------------------------ MODULE CircuitBreakerProofs ------------------------
(***************************************************************************)
(* The breaker manager for every threshold and however many calls and      *)
(* removals there are: its breaker goes through the cycle of BreakerCycle, *)
(* gives one trial at a time, and undisturbed calls report what they did.  *)
(***************************************************************************)
EXTENDS CircuitBreaker, BreakerProofs, SequenceTheorems

\* Every breaker created is well formed, the removed ones too.
HeapOK == \A o \in DOMAIN heap : WellFormed(heap[o])

\* What an undisturbed call knows of its breaker at each of its points.
CallsOK ==
    \A m \in Method :
        LET c == call[m]
        IN  ~c.mixed =>
              /\ At(m, "apply") => c.old = heap[c.object].state
              /\ At(m, "new")   => /\ c.old = c.before
                                   /\ heap[c.object].state = c.after
              /\ At(m, "alert") => /\ c.old = c.before /\ c.new = c.after
                                   /\ c.old # c.new

IInv == TypeOK /\ HeapOK /\ OneTrial /\ CallsOK

LEMMA InitInv == Init => IInv
BY LongCallsAssumption, BoundAssumption, EmptySeq
DEF Init, IInv, TypeOK, HeapOK, OneTrial, CallsOK, NoCall, CallType, At,
    BreakerState, Method

-----------------------------------------------------------------------------
(* Steps *)

\* The method a thread applies gives a well formed breaker, and it gives a
\* trial exactly when it leaves OPEN.
LEMMA EffectOK ==
    ASSUME NEW m \in Method, NEW b \in BreakerType, WellFormed(b)
    PROVE  /\ Effect(m, b) \in BreakerType /\ WellFormed(Effect(m, b))
           /\ GivesTrial(m, b) <=> /\ b.state = "OPEN"
                                   /\ Effect(m, b).state = "HALF_OPEN"
<1>1. Effect(m, b) \in BreakerType /\ WellFormed(Effect(m, b))
  BY BreakerSteps DEF Effect
<1>2. GivesTrial(m, b) <=> b.state = "OPEN" /\ Effect(m, b).state = "HALF_OPEN"
  BY ThresholdAssumption
  DEF GivesTrial, Effect, RecordSuccess, RecordFailure, AfterAsking, MayAssign,
      WellFormed, BreakerType, BreakerState, NewBreaker, Method
<1> QED
  BY <1>1, <1>2

LEMMA GetBreakerInv ==
    ASSUME IInv, NEW m \in Method, GetBreaker(m) PROVE IInv'
<1> USE DEF IInv
<1> DEFINE N == Len(heap) + 1
<1>1. Len(heap) \in Nat /\ DOMAIN heap = 1 .. Len(heap) /\ DOMAIN permits = DOMAIN heap
  BY LenProperties DEF TypeOK
<1>2. \/ /\ current = 0 /\ current' = N
         /\ heap' = Append(heap, NewBreaker) /\ permits' = Append(permits, 0)
      \/ /\ current # 0 /\ current' = current
         /\ heap' = heap /\ permits' = permits
  BY DEF GetBreaker
<1>3. /\ heap' \in Seq(BreakerType) /\ permits' \in Seq(Nat)
      /\ Len(permits') = Len(heap')
      /\ Len(heap') \in Nat /\ Len(heap') >= Len(heap)
      /\ DOMAIN heap' = 1 .. Len(heap')
      /\ \A o \in DOMAIN heap : heap'[o] = heap[o] /\ permits'[o] = permits[o]
      /\ \A o \in DOMAIN heap' \ DOMAIN heap :
            heap'[o] = NewBreaker /\ permits'[o] = 0
      /\ current' \in 1 .. Len(heap')
  <2>1. NewBreaker \in BreakerType
    BY DEF NewBreaker, BreakerType, BreakerState
  <2>2. heap \in Seq(BreakerType) /\ permits \in Seq(Nat)
        /\ Len(permits) = Len(heap) /\ current \in 0 .. Len(heap)
    BY DEF TypeOK
  <2>3. CASE heap' = heap /\ permits' = permits /\ current # 0 /\ current' = current
    BY <2>2, <2>3, <1>1
  <2>4. CASE /\ current' = N
             /\ heap' = Append(heap, NewBreaker) /\ permits' = Append(permits, 0)
    <3>1. /\ heap' \in Seq(BreakerType) /\ Len(heap') = N
          /\ \A o \in 1 .. Len(heap) : heap'[o] = heap[o]
          /\ heap'[N] = NewBreaker
      BY <2>1, <2>2, <2>4, AppendProperties
    <3>2. /\ permits' \in Seq(Nat) /\ Len(permits') = N
          /\ \A o \in 1 .. Len(heap) : permits'[o] = permits[o]
          /\ permits'[N] = 0
      BY <2>2, <2>4, AppendProperties
    <3>3. DOMAIN heap' = 1 .. N
      BY <3>1, LenProperties
    <3> QED
      BY <1>1, <2>4, <3>1, <3>2, <3>3
  <2> QED
    BY <1>2, <2>3, <2>4
<1>4. /\ call' = [call EXCEPT ![m] =
                     [NoCall EXCEPT !.pc = "old", !.object = current']]
      /\ UNCHANGED <<transitions, told, removals>> /\ calls' = calls + 1
  BY DEF GetBreaker, Step
<1>5. /\ call'[m] = [NoCall EXCEPT !.pc = "old", !.object = current']
      /\ call'[m] \in CallType
      /\ \A n \in Method \ {m} : call'[n] = call[n]
  <2> DEFINE c == [NoCall EXCEPT !.pc = "old", !.object = current']
  <2>1. c \in CallType
    <3>1. current' \in Nat
      BY <1>3
    <3> QED
      BY <3>1 DEF CallType, NoCall, BreakerState
  <2>2. call \in [Method -> CallType] /\ call' = [call EXCEPT ![m] = c]
    BY <1>4 DEF TypeOK
  <2> HIDE DEF c
  <2>3. call'[m] = c /\ \A n \in Method \ {m} : call'[n] = call[n]
    BY <2>2
  <2> QED
    BY <2>1, <2>3 DEF c
<1>6. TypeOK'
  <2>1. call' \in [Method -> CallType]
    BY <1>4, <1>5 DEF TypeOK
  <2>2. \A n \in Method : ~At(n, "idle")' => Object(n)' \in DOMAIN heap'
    <3> SUFFICES ASSUME NEW n \in Method, ~At(n, "idle")'
                 PROVE  Object(n)' \in DOMAIN heap'
      OBVIOUS
    <3>1. CASE n = m
      <4>1. call'[m].object = current'
        BY <1>5 DEF NoCall
      <4> QED
        BY <3>1, <4>1, <1>3 DEF Object
    <3>2. CASE n # m
      <4>1. Object(n) \in DOMAIN heap /\ Object(n)' = Object(n)
        BY <3>2, <1>5 DEF TypeOK, At, Object
      <4> QED
        BY <4>1, <1>1, <1>3
    <3> QED
      BY <3>1, <3>2
  <2> QED
    BY <1>3, <1>4, <2>1, <2>2 DEF TypeOK
<1>7. HeapOK'
  BY <1>3, ThresholdAssumption DEF HeapOK, WellFormed, NewBreaker
<1>8. OneTrial'
  BY <1>1, <1>3 DEF OneTrial, NewBreaker
<1>9. CallsOK'
  <2> SUFFICES ASSUME NEW n \in Method, ~call'[n].mixed
               PROVE  /\ At(n, "apply")' => call'[n].old = heap'[call'[n].object].state
                      /\ At(n, "new")' => /\ call'[n].old = call'[n].before
                                          /\ heap'[call'[n].object].state = call'[n].after
                      /\ At(n, "alert")' => /\ call'[n].old = call'[n].before
                                            /\ call'[n].new = call'[n].after
                                            /\ call'[n].old # call'[n].new
    BY DEF CallsOK
  <2>1. CASE n = m
    BY <2>1, <1>5 DEF At, NoCall
  <2>2. CASE n # m
    <3>1. call'[n] = call[n]
      BY <2>2, <1>5
    <3>2. call[n].pc # "idle" => /\ call[n].object \in DOMAIN heap
                                 /\ heap'[call[n].object] = heap[call[n].object]
      BY <1>3 DEF TypeOK, At, Object
    <3> QED
      BY <3>1, <3>2 DEF CallsOK, At
  <2> QED
    BY <2>1, <2>2
<1> QED
  BY <1>6, <1>7, <1>8, <1>9

\* A step of call m that leaves the breakers alone.
LEMMA ReadInv ==
    ASSUME IInv, NEW m \in Method,
           ReadOld(m) \/ ReadNew(m) \/ PublishAlert(m)
    PROVE  IInv'
<1> USE DEF IInv
<1>1. UNCHANGED <<heap, current, permits, transitions, calls, removals>>
  BY DEF ReadOld, ReadNew, PublishAlert
<1>2. /\ call' \in [Method -> CallType]
      /\ \A n \in Method \ {m} : call'[n] = call[n]
      /\ ~At(m, "idle") /\ Object(m) \in DOMAIN heap
      /\ call'[m].pc # "idle" => call'[m].object = Object(m)
  <2>1. ~At(m, "idle") /\ Object(m) \in DOMAIN heap
    <3>1. ~At(m, "idle")
      BY DEF ReadOld, ReadNew, PublishAlert, At
    <3> QED
      BY <3>1 DEF TypeOK
  <2>2. heap[Object(m)].state \in BreakerState
    <3>1. heap[Object(m)] \in BreakerType
      BY <2>1, ElementOfSeq, LenProperties DEF TypeOK
    <3> QED
      BY <3>1 DEF BreakerType
  <2>3. call[m] \in CallType /\ NoCall \in CallType
    BY DEF TypeOK, CallType, NoCall, BreakerState
  <2>4. CASE ReadOld(m)
    <3> DEFINE c == [call[m] EXCEPT !.pc = "apply", !.old = heap[Object(m)].state]
    <3>1. c \in CallType /\ c.object = Object(m)
      BY <2>2, <2>3 DEF CallType, Object
    <3>2. call' = [call EXCEPT ![m] = c]
      BY <2>4 DEF ReadOld, Step
    <3> QED
      BY <2>1, <3>1, <3>2 DEF TypeOK
  <2>5. CASE ReadNew(m)
    <3> DEFINE s == heap[Object(m)].state
               c == IF s # call[m].old
                    THEN [call[m] EXCEPT !.pc = "alert", !.new = s] ELSE NoCall
    <3>1. c \in CallType /\ (c.pc # "idle" => c.object = Object(m))
      BY <2>2, <2>3 DEF CallType, Object, NoCall
    <3>2. call' = [call EXCEPT ![m] = c]
      BY <2>5 DEF ReadNew, Step
    <3> QED
      BY <2>1, <3>1, <3>2 DEF TypeOK
  <2>6. CASE PublishAlert(m)
    <3>1. call' = [call EXCEPT ![m] = NoCall]
      BY <2>6 DEF PublishAlert, Step
    <3> QED
      BY <2>1, <2>3, <3>1 DEF TypeOK, NoCall
  <2> QED
    BY <2>4, <2>5, <2>6
<1>3. TypeOK'
  <2>1. call' \in [Method -> CallType]
    BY <1>2
  <2>2. \A n \in Method : ~At(n, "idle")' => Object(n)' \in DOMAIN heap'
    BY <1>1, <1>2 DEF TypeOK, At, Object
  <2>3. told' \subseteq Report
    <3>1. CASE PublishAlert(m)
      <4>1. Object(m) \in Nat /\ call[m].old \in BreakerState /\ call[m].new \in BreakerState
        BY DEF TypeOK, CallType, Object
      <4> QED
        BY <3>1, <4>1 DEF PublishAlert, TypeOK, Report
    <3>2. CASE ~PublishAlert(m)
      BY <3>2 DEF ReadOld, ReadNew, TypeOK
    <3> QED
      BY <3>1, <3>2
  <2> QED
    BY <1>1, <2>1, <2>2, <2>3 DEF TypeOK
<1>4. HeapOK' /\ OneTrial'
  BY <1>1 DEF HeapOK, OneTrial
<1>5. CallsOK'
  <2> SUFFICES ASSUME NEW n \in Method, ~call'[n].mixed
               PROVE  /\ At(n, "apply")' => call'[n].old = heap'[call'[n].object].state
                      /\ At(n, "new")' => /\ call'[n].old = call'[n].before
                                          /\ heap'[call'[n].object].state = call'[n].after
                      /\ At(n, "alert")' => /\ call'[n].old = call'[n].before
                                            /\ call'[n].new = call'[n].after
                                            /\ call'[n].old # call'[n].new
    BY DEF CallsOK
  <2>1. CASE n # m
    BY <2>1, <1>1, <1>2 DEF CallsOK, TypeOK, At
  <2>2. CASE n = m /\ ReadOld(m)
    BY <2>2, <1>1, <1>2 DEF ReadOld, Step, At, Object, TypeOK, CallType
  <2>3. CASE n = m /\ ReadNew(m)
    <3>1. call[m].mixed \/ (call[m].old = call[m].before
                              /\ heap[Object(m)].state = call[m].after)
      BY <2>3 DEF CallsOK, ReadNew, Object
    <3> QED
      BY <2>3, <3>1, <1>1, <1>2 DEF ReadNew, Step, At, Object, TypeOK, CallType, NoCall
  <2>4. CASE n = m /\ PublishAlert(m)
    BY <2>4, <1>1 DEF PublishAlert, Step, At, TypeOK, NoCall
  <2> QED
    BY <2>1, <2>2, <2>3, <2>4
<1> QED
  BY <1>3, <1>4, <1>5

LEMMA ApplyInv ==
    ASSUME IInv, NEW m \in Method, Apply(m) PROVE IInv'
<1> USE DEF IInv
<1> DEFINE o == Object(m)
           b == heap[o]
           c == Effect(m, b)
           p == IF c.state # "HALF_OPEN" THEN 0
                ELSE permits[o] + (IF GivesTrial(m, b) THEN 1 ELSE 0)
           mine   == [call[m] EXCEPT !.pc = "new", !.before = b.state,
                                     !.after = c.state]
           its(n) == [call[n] EXCEPT !.mixed = @ \/
                         (Object(n) = o /\ call[n].pc \in {"apply", "new"})]
<1>1. /\ At(m, "apply")
      /\ heap' = [heap EXCEPT ![o] = c]
      /\ permits' = [permits EXCEPT ![o] = p]
      /\ transitions' = transitions \cup
            {[object |-> o, old |-> b.state, new |-> c.state]}
      /\ call' = [n \in Method |-> IF n = m THEN mine ELSE its(n)]
      /\ UNCHANGED <<current, told, calls, removals>>
  BY DEF Apply
<1>2. /\ o \in DOMAIN heap /\ o \in 1 .. Len(heap) /\ o \in 1 .. Len(permits) /\ o \in Nat
      /\ b \in BreakerType /\ WellFormed(b)
      /\ permits[o] = IF b.state = "HALF_OPEN" THEN 1 ELSE 0
  <2>1. o \in DOMAIN heap
    BY <1>1 DEF TypeOK, At
  <2> QED
    BY <2>1, ElementOfSeq, LenProperties DEF TypeOK, HeapOK, OneTrial
<1>3. /\ c \in BreakerType /\ WellFormed(c)
      /\ GivesTrial(m, b) <=> b.state = "OPEN" /\ c.state = "HALF_OPEN"
  BY <1>2, EffectOK
<1>4. c.state = "HALF_OPEN" => b.state \in {"OPEN", "HALF_OPEN"}
  BY <1>2, ThresholdAssumption
  DEF Effect, RecordSuccess, RecordFailure, AfterAsking, MayAssign, WellFormed,
      BreakerType, BreakerState, NewBreaker, Method
<1>5. p = IF c.state = "HALF_OPEN" THEN 1 ELSE 0
  <2> HIDE DEF b, c, o
  <2> QED
    BY <1>2, <1>3, <1>4
<1> HIDE DEF p
<1>6. /\ heap' \in Seq(BreakerType) /\ Len(heap') = Len(heap)
      /\ DOMAIN heap' = DOMAIN heap
      /\ permits' \in Seq(Nat) /\ Len(permits') = Len(heap)
      /\ \A i \in DOMAIN heap : /\ heap'[i] = IF i = o THEN c ELSE heap[i]
                                /\ permits'[i] = IF i = o THEN p ELSE permits[i]
  <2> HIDE DEF b, c, o
  <2>1. p \in Nat
    BY <1>5
  <2>2. heap \in Seq(BreakerType) /\ permits \in Seq(Nat) /\ Len(permits) = Len(heap)
    BY DEF TypeOK
  <2>3. DOMAIN heap = 1 .. Len(heap) /\ DOMAIN permits = 1 .. Len(heap)
    BY <2>2, LenProperties
  <2>4. /\ heap' \in Seq(BreakerType) /\ Len(heap') = Len(heap)
        /\ \A i \in 1 .. Len(heap) : heap'[i] = IF i = o THEN c ELSE heap[i]
    BY <1>1, <1>2, <1>3, <2>2, ExceptSeq
  <2>5. /\ permits' \in Seq(Nat) /\ Len(permits') = Len(heap)
        /\ \A i \in 1 .. Len(heap) : permits'[i] = IF i = o THEN p ELSE permits[i]
    BY <1>1, <1>2, <2>1, <2>2, ExceptSeq
  <2>6. DOMAIN heap' = 1 .. Len(heap)
    BY <2>4, LenProperties
  <2> QED
    BY <2>3, <2>4, <2>5, <2>6
<1> DEFINE x(n) == call[n].mixed \/
                      (Object(n) = o /\ call[n].pc \in {"apply", "new"})
<1>7. /\ call'[m] = mine /\ mine \in CallType
      /\ \A n \in Method \ {m} :
            /\ call'[n] = its(n) /\ its(n) \in CallType /\ its(n).mixed = x(n)
            /\ its(n).pc = call[n].pc /\ its(n).object = call[n].object
            /\ its(n).old = call[n].old /\ its(n).new = call[n].new
            /\ its(n).before = call[n].before /\ its(n).after = call[n].after
  <2>1. /\ \A n \in Method : call[n] \in CallType
        /\ b.state \in BreakerState /\ c.state \in BreakerState
    BY <1>2, <1>3 DEF TypeOK, BreakerType
  <2>2. mine \in CallType
    <3> HIDE DEF b, c
    <3> QED
      BY <2>1 DEF CallType
  <2>3. ASSUME NEW n \in Method
        PROVE  /\ its(n) \in CallType /\ its(n).mixed = x(n)
               /\ its(n).pc = call[n].pc /\ its(n).object = call[n].object
               /\ its(n).old = call[n].old /\ its(n).new = call[n].new
               /\ its(n).before = call[n].before /\ its(n).after = call[n].after
    <3>1. x(n) \in BOOLEAN /\ its(n) = [call[n] EXCEPT !.mixed = x(n)]
      BY <2>1 DEF CallType
    <3> HIDE DEF x, its
    <3> QED
      BY <2>1, <3>1 DEF CallType
  <2> QED
    BY <1>1, <2>2, <2>3
<1>8. TypeOK'
  <2>1. call' \in [Method -> CallType]
    <3>1. \A n \in Method : (IF n = m THEN mine ELSE its(n)) \in CallType
      BY <1>7
    <3> HIDE DEF mine, its
    <3> QED
      BY <1>1, <3>1
  <2>2. \A n \in Method : ~At(n, "idle")' => Object(n)' \in DOMAIN heap'
    <3> SUFFICES ASSUME NEW n \in Method, ~At(n, "idle")'
                 PROVE  Object(n)' \in DOMAIN heap'
      OBVIOUS
    <3>0. call[n] \in CallType /\ call[m] \in CallType
      BY DEF TypeOK
    <3>1. CASE n = m
      <4>1. call'[n].object = o
        BY <3>0, <3>1, <1>7 DEF Object, CallType
      <4> QED
        BY <4>1, <1>2, <1>6 DEF Object
    <3>2. CASE n # m
      <4>1. call'[n].object = call[n].object /\ call'[n].pc = call[n].pc
        BY <3>2, <1>7
      <4> QED
        BY <4>1, <1>6 DEF Object, At, TypeOK
    <3> QED
      BY <3>1, <3>2
  <2>3. transitions' \subseteq Report
    <3>1. o \in Nat /\ b.state \in BreakerState /\ c.state \in BreakerState
      BY <1>2, <1>3 DEF BreakerType
    <3> QED
      BY <1>1, <3>1 DEF TypeOK, Report
  <2> QED
    BY <1>1, <1>6, <2>1, <2>2, <2>3 DEF TypeOK
<1>9. HeapOK'
  BY <1>3, <1>6 DEF HeapOK
<1>10. OneTrial'
  <2> HIDE DEF c, b, o
  <2> QED
    BY <1>5, <1>6 DEF OneTrial
<1>11. CallsOK'
  <2> SUFFICES ASSUME NEW n \in Method, ~call'[n].mixed
               PROVE  /\ At(n, "apply")' => call'[n].old = heap'[call'[n].object].state
                      /\ At(n, "new")' => /\ call'[n].old = call'[n].before
                                          /\ heap'[call'[n].object].state = call'[n].after
                      /\ At(n, "alert")' => /\ call'[n].old = call'[n].before
                                            /\ call'[n].new = call'[n].after
                                            /\ call'[n].old # call'[n].new
    BY DEF CallsOK
  <2>0. call[n] \in CallType /\ call[m] \in CallType
    BY DEF TypeOK
  <2>1. CASE n = m
    <3>1. /\ call'[n].pc = "new" /\ call'[n].object = o /\ call'[n].old = call[m].old
          /\ call'[n].before = b.state /\ call'[n].after = c.state
          /\ call'[n].mixed = call[m].mixed
      BY <2>0, <2>1, <1>7 DEF CallType, Object
    <3>2. call[m].old = b.state
      BY <3>1, <1>1 DEF CallsOK, Object
    <3>3. heap'[o] = c
      BY <1>2, <1>6
    <3> QED
      BY <3>1, <3>2, <3>3 DEF At
  <2>2. CASE n # m
    <3>1. /\ call'[n] = its(n)
          /\ call'[n].pc = call[n].pc /\ call'[n].object = call[n].object
          /\ call'[n].old = call[n].old /\ call'[n].new = call[n].new
          /\ call'[n].before = call[n].before /\ call'[n].after = call[n].after
      BY <2>2, <1>7, ZenonT(40)
    <3>2. /\ ~call[n].mixed
          /\ Object(n) # o \/ call[n].pc \notin {"apply", "new"}
      BY <2>2, <3>1, <1>7
    <3>3. /\ call[n].pc # "idle" => call[n].object \in DOMAIN heap
          /\ call[n].pc \in {"apply", "new"} =>
                heap'[call[n].object] = heap[call[n].object]
      BY <1>6, <3>2 DEF TypeOK, At, Object
    <3> QED
      BY <3>1, <3>2, <3>3 DEF CallsOK, At
  <2> QED
    BY <2>1, <2>2
<1> QED
  BY <1>8, <1>9, <1>10, <1>11

-----------------------------------------------------------------------------
(* The theorems *)

LEMMA RemoveInv == ASSUME IInv, RemoveWorker PROVE IInv'
BY LenProperties
DEF RemoveWorker, IInv, TypeOK, HeapOK, OneTrial, CallsOK, At, Object

LEMMA CoolDownInv ==
    ASSUME IInv, NEW o \in DOMAIN heap, CoolDown(o) PROVE IInv'
<1> USE DEF IInv
<1> DEFINE c == Cooled(heap[o])
<1>1. /\ CanCool(heap[o]) /\ heap' = [heap EXCEPT ![o] = c]
      /\ UNCHANGED <<current, call, transitions, told, permits, calls, removals>>
  BY DEF CoolDown
<1>2. /\ heap \in Seq(BreakerType) /\ DOMAIN heap = 1 .. Len(heap)
      /\ heap[o] \in BreakerType /\ WellFormed(heap[o])
  BY ElementOfSeq, LenProperties DEF TypeOK, HeapOK
<1>3. c \in BreakerType /\ WellFormed(c) /\ c.state = heap[o].state
  <2>1. c.state = heap[o].state
    BY <1>2 DEF Cooled, BreakerType
  <2> QED
    BY <1>1, <1>2, <2>1, BreakerSteps
<1> HIDE DEF c
<1>4. /\ heap' \in Seq(BreakerType) /\ Len(heap') = Len(heap)
      /\ \A i \in DOMAIN heap : heap'[i] = IF i = o THEN c ELSE heap[i]
  BY <1>1, <1>2, <1>3, ExceptSeq
<1>5. DOMAIN heap' = DOMAIN heap
  BY <1>2, <1>4, LenProperties
<1>6. TypeOK'
  BY <1>1, <1>4, <1>5 DEF TypeOK, At, Object
<1>7. HeapOK' /\ OneTrial'
  BY <1>1, <1>3, <1>4, <1>5 DEF HeapOK, OneTrial
<1>8. CallsOK'
  <2>1. \A i \in DOMAIN heap : heap'[i].state = heap[i].state
    BY <1>3, <1>4
  <2>2. \A m \in Method : call[m].pc # "idle" => call[m].object \in DOMAIN heap
    BY DEF TypeOK, At, Object
  <2> QED
    BY <1>1, <2>1, <2>2 DEF CallsOK, At
<1> QED
  BY <1>6, <1>7, <1>8

LEMMA StepInv == IInv /\ [Next]_vars => IInv'
<1> SUFFICES ASSUME IInv, [Next]_vars PROVE IInv'
  OBVIOUS
<1>1. CASE Next
  BY <1>1, GetBreakerInv, ReadInv, ApplyInv, RemoveInv, CoolDownInv DEF Next
<1>2. CASE UNCHANGED vars
  BY <1>2 DEF vars, IInv, TypeOK, HeapOK, OneTrial, CallsOK, At, Object
<1> QED
  BY <1>1, <1>2

\* The invariant holds in every reachable state of the manager.
LEMMA Invariance == Spec => []IInv
BY InitInv, StepInv, PTL DEF Spec

\* Every variable keeps its type and a thread inside a call holds a breaker that
\* exists: removal never takes an object away from a call.
THEOREM TypeCorrect == Spec => []TypeOK
<1>1. IInv => TypeOK
  BY DEF IInv
<1> QED
  BY <1>1, Invariance, PTL

\* A breaker gives one trial at a time, to whichever thread asks first.
THEOREM OneTrialAtATime == Spec => []OneTrial
<1>1. IInv => OneTrial
  BY DEF IInv
<1> QED
  BY <1>1, Invariance, PTL

\* A call that no other call disturbs publishes an alert exactly when it
\* changed the state, with the states it changed.
THEOREM UndisturbedAlertsAreExact == Spec => []UndisturbedAlertsExact
<1>1. IInv => UndisturbedAlertsExact
  BY DEF IInv, CallsOK, UndisturbedAlertsExact
<1> QED
  BY <1>1, Invariance, PTL

-----------------------------------------------------------------------------
(* Refinement *)

\* The breaker shown is a well formed one.
LEMMA ShownType == IInv => Shown \in BreakerType /\ WellFormed(Shown)
<1> SUFFICES ASSUME IInv PROVE Shown \in BreakerType /\ WellFormed(Shown)
  OBVIOUS
<1>1. CASE current = 0
  BY <1>1, ThresholdAssumption
  DEF Shown, NewBreaker, BreakerType, BreakerState, WellFormed
<1>2. CASE current # 0
  <2>1. current \in DOMAIN heap
    BY <1>2, LenProperties DEF IInv, TypeOK
  <2> QED
    BY <1>2, <2>1, ElementOfSeq, LenProperties DEF Shown, IInv, TypeOK, HeapOK
<1> QED
  BY <1>1, <1>2

\* The manager starts as the cycle does.
LEMMA CycleInit == Init => Cycle!Init
BY DEF Init, Cycle!Init, Shown, NewBreaker

Streak(b) == IF b.state = "CLOSED" THEN b.failures ELSE 0

\* What a locked method makes of a well formed breaker is a step of the cycle.
LEMMA EffectSteps ==
    ASSUME NEW m \in Method, NEW b \in BreakerType, WellFormed(b)
    PROVE  LET c == Effect(m, b)
           IN  \/ c.state = b.state /\ Streak(c) = Streak(b)
               \/ b.state # "OPEN" /\ c.state = "CLOSED" /\ Streak(c) = 0
               \/ /\ b.state = "CLOSED" /\ c.state = "CLOSED"
                  /\ Streak(b) + 1 < Threshold /\ Streak(c) = Streak(b) + 1
               \/ /\ b.state = "HALF_OPEN" \/ (b.state = "CLOSED" /\ Streak(b) + 1 = Threshold)
                  /\ c.state = "OPEN" /\ Streak(c) = 0
               \/ /\ b.state = "OPEN" /\ c.state = "HALF_OPEN"
                  /\ Streak(c) = Streak(b)
<1> USE ThresholdAssumption
    DEF WellFormed, BreakerType, BreakerState, NewBreaker, Streak
<1>1. CASE m = "record_success"
  BY <1>1 DEF Effect, RecordSuccess
<1>2. CASE m = "record_failure"
  BY <1>2 DEF Effect, RecordFailure
<1>3. CASE m = "can_assign_task"
  BY <1>3 DEF Effect, AfterAsking, MayAssign
<1> QED
  BY <1>1, <1>2, <1>3 DEF Method

\* Every step of the manager is a step of the cycle or leaves it where it is.
LEMMA CycleStep ==
    IInv /\ [Next]_vars => [Cycle!Next]_<<Shown.state, Streak(Shown), removals>>
<1> SUFFICES ASSUME IInv, [Next]_vars
             PROVE  [Cycle!Next]_<<Shown.state, Streak(Shown), removals>>
  OBVIOUS
<1>0. /\ heap \in Seq(BreakerType) /\ DOMAIN heap = 1 .. Len(heap)
      /\ Len(heap) \in Nat /\ current \in 0 .. Len(heap)
      /\ current # 0 => current \in DOMAIN heap
  BY LenProperties DEF IInv, TypeOK
<1>1. ASSUME NEW m \in Method, GetBreaker(m)
      PROVE  UNCHANGED <<Shown, removals>>
  <2>1. CASE current = 0
    <3>1. heap' = Append(heap, NewBreaker) /\ current' = Len(heap) + 1
      BY <1>1, <2>1 DEF GetBreaker
    <3>2. NewBreaker \in BreakerType
      BY DEF NewBreaker, BreakerType, BreakerState
    <3>3. heap'[current'] = NewBreaker /\ current' # 0
      BY <1>0, <3>1, <3>2, AppendProperties
    <3> QED
      BY <1>1, <2>1, <3>3 DEF Shown, GetBreaker
  <2>2. CASE current # 0
    BY <1>1, <2>2 DEF GetBreaker, Shown
  <2> QED
    BY <2>1, <2>2
<1>2. ASSUME NEW m \in Method, ReadOld(m) \/ ReadNew(m) \/ PublishAlert(m)
      PROVE  UNCHANGED <<Shown, removals>>
  BY <1>2 DEF ReadOld, ReadNew, PublishAlert, Shown
<1>3. ASSUME NEW m \in Method, Apply(m)
      PROVE  [Cycle!Next]_<<Shown.state, Streak(Shown), removals>>
  <2> DEFINE o == Object(m)
  <2>1. /\ o \in DOMAIN heap /\ UNCHANGED <<current, removals>>
        /\ heap' = [heap EXCEPT ![o] = Effect(m, heap[o])]
    BY <1>3 DEF Apply, IInv, TypeOK, At
  <2>2. CASE o = current
    <3>1. Shown = heap[o] /\ Shown' = Effect(m, heap[o])
      BY <1>0, <2>1, <2>2 DEF Shown
    <3>2. heap[o] \in BreakerType /\ WellFormed(heap[o])
      BY <3>1, ShownType
    <3> QED
      BY <2>1, <3>1, <3>2, EffectSteps
      DEF Cycle!Next, Cycle!Succeed, Cycle!Fail, Cycle!Trip, Cycle!Probe, Streak
  <2>3. CASE o # current
    BY <1>0, <2>1, <2>3 DEF Shown
  <2> QED
    BY <2>2, <2>3
<1>4. CASE RemoveWorker
  BY <1>4 DEF RemoveWorker, Cycle!Next, Cycle!Forget, Shown, NewBreaker
<1>5. ASSUME NEW o \in DOMAIN heap, CoolDown(o)
      PROVE  UNCHANGED <<Shown.state, Streak(Shown), removals>>
  <2>1. heap' = [heap EXCEPT ![o] = Cooled(heap[o])] /\ UNCHANGED <<current, removals>>
    BY <1>5 DEF CoolDown
  <2>2. heap[o] \in BreakerType
    BY <1>0, ElementOfSeq
  <2>3. /\ Cooled(heap[o]).state = heap[o].state
        /\ Cooled(heap[o]).failures = heap[o].failures
    BY <2>2 DEF Cooled, BreakerType
  <2>4. CASE o = current
    <3>1. Shown = heap[o] /\ Shown' = Cooled(heap[o])
      BY <1>0, <2>1, <2>4 DEF Shown
    <3> QED
      BY <2>1, <2>3, <3>1 DEF Streak
  <2>5. CASE o # current
    BY <1>0, <2>1, <2>5 DEF Shown
  <2> QED
    BY <2>4, <2>5
<1>6. CASE UNCHANGED vars
  BY <1>6 DEF vars, Shown
<1> QED
  BY <1>1, <1>2, <1>3, <1>4, <1>5, <1>6 DEF Next

\* The manager implements the cycle: whatever its threads interleave, a breaker
\* trips at the Threshold-th failure in a row, gives one trial, is closed only
\* by a success, and late calls on a removed breaker change nothing.
THEOREM ImplementsCycle == Spec => CycleSpec
<1>1. Cycle!Spec <=> Cycle!Init /\ [][Cycle!Next]_<<Shown.state, Streak(Shown), removals>>
  BY DEF Cycle!Spec, Streak
<1> QED
  BY <1>1, CycleInit, CycleStep, Invariance, PTL DEF Spec, CycleSpec
=============================================================================
