------------------------- MODULE EndpointGateProofs -------------------------
(***************************************************************************)
(* Proofs about EndpointGate, for every set of calls and every limit: the  *)
(* slot count is right, no wake-up is lost and, as long as a cooldown ends *)
(* between two turns of the event loop, the limit holds at Autotask.       *)
(***************************************************************************)
EXTENDS EndpointGate, FiniteSetTheorems, SequenceTheorems, TLAPS

InQueue == {"hop", "woken", "granted", "ending"}
Woken == {c \in Call : pc[c] = "woken"}

\* The waiting list holds each call once, and only calls that wait.
WaitingInv ==
  /\ \A i \in 1..Len(waiting) : pc[waiting[i]] = "waiting"
  /\ \A i, k \in 1..Len(waiting) : waiting[i] = waiting[k] => i = k

\* A call whose continuation is due is in the microtask queue.
ReadyInv == \A c \in Call : pc[c] \in InQueue => \E i \in 1..Len(ready) : ready[i] = c

\* While calls wait, the slots are all taken or handed on.
HandedOn == waiting # <<>> => active + Cardinality(Woken) >= MaxActive

IInv == TypeOK /\ WaitingInv /\ ReadyInv /\ SlotsCounted /\ HandedOn
-----------------------------------------------------------------------------
LEMMA Finite ==
  ASSUME NEW S \in SUBSET Call
  PROVE  IsFiniteSet(S) /\ Cardinality(S) \in Nat
BY GateAssumption, FS_Subset, FS_CardinalityType

\* What one call's change of place does to the two counts.
LEMMA Moved ==
  ASSUME TypeOK, NEW c \in Call, NEW p \in Place, pc' = [pc EXCEPT ![c] = p]
  PROVE  /\ Cardinality(Holding') =
              IF p \in {"granted", "upstream", "ending"}
              THEN IF c \in Holding THEN Cardinality(Holding) ELSE Cardinality(Holding) + 1
              ELSE IF c \in Holding THEN Cardinality(Holding) - 1 ELSE Cardinality(Holding)
         /\ Cardinality(Woken') =
              IF p = "woken"
              THEN IF c \in Woken THEN Cardinality(Woken) ELSE Cardinality(Woken) + 1
              ELSE IF c \in Woken THEN Cardinality(Woken) - 1 ELSE Cardinality(Woken)
<1>1. IsFiniteSet(Holding) /\ IsFiniteSet(Woken)
  BY Finite DEF Holding, Woken
<1>2. Holding' = IF p \in {"granted", "upstream", "ending"} THEN Holding \cup {c} ELSE Holding \ {c}
  BY DEF TypeOK, Holding
<1>3. Woken' = IF p = "woken" THEN Woken \cup {c} ELSE Woken \ {c}
  BY DEF TypeOK, Woken
<1> QED BY <1>1, <1>2, <1>3, FS_AddElement, FS_RemoveElement

\* The queue keeps every other call when its head has run.
LEMMA RestKept ==
  ASSUME IInv, NEW c \in Call, ready # <<>>, Head(ready) = c, NEW more \in Seq(Call),
         ready' = Tail(ready) \o more
  PROVE  /\ ready' \in Seq(Call)
         /\ \A d \in Call \ {c} : pc[d] \in InQueue => \E i \in 1..Len(ready') : ready'[i] = d
         /\ \A k \in 1..Len(more) : \E i \in 1..Len(ready') : ready'[i] = more[k]
<1>1. /\ ready \in Seq(Call) /\ Tail(ready) \in Seq(Call)
      /\ Len(ready) \in Nat \ {0} /\ Len(Tail(ready)) = Len(ready) - 1
      /\ \A i \in 1..Len(Tail(ready)) : Tail(ready)[i] = ready[i + 1]
      /\ ready[1] = c
  BY HeadTailProperties, EmptySeq DEF IInv, TypeOK
<1>2. /\ ready' \in Seq(Call) /\ Len(ready') = Len(Tail(ready)) + Len(more)
      /\ \A i \in 1..Len(ready') :
           ready'[i] = IF i <= Len(Tail(ready)) THEN Tail(ready)[i] ELSE more[i - Len(Tail(ready))]
  BY <1>1, ConcatProperties
<1>3. ASSUME NEW d \in Call \ {c}, pc[d] \in InQueue
      PROVE  \E i \in 1..Len(ready') : ready'[i] = d
  <2>1. PICK k \in 1..Len(ready) : ready[k] = d
    BY <1>3 DEF IInv, ReadyInv
  <2>2. k - 1 \in 1..Len(Tail(ready)) /\ Tail(ready)[k - 1] = d
    BY <1>1, <1>3, <2>1
  <2>3. Len(more) \in Nat
    BY LenProperties
  <2>4. k - 1 \in 1..Len(ready') /\ ready'[k - 1] = d
    BY <1>1, <1>2, <2>2, <2>3
  <2> QED BY <2>4
<1>4. ASSUME NEW k \in 1..Len(more)
      PROVE  \E i \in 1..Len(ready') : ready'[i] = more[k]
  <2>1. Len(more) \in Nat
    BY LenProperties
  <2>2. Len(Tail(ready)) + k \in 1..Len(ready') /\ ready'[Len(Tail(ready)) + k] = more[k]
    BY <1>1, <1>2, <2>1
  <2> QED BY <2>2
<1> QED BY <1>2, <1>3, <1>4

\* A continuation that moves only its own call keeps the queue right.
LEMMA OneMoves ==
  ASSUME IInv, NEW c \in Call, NEW p \in Place, ready # <<>>, Head(ready) = c,
         pc' = [pc EXCEPT ![c] = p],
         \/ ready' = Append(Tail(ready), c)
         \/ p \notin InQueue /\ ready' = Tail(ready)
  PROVE  ready' \in Seq(Call) /\ pc' \in [Call -> Place] /\ ReadyInv'
<1>1. Tail(ready) \in Seq(Call) /\ pc \in [Call -> Place]
  BY HeadTailProperties DEF IInv, TypeOK
<1>2. CASE ready' = Append(Tail(ready), c)
  <2>1. <<c>> \in Seq(Call) /\ Len(<<c>>) = 1 /\ <<c>>[1] = c
    OBVIOUS
  <2>2. ready' = Tail(ready) \o <<c>>
    BY <1>1, <1>2, AppendIsConcat
  <2>3. /\ ready' \in Seq(Call)
        /\ \A d \in Call \ {c} : pc[d] \in InQueue => \E i \in 1..Len(ready') : ready'[i] = d
        /\ \A k \in 1..Len(<<c>>) : \E i \in 1..Len(ready') : ready'[i] = <<c>>[k]
    BY <2>1, <2>2, RestKept
  <2>4. \E i \in 1..Len(ready') : ready'[i] = c
    BY <2>1, <2>3
  <2> QED BY <1>1, <2>3, <2>4 DEF ReadyInv
<1>3. CASE p \notin InQueue /\ ready' = Tail(ready)
  <2>1. <<>> \in Seq(Call)
    OBVIOUS
  <2>2. ready' = Tail(ready) \o <<>>
    BY <1>1, <1>3, ConcatEmptySeq
  <2>3. /\ ready' \in Seq(Call)
        /\ \A d \in Call \ {c} : pc[d] \in InQueue => \E i \in 1..Len(ready') : ready'[i] = d
    BY <2>1, <2>2, RestKept
  <2> QED BY <1>1, <1>3, <2>3 DEF ReadyInv
<1> QED BY <1>2, <1>3

LEMMA InitInv == Init => IInv
<1> SUFFICES ASSUME Init PROVE IInv
  OBVIOUS
<1>1. Holding = {} /\ Woken = {}
  BY DEF Init, Holding, Woken
<1>2. TypeOK /\ WaitingInv /\ ReadyInv
  <2>1. TypeOK
    <3>1. <<>> \in Seq(Call) /\ 0 \in 0..MaxHops
      BY GateAssumption, EmptySeq
    <3> QED BY <3>1 DEF Init, TypeOK, Place
  <2>2. WaitingInv
    BY EmptySeq DEF Init, WaitingInv
  <2>3. ReadyInv
    BY DEF Init, ReadyInv, InQueue
  <2> QED BY <2>1, <2>2, <2>3
<1>3. SlotsCounted /\ HandedOn
  BY <1>1, FS_EmptySet DEF Init, SlotsCounted, HandedOn
<1> QED BY <1>2, <1>3 DEF IInv

LEMMA ArriveInv == IInv /\ Arrive => IInv'
<1> SUFFICES ASSUME IInv, Arrive PROVE IInv'
  OBVIOUS
<1>1. PICK n \in 1..Cardinality(Call) : \E batch \in [1..n -> Call] :
        /\ \A i \in 1..n : pc[batch[i]] = "idle"
        /\ ready' = batch
        /\ pc' = [c \in Call |-> IF \E i \in 1..n : batch[i] = c THEN "hop" ELSE pc[c]]
        /\ \E h \in [Call -> 0..MaxHops] :
             hops' = [c \in Call |-> IF \E i \in 1..n : batch[i] = c THEN h[c] ELSE hops[c]]
  BY DEF Arrive
<1>0. PICK batch \in [1..n -> Call] :
        /\ \A i \in 1..n : pc[batch[i]] = "idle"
        /\ ready' = batch
        /\ pc' = [c \in Call |-> IF \E i \in 1..n : batch[i] = c THEN "hop" ELSE pc[c]]
        /\ \E h \in [Call -> 0..MaxHops] :
             hops' = [c \in Call |-> IF \E i \in 1..n : batch[i] = c THEN h[c] ELSE hops[c]]
  BY <1>1
<1>2. n \in Nat
  BY GateAssumption, FS_CardinalityType
<1>3. ready' \in Seq(Call) /\ Len(ready') = n
  BY <1>0, <1>2
<1>4. UNCHANGED <<active, waiting, closed>>
  BY DEF Arrive
<1>5. TypeOK'
  BY <1>0, <1>3, <1>4 DEF IInv, TypeOK, Place
<1>6. Holding' = Holding /\ Woken' = Woken
  BY <1>0 DEF IInv, TypeOK, Holding, Woken
<1>7. WaitingInv'
  <2>1. \A i \in 1..Len(waiting) : waiting[i] \in Call
    BY DEF IInv, TypeOK
  <2> QED BY <1>0, <1>4, <2>1 DEF IInv, TypeOK, WaitingInv
<1>8. ReadyInv'
  <2>1. \A c \in Call : pc[c] \notin InQueue
    BY DEF Arrive, IInv, ReadyInv
  <2> QED BY <1>0, <1>3, <2>1 DEF ReadyInv, InQueue
<1>9. SlotsCounted' /\ HandedOn'
  BY <1>4, <1>6 DEF IInv, SlotsCounted, HandedOn
<1> QED BY <1>5, <1>7, <1>8, <1>9 DEF IInv

\* The steps of one call that has been counted or not: everything but a release.
LEMMA CallInv ==
  ASSUME IInv, NEW c \in Call,
         Answer(c) \/ Hop(c) \/ Enqueue(c) \/ Take(c) \/ Send(c)
  PROVE  IInv'
<1> USE DEF Runs
<1>1. TypeOK /\ Cardinality(Holding) \in Nat /\ Cardinality(Woken) \in Nat /\ MaxActive \in Nat
  BY GateAssumption, Finite DEF IInv, Holding, Woken
<1>2. \A i \in 1..Len(waiting) : waiting[i] \in Call /\ pc[waiting[i]] = "waiting"
  BY DEF IInv, TypeOK, WaitingInv
<1>3. CASE Answer(c)
  <2>1. pc' = [pc EXCEPT ![c] = "ending"] /\ c \in Holding /\ c \notin Woken
    BY <1>3 DEF Answer, Holding, Woken
  <2>2. Cardinality(Holding') = Cardinality(Holding) /\ Cardinality(Woken') = Cardinality(Woken)
    BY <1>1, <2>1, Moved DEF Place
  <2>3. TypeOK'
    <3>1. pc' \in [Call -> Place]
      BY <1>1, <2>1 DEF TypeOK, Place
    <3>2. ready' \in Seq(Call)
      BY <1>3 DEF Answer
    <3>3. closed' \in BOOLEAN
      BY <1>1, <1>3 DEF Answer, TypeOK
    <3> QED BY <1>1, <1>3, <3>1, <3>2, <3>3 DEF Answer, TypeOK
  <2>4. ReadyInv'
    <3>1. \A d \in Call : pc[d] \notin InQueue
      BY <1>3 DEF Answer, IInv, ReadyInv
    <3> QED BY <1>1, <1>3, <3>1 DEF Answer, ReadyInv, TypeOK
  <2>5. WaitingInv'
    BY <1>1, <1>2, <1>3, <2>1 DEF Answer, IInv, WaitingInv, TypeOK
  <2> QED BY <1>3, <2>2, <2>3, <2>4, <2>5 DEF Answer, IInv, SlotsCounted, HandedOn
<1>4. CASE Hop(c)
  <2>1. pc' = [pc EXCEPT ![c] = "hop"] /\ pc' = pc
    BY <1>1, <1>4 DEF Hop, TypeOK
  <2>2. ready' \in Seq(Call) /\ ReadyInv'
    BY <1>4, <2>1, OneMoves DEF Hop, Place
  <2>3. TypeOK'
    BY <1>1, <1>4, <2>2, GateAssumption DEF Hop, TypeOK
  <2>4. Holding' = Holding /\ Woken' = Woken
    BY <2>1 DEF Holding, Woken
  <2> QED BY <1>4, <2>1, <2>2, <2>3, <2>4 DEF Hop, IInv, WaitingInv, SlotsCounted, HandedOn
<1>5. CASE Enqueue(c)
  <2>1. pc' = [pc EXCEPT ![c] = "waiting"] /\ c \notin Holding /\ c \notin Woken
    BY <1>5 DEF Enqueue, Holding, Woken
  <2>2. Cardinality(Holding') = Cardinality(Holding) /\ Cardinality(Woken') = Cardinality(Woken)
    BY <1>1, <2>1, Moved DEF Place
  <2>3. ready' \in Seq(Call) /\ ReadyInv' /\ pc' \in [Call -> Place]
    BY <1>5, <2>1, OneMoves DEF Enqueue, Place, InQueue
  <2>4. /\ waiting' \in Seq(Call) /\ waiting' # <<>> /\ Len(waiting') = Len(waiting) + 1
        /\ \A i \in 1..Len(waiting) : waiting'[i] = waiting[i]
        /\ waiting'[Len(waiting) + 1] = c /\ Len(waiting) \in Nat
    BY <1>1, <1>5, AppendProperties, LenProperties DEF Enqueue, TypeOK
  <2>5. TypeOK'
    BY <1>1, <1>5, <2>3, <2>4 DEF Enqueue, TypeOK
  <2>6. WaitingInv'
    <3>1. \A i \in 1..Len(waiting) : waiting[i] # c
      BY <1>2, <1>5 DEF Enqueue
    <3>2. \A i \in 1..Len(waiting') : i \in 1..Len(waiting) \/ i = Len(waiting) + 1
      BY <2>4
    <3>3. \A i \in 1..Len(waiting') : pc'[waiting'[i]] = "waiting"
      BY <1>1, <1>2, <2>1, <2>4, <3>2 DEF TypeOK
    <3> QED BY <2>4, <3>1, <3>2, <3>3 DEF IInv, WaitingInv
  <2>7. HandedOn'
    BY <1>1, <1>5, <2>2 DEF Enqueue, Busy, HandedOn, TypeOK
  <2> QED BY <1>5, <2>2, <2>3, <2>5, <2>6, <2>7 DEF Enqueue, IInv, SlotsCounted
<1>6. CASE Take(c)
  <2>1. pc' = [pc EXCEPT ![c] = "granted"] /\ c \notin Holding /\ c \in Call
    BY <1>6 DEF Take, Holding
  <2>2. /\ Cardinality(Holding') = Cardinality(Holding) + 1
        /\ Cardinality(Woken') + 1 >= Cardinality(Woken)
    <3>1. "granted" \in Place
      BY DEF Place
    <3>2. /\ Cardinality(Holding') = Cardinality(Holding) + 1
          /\ Cardinality(Woken') \in {Cardinality(Woken), Cardinality(Woken) - 1}
      BY <1>1, <2>1, <3>1, Moved
    <3> QED BY <1>1, <3>2
  <2>3. ready' \in Seq(Call) /\ ReadyInv' /\ pc' \in [Call -> Place]
    BY <1>6, <2>1, OneMoves DEF Take, Place, InQueue
  <2>4. TypeOK'
    BY <1>1, <1>6, <2>3 DEF Take, TypeOK
  <2>5. WaitingInv'
    BY <1>1, <1>2, <1>6, <2>1 DEF Take, IInv, WaitingInv, TypeOK
  <2>6. Cardinality(Woken') \in Nat
    BY Finite DEF Woken
  <2>7. SlotsCounted' /\ HandedOn'
    BY <1>1, <1>6, <2>2, <2>6 DEF Take, IInv, SlotsCounted, HandedOn, TypeOK
  <2> QED BY <2>3, <2>4, <2>5, <2>7 DEF IInv
<1>7. CASE Send(c)
  <2>1. PICK p \in {"ending", "upstream"} :
          /\ pc' = [pc EXCEPT ![c] = p]
          /\ \/ ready' = Append(Tail(ready), c)
             \/ p \notin InQueue /\ ready' = Tail(ready)
    <3>1. CASE closed
      <4>1. pc' = [pc EXCEPT ![c] = "ending"] /\ ready' = Append(Tail(ready), c)
        BY <1>7, <3>1 DEF Send
      <4> QED BY <4>1
    <3>2. CASE ~closed
      <4>1. pc' = [pc EXCEPT ![c] = "upstream"] /\ ready' = Tail(ready)
        BY <1>7, <3>2 DEF Send
      <4>2. "upstream" \notin InQueue
        BY DEF InQueue
      <4> QED BY <4>1, <4>2
    <3> QED BY <3>1, <3>2
  <2>2. c \in Holding /\ c \notin Woken
    BY <1>7 DEF Send, Holding, Woken
  <2>3. Cardinality(Holding') = Cardinality(Holding) /\ Cardinality(Woken') = Cardinality(Woken)
    BY <1>1, <2>1, <2>2, Moved DEF Place
  <2>4. ready' \in Seq(Call) /\ ReadyInv' /\ pc' \in [Call -> Place]
    BY <1>7, <2>1, OneMoves DEF Send, Place
  <2>5. TypeOK'
    BY <1>1, <1>7, <2>4 DEF Send, TypeOK
  <2>6. WaitingInv'
    BY <1>1, <1>2, <1>7, <2>1 DEF Send, IInv, WaitingInv, TypeOK
  <2> QED BY <1>7, <2>3, <2>4, <2>5, <2>6 DEF Send, IInv, SlotsCounted, HandedOn
<1> QED BY <1>3, <1>4, <1>5, <1>6, <1>7

\* A release gives back one slot and queues the first waiter, if there is one.
LEMMA ReleaseInv ==
  ASSUME IInv, NEW c \in Call, Release(c)
  PROVE  IInv'
<1> DEFINE nobody == waiting = <<>>
<1>1. /\ TypeOK /\ Cardinality(Holding) \in Nat /\ Cardinality(Woken) \in Nat /\ MaxActive \in Nat
      /\ IsFiniteSet(Holding) /\ IsFiniteSet(Woken)
  BY GateAssumption, Finite DEF IInv, Holding, Woken
<1>2. /\ pc[c] = "ending" /\ ready # <<>> /\ Head(ready) = c
      /\ active' = active - 1 /\ closed' = closed
      /\ waiting' = IF waiting = <<>> THEN waiting ELSE Tail(waiting)
  BY DEF Release, Runs, GiveBack
<1>3. PICK again \in BOOLEAN, h \in 0..MaxHops :
        /\ hops' = [hops EXCEPT ![c] = IF again THEN h ELSE 0]
        /\ ready' = Tail(ready) \o Resolved(waiting) \o (IF again THEN <<c>> ELSE <<>>)
        /\ pc' = [d \in Call |-> IF d = c THEN (IF again THEN "hop" ELSE "idle")
                                 ELSE IF Resolved(waiting) = <<d>> THEN "woken" ELSE pc[d]]
  BY DEF Release
<1> DEFINE next == IF again THEN <<c>> ELSE <<>>
           more == Resolved(waiting) \o next
<1>4. ~nobody => /\ Head(waiting) \in Call /\ pc[Head(waiting)] = "waiting" /\ Head(waiting) # c
                 /\ Resolved(waiting) = <<Head(waiting)>>
                 /\ Tail(waiting) \in Seq(Call) /\ Len(Tail(waiting)) = Len(waiting) - 1
                 /\ Len(waiting) \in Nat \ {0}
                 /\ \A i \in 1..Len(Tail(waiting)) : Tail(waiting)[i] = waiting[i + 1]
                 /\ Head(waiting) = waiting[1]
  BY <1>1, <1>2, HeadTailProperties, EmptySeq DEF TypeOK, Resolved, IInv, WaitingInv
<1>5. nobody => Resolved(waiting) = <<>>
  BY DEF Resolved
<1>6. /\ Resolved(waiting) \in Seq(Call) /\ next \in Seq(Call)
      /\ \A d \in Call : Resolved(waiting) = <<d>> <=> ~nobody /\ d = Head(waiting)
  <2>1. next \in Seq(Call)
    OBVIOUS
  <2>2. CASE nobody
    <3>1. \A d \in Call : Resolved(waiting) # <<d>>
      BY <1>5, <2>2
    <3>2. Resolved(waiting) \in Seq(Call)
      BY <1>5, <2>2, EmptySeq
    <3> HIDE DEF next
    <3> QED BY <2>1, <2>2, <3>1, <3>2
  <2>3. CASE ~nobody
    <3>1. <<Head(waiting)>> \in Seq(Call)
      BY <1>4, <2>3
    <3>2. \A d \in Call : <<Head(waiting)>> = <<d>> <=> d = Head(waiting)
      OBVIOUS
    <3> QED BY <1>4, <2>1, <2>3, <3>1, <3>2
  <2> QED BY <2>2, <2>3
<1>7. pc' = [d \in Call |-> IF d = c THEN (IF again THEN "hop" ELSE "idle")
                            ELSE IF ~nobody /\ d = Head(waiting) THEN "woken" ELSE pc[d]]
  BY <1>3, <1>6
<1>8. pc' \in [Call -> Place]
  BY <1>1, <1>7 DEF TypeOK, Place
<1>9. /\ Tail(ready) \in Seq(Call) /\ more \in Seq(Call)
      /\ ready' = Tail(ready) \o more
  <2>1. Tail(ready) \in Seq(Call)
    BY <1>1, <1>2, HeadTailProperties DEF TypeOK
  <2>2. ready' = (Tail(ready) \o Resolved(waiting)) \o next
    BY <1>3
  <2> HIDE DEF next
  <2>3. more \in Seq(Call)
    BY <1>6, ConcatProperties
  <2>4. ready' = Tail(ready) \o more
    BY <1>6, <2>1, <2>2, ConcatAssociative
  <2> QED BY <2>1, <2>3, <2>4
<1>10. /\ ready' \in Seq(Call)
       /\ \A d \in Call \ {c} : pc[d] \in InQueue => \E i \in 1..Len(ready') : ready'[i] = d
       /\ \A k \in 1..Len(more) : \E i \in 1..Len(ready') : ready'[i] = more[k]
  <2> HIDE DEF more
  <2> QED BY <1>2, <1>9, RestKept
<1>11. /\ again => \E k \in 1..Len(more) : more[k] = c
       /\ ~nobody => \E k \in 1..Len(more) : more[k] = Head(waiting)
  BY <1>4, <1>5
<1>12. ReadyInv'
  <2> SUFFICES ASSUME NEW d \in Call, pc'[d] \in InQueue
               PROVE  \E i \in 1..Len(ready') : ready'[i] = d
    BY DEF ReadyInv
  <2>1. CASE d = c
    <3>1. again
      BY <1>7, <2>1 DEF InQueue
    <3> QED BY <1>10, <1>11, <2>1, <3>1
  <2>2. CASE d # c /\ ~nobody /\ d = Head(waiting)
    BY <1>10, <1>11, <2>2
  <2>3. CASE d # c /\ ~(~nobody /\ d = Head(waiting))
    <3>1. pc[d] \in InQueue
      BY <1>7, <2>3
    <3> QED BY <1>10, <2>3, <3>1
  <2> QED BY <2>1, <2>2, <2>3
<1>13. TypeOK'
  <2>1. active' \in Nat
    <3>1. c \in Holding
      BY <1>2 DEF Holding
    <3>2. Cardinality(Holding) # 0
      BY <1>1, <3>1, FS_EmptySet
    <3> QED BY <1>1, <1>2, <3>2 DEF IInv, SlotsCounted
  <2>2. waiting' \in Seq(Call)
    BY <1>1, <1>2, <1>4 DEF TypeOK
  <2>3. hops' \in [Call -> 0..MaxHops]
    BY <1>1, <1>3, GateAssumption DEF TypeOK
  <2> QED BY <1>1, <1>2, <1>8, <1>10, <2>1, <2>2, <2>3 DEF TypeOK
<1>14. WaitingInv'
  <2>1. CASE nobody
    BY <1>2, <2>1, EmptySeq DEF WaitingInv
  <2>2. CASE ~nobody
    <3>1. \A i \in 1..Len(waiting') : i + 1 \in 1..Len(waiting) /\ waiting'[i] = waiting[i + 1]
      BY <1>2, <1>4, <2>2
    <3>2. \A i \in 1..Len(waiting') : waiting'[i] # Head(waiting)
      <4> SUFFICES ASSUME NEW i \in 1..Len(waiting') PROVE waiting'[i] # Head(waiting)
        OBVIOUS
      <4>1. i + 1 \in 1..Len(waiting) /\ waiting'[i] = waiting[i + 1]
        BY <3>1
      <4>2. Head(waiting) = waiting[1] /\ 1 \in 1..Len(waiting) /\ Len(waiting) \in Nat
        BY <1>4, <2>2
      <4>3. waiting[i + 1] # waiting[1]
        BY <4>1, <4>2 DEF IInv, WaitingInv
      <4> QED BY <4>1, <4>2, <4>3
    <3>3. \A i \in 1..Len(waiting') : waiting'[i] \in Call /\ pc[waiting'[i]] = "waiting"
      <4> SUFFICES ASSUME NEW i \in 1..Len(waiting')
                   PROVE  waiting'[i] \in Call /\ pc[waiting'[i]] = "waiting"
        OBVIOUS
      <4>1. i + 1 \in 1..Len(waiting) /\ waiting'[i] = waiting[i + 1]
        BY <3>1
      <4>2. waiting[i + 1] \in Call
        BY <1>1, <4>1, ElementOfSeq DEF TypeOK
      <4>3. pc[waiting[i + 1]] = "waiting"
        BY <4>1 DEF IInv, WaitingInv
      <4> QED BY <4>1, <4>2, <4>3
    <3>4. \A i \in 1..Len(waiting') : pc'[waiting'[i]] = "waiting"
      <4> SUFFICES ASSUME NEW i \in 1..Len(waiting') PROVE pc'[waiting'[i]] = "waiting"
        OBVIOUS
      <4> DEFINE d == waiting'[i]
      <4>1. d \in Call /\ pc[d] = "waiting" /\ d # Head(waiting) /\ d # c
        BY <1>2, <3>2, <3>3
      <4> HIDE DEF d
      <4>2. pc'[d] = pc[d]
        BY <1>7, <4>1
      <4> QED BY <4>1, <4>2 DEF d
    <3>5. \A i, k \in 1..Len(waiting') : waiting'[i] = waiting'[k] => i = k
      <4> SUFFICES ASSUME NEW i \in 1..Len(waiting'), NEW k \in 1..Len(waiting'),
                          waiting'[i] = waiting'[k]
                   PROVE  i = k
        OBVIOUS
      <4>1. i + 1 = k + 1
        BY <3>1 DEF IInv, WaitingInv
      <4> QED BY <1>2, <1>4, <2>2, <4>1
    <3> QED BY <3>4, <3>5 DEF WaitingInv
  <2> QED BY <2>1, <2>2
<1>15. SlotsCounted'
  <2>1. c \in Holding /\ Holding' = Holding \ {c}
    BY <1>2, <1>4, <1>7 DEF Holding
  <2> QED BY <1>1, <1>2, <2>1, FS_RemoveElement DEF IInv, SlotsCounted
<1>16. HandedOn'
  <2>1. CASE nobody
    BY <1>2, <2>1 DEF HandedOn
  <2>2. CASE ~nobody
    <3>1. Head(waiting) \notin Woken /\ Woken' = Woken \cup {Head(waiting)}
      BY <1>2, <1>4, <1>7, <2>2 DEF Woken
    <3>2. Cardinality(Woken') = Cardinality(Woken) + 1
      BY <1>1, <3>1, FS_AddElement
    <3> QED BY <1>1, <1>2, <2>2, <3>2 DEF IInv, HandedOn, TypeOK
  <2> QED BY <2>1, <2>2
<1> QED BY <1>12, <1>13, <1>14, <1>15, <1>16 DEF IInv

LEMMA NextInv == IInv /\ [Next]_vars => IInv'
<1>1. ASSUME IInv, UNCHANGED vars PROVE IInv'
  BY <1>1 DEF vars, IInv, TypeOK, WaitingInv, ReadyInv, SlotsCounted, Holding, HandedOn, Woken
<1>2. ASSUME IInv, Reopen PROVE IInv'
  BY <1>2 DEF Reopen, IInv, TypeOK, WaitingInv, ReadyInv, SlotsCounted, Holding, HandedOn, Woken
<1> QED BY <1>1, <1>2, ArriveInv, CallInv, ReleaseInv DEF Next, Continue

THEOREM Invariance == Spec => []IInv
BY InitInv, NextInv, PTL DEF Spec

\* Every state keeps its types: the count never goes below zero.
THEOREM TypeCorrect == Spec => []TypeOK
<1>1. IInv => TypeOK
  BY DEF IInv
<1> QED BY <1>1, Invariance, PTL

\* The gate's count is the number of calls that hold a slot, whatever their
\* number, the limit and the order of the continuations: no call that fails
\* keeps its slot, and none gives it back twice (acquireEndpointSlot, send).
THEOREM Counted == Spec => []SlotsCounted
<1>1. IInv => SlotsCounted
  BY DEF IInv
<1> QED BY <1>1, Invariance, PTL

\* No wake-up is lost: when the event loop is idle and a call waits, all slots
\* are used by calls that are out at Autotask.
THEOREM NoneLost == Spec => []NoLostWaiter
<1>1. ASSUME IInv PROVE NoLostWaiter
  <2> SUFFICES ASSUME ready = <<>>, waiting # <<>>
               PROVE  Cardinality(Upstream) >= MaxActive
    BY DEF NoLostWaiter
  <2>1. \A c \in Call : pc[c] \notin InQueue
    BY <1>1, EmptySeq DEF IInv, ReadyInv
  <2>2. Upstream = Holding /\ Woken = {}
    BY <2>1 DEF Upstream, Holding, Woken, InQueue
  <2>3. active = Cardinality(Upstream) /\ active \in Nat /\ MaxActive \in Nat
    BY <1>1, <2>2, GateAssumption DEF IInv, SlotsCounted, TypeOK
  <2>4. active + 0 >= MaxActive
    BY <1>1, <2>2, FS_EmptySet DEF IInv, HandedOn
  <2> QED BY <2>3, <2>4
<1> QED BY <1>1, Invariance, PTL

(***************************************************************************)
(* The limit on what is out at Autotask, when a cooldown ends only between *)
(* two turns of the event loop.  The slot count itself passes the limit:   *)
(* in a turn that finds the tenant paused, calls give their slots back at  *)
(* once, and those they wake count themselves without looking.  None of    *)
(* these is sent.  While the tenant is open, a slot is handed on only at   *)
(* the start of a turn, to a call that runs next.                          *)
(***************************************************************************)

Moving == {"woken", "ending"}
Quiet == \A c \in Call : pc[c] \notin Moving

\* The turn of an answer: its call is about to give its slot back.
GivesBack(c) ==
  /\ ready = <<c>> /\ pc[c] = "ending" /\ active <= MaxActive
  /\ \A d \in Call \ {c} : pc[d] \notin Moving

\* The slot was given back, and the call that was woken for it runs next.
TakesOver(c) ==
  /\ ready # <<>> /\ Head(ready) = c /\ pc[c] = "woken" /\ active < MaxActive
  /\ \A d \in Call \ {c} : pc[d] \notin Moving

OpenTurn ==
  ~closed => \/ Quiet /\ active <= MaxActive
             \/ \E c \in Call : GivesBack(c)
             \/ \E c \in Call : TakesOver(c)

BoundInv == IInv /\ OpenTurn /\ UpstreamBounded

\* Fewer calls out is no harm.
LEMMA FewerOut ==
  ASSUME UpstreamBounded, Upstream' \subseteq Upstream
  PROVE  UpstreamBounded'
<1>1. IsFiniteSet(Upstream) /\ Cardinality(Upstream) \in Nat
  BY Finite DEF Upstream
<1>2. Cardinality(Upstream') <= Cardinality(Upstream) /\ Cardinality(Upstream') \in Nat
  BY <1>1, FS_Subset, FS_CardinalityType
<1> QED BY <1>1, <1>2, GateAssumption DEF UpstreamBounded

\* When the event loop is idle, the calls that hold a slot are out.
LEMMA IdleLoop ==
  ASSUME IInv, UpstreamBounded, ready = <<>>
  PROVE  Quiet /\ active <= MaxActive
<1>1. \A c \in Call : pc[c] \notin InQueue
  BY EmptySeq DEF IInv, ReadyInv
<1>2. Quiet /\ Holding = Upstream
  BY <1>1 DEF Quiet, Moving, InQueue, Holding, Upstream
<1> QED BY <1>2 DEF IInv, SlotsCounted, UpstreamBounded

\* New turns: calls that arrive, an answer, the end of a cooldown.
LEMMA TurnBound ==
  ASSUME BoundInv, IInv', EndsMidTurn = FALSE,
         Arrive \/ Reopen \/ \E c \in Call : Answer(c)
  PROVE  BoundInv'
<1>1. Quiet /\ active <= MaxActive /\ ready = <<>> /\ active' = active
  BY IdleLoop DEF BoundInv, Arrive, Reopen, Answer
<1>2. CASE Arrive
  <2>1. \A c \in Call : pc'[c] \in {pc[c], "hop"}
    BY <1>2 DEF Arrive, BoundInv, IInv, TypeOK
  <2>2. Quiet'
    BY <1>1, <2>1 DEF Quiet, Moving
  <2>3. Upstream' \subseteq Upstream
    BY <2>1 DEF Upstream
  <2> QED BY <1>1, <2>2, <2>3, FewerOut DEF BoundInv, OpenTurn
<1>3. CASE Reopen
  <2>1. pc' = pc
    BY <1>3 DEF Reopen
  <2>2. Quiet' /\ Upstream' = Upstream
    BY <1>1, <2>1 DEF Quiet, Upstream
  <2> QED BY <1>1, <2>2, FewerOut DEF BoundInv, OpenTurn
<1>4. ASSUME NEW c \in Call, Answer(c) PROVE BoundInv'
  <2>1. \A d \in Call : pc'[d] = IF d = c THEN "ending" ELSE pc[d]
    BY <1>4 DEF Answer, BoundInv, IInv, TypeOK
  <2>2. Upstream' \subseteq Upstream
    BY <2>1 DEF Upstream
  <2>3. GivesBack(c)'
    BY <1>1, <1>4, <2>1 DEF GivesBack, Answer, Quiet
  <2> QED BY <2>2, <2>3, FewerOut DEF BoundInv, OpenTurn
<1> QED BY <1>2, <1>3, <1>4

\* A continuation that neither takes nor gives back a slot.
LEMMA SameBound ==
  ASSUME BoundInv, IInv', NEW c \in Call, Hop(c) \/ Enqueue(c) \/ Send(c)
  PROVE  BoundInv'
<1> USE DEF Runs
<1>1. /\ ready # <<>> /\ Head(ready) = c /\ pc[c] \in {"hop", "granted"}
      /\ active' = active /\ closed' = closed
  BY DEF Hop, Enqueue, Send
<1>2. /\ ~GivesBack(c) /\ ~TakesOver(c)
      /\ \A d \in Call : d # c => ~GivesBack(d) /\ ~TakesOver(d)
  <2>1. \A d \in Call : Head(<<d>>) = d
    OBVIOUS
  <2> QED BY <1>1, <2>1 DEF GivesBack, TakesOver
<1>3. ~closed => Quiet /\ active <= MaxActive
  BY <1>2 DEF BoundInv, OpenTurn
<1>4. PICK p : /\ pc' = [pc EXCEPT ![c] = p]
               /\ p = "ending" => closed
               /\ p = "upstream" => ~closed
               /\ p \in {"hop", "waiting", "ending", "upstream"}
  <2>1. CASE Hop(c)
    <3>1. pc' = [pc EXCEPT ![c] = "hop"]
      BY <2>1 DEF Hop, BoundInv, IInv, TypeOK
    <3> QED BY <3>1
  <2>2. CASE Enqueue(c)
    BY <2>2 DEF Enqueue
  <2>3. CASE Send(c)
    BY <2>3 DEF Send
  <2> QED BY <2>1, <2>2, <2>3
<1>5. \A d \in Call : pc'[d] = IF d = c THEN p ELSE pc[d]
  BY <1>4 DEF BoundInv, IInv, TypeOK
<1>6. OpenTurn'
  <2>1. ~closed => Quiet'
    BY <1>3, <1>4, <1>5 DEF Quiet, Moving
  <2> QED BY <1>1, <1>3, <2>1 DEF OpenTurn
<1>7. UpstreamBounded'
  <2>1. CASE p # "upstream"
    <3>1. Upstream' \subseteq Upstream
      BY <1>5, <2>1 DEF Upstream
    <3> QED BY <3>1, FewerOut DEF BoundInv
  <2>2. CASE p = "upstream"
    <3>1. active' <= MaxActive /\ active' = Cardinality(Holding')
      BY <1>1, <1>3, <1>4, <2>2 DEF IInv, SlotsCounted
    <3>2. Upstream' \subseteq Holding' /\ Holding' \in SUBSET Call
      BY DEF Upstream, Holding
    <3>3. IsFiniteSet(Call)
      BY GateAssumption
    <3>4. IsFiniteSet(Holding')
      BY <3>2, <3>3, FS_Subset
    <3>5. Cardinality(Upstream') <= Cardinality(Holding') /\ IsFiniteSet(Upstream')
      BY <3>2, <3>4, FS_Subset
    <3>6. Cardinality(Upstream') \in Nat /\ Cardinality(Holding') \in Nat /\ MaxActive \in Nat
      BY <3>4, <3>5, FS_CardinalityType, GateAssumption
    <3> QED BY <3>1, <3>5, <3>6 DEF UpstreamBounded
  <2> QED BY <2>1, <2>2
<1> QED BY <1>6, <1>7 DEF BoundInv

\* A free slot is taken, or the one that was handed on.
LEMMA TakeBound ==
  ASSUME BoundInv, IInv', NEW c \in Call, Take(c)
  PROVE  BoundInv'
<1> USE DEF Runs
<1>1. /\ ready # <<>> /\ Head(ready) = c /\ active' = active + 1 /\ closed' = closed
      /\ pc[c] = "woken" \/ (pc[c] = "hop" /\ active < MaxActive)
      /\ active \in Nat /\ MaxActive \in Nat
  BY GateAssumption DEF Take, Busy, BoundInv, IInv, TypeOK
<1>2. \A d \in Call : pc'[d] = IF d = c THEN "granted" ELSE pc[d]
  BY DEF Take, BoundInv, IInv, TypeOK
<1>3. Upstream' \subseteq Upstream
  BY <1>2 DEF Upstream
<1>4. \A d \in Call : ~GivesBack(d) /\ (TakesOver(d) => d = c)
  <2>1. \A d \in Call : Head(<<d>>) = d
    OBVIOUS
  <2> QED BY <1>1, <2>1 DEF GivesBack, TakesOver
<1>5. ~closed => Quiet' /\ active < MaxActive
  <2> SUFFICES ASSUME ~closed PROVE Quiet' /\ active < MaxActive
    OBVIOUS
  <2>1. CASE Quiet
    BY <1>1, <1>2, <2>1 DEF Quiet, Moving
  <2>2. CASE TakesOver(c)
    BY <1>2, <2>2 DEF Quiet, Moving, TakesOver
  <2> QED BY <1>4, <2>1, <2>2 DEF BoundInv, OpenTurn
<1>6. OpenTurn'
  BY <1>1, <1>5 DEF OpenTurn
<1> QED BY <1>3, <1>6, FewerOut DEF BoundInv

\* A slot is given back, and the first waiter woken for it.
LEMMA ReleaseBound ==
  ASSUME BoundInv, IInv', NEW c \in Call, Release(c)
  PROVE  BoundInv'
<1> USE DEF Runs
<1>1. /\ ready # <<>> /\ Head(ready) = c /\ pc[c] = "ending"
      /\ active' = active - 1 /\ closed' = closed
      /\ active \in Nat /\ MaxActive \in Nat
  BY GateAssumption DEF Release, GiveBack, BoundInv, IInv, TypeOK
<1>2. PICK again \in BOOLEAN :
        /\ ready' = Tail(ready) \o Resolved(waiting) \o (IF again THEN <<c>> ELSE <<>>)
        /\ pc' = [d \in Call |-> IF d = c THEN (IF again THEN "hop" ELSE "idle")
                                 ELSE IF Resolved(waiting) = <<d>> THEN "woken" ELSE pc[d]]
  BY DEF Release
<1>3. Upstream' \subseteq Upstream
  BY <1>2 DEF Upstream
<1>4. ~closed => GivesBack(c)
  <2> SUFFICES ASSUME ~closed PROVE GivesBack(c)
    OBVIOUS
  <2>1. ~Quiet
    BY <1>1 DEF Quiet, Moving
  <2>2. \A d \in Call : ~TakesOver(d)
    BY <1>1 DEF TakesOver
  <2>3. \A d \in Call : GivesBack(d) => d = c
    <3>1. \A d \in Call : Head(<<d>>) = d
      OBVIOUS
    <3> QED BY <1>1, <3>1 DEF GivesBack
  <2> QED BY <2>1, <2>2, <2>3 DEF BoundInv, OpenTurn
<1>5. ASSUME ~closed, waiting = <<>> PROVE Quiet' /\ active' <= MaxActive
  <2>1. \A d \in Call : Resolved(waiting) # <<d>>
    BY <1>5 DEF Resolved
  <2>2. \A d \in Call : pc'[d] \in {"hop", "idle"} \/ (d # c /\ pc'[d] = pc[d])
    BY <1>2, <2>1
  <2> QED BY <1>1, <1>4, <1>5, <2>2 DEF Quiet, Moving, GivesBack
<1>6. ASSUME ~closed, waiting # <<>> PROVE \E d \in Call : TakesOver(d)'
  <2> DEFINE w == Head(waiting)
             next == IF again THEN <<c>> ELSE <<>>
  <2>1. w \in Call /\ w # c
    <3>1. waiting \in Seq(Call) /\ w \in Call /\ w = waiting[1] /\ Len(waiting) \in Nat \ {0}
      BY <1>6, HeadTailProperties, EmptySeq DEF BoundInv, IInv, TypeOK
    <3>2. pc[w] = "waiting"
      BY <3>1 DEF BoundInv, IInv, WaitingInv
    <3> QED BY <1>1, <3>1, <3>2
  <2>2. Resolved(waiting) = <<w>>
    BY <1>6 DEF Resolved
  <2>3. ready = <<c>>
    BY <1>4, <1>6 DEF GivesBack
  <2>4. Tail(ready) = <<>>
    BY <2>3
  <2>5. next \in Seq(Call)
    OBVIOUS
  <2> HIDE DEF w, next
  <2>6. ready' # <<>> /\ Head(ready') = w
    <3>1. ready' = (<<>> \o <<w>>) \o next
      BY <1>2, <2>2, <2>4 DEF next
    <3>2. <<w>> \in Seq(Call)
      BY <2>1
    <3>3. ready' = <<w>> \o next
      BY <3>1, <3>2, ConcatEmptySeq
    <3>4. Len(<<w>>) = 1 /\ <<w>>[1] = w
      OBVIOUS
    <3>5. Len(next) \in Nat
      BY <2>5, LenProperties
    <3>6. ready' \in Seq(Call) /\ Len(ready') = 1 + Len(next) /\ ready'[1] = w
      BY <2>5, <3>2, <3>3, <3>4, <3>5, ConcatProperties
    <3>7. ready' # <<>>
      BY <3>5, <3>6, EmptySeq
    <3> QED BY <3>6, <3>7, HeadTailProperties
  <2>7. \A d \in Call : Resolved(waiting) = <<d>> <=> d = w
    BY <2>2
  <2>8. \A d \in Call : pc'[d] = IF d = c THEN (IF again THEN "hop" ELSE "idle")
                                 ELSE IF d = w THEN "woken" ELSE pc[d]
    BY <1>2, <2>7
  <2>9. pc'[w] = "woken" /\ \A d \in Call \ {w} : pc'[d] \notin Moving
    BY <1>4, <1>6, <2>1, <2>8 DEF GivesBack, Moving
  <2>10. active' < MaxActive
    BY <1>1, <1>4, <1>6 DEF GivesBack
  <2> QED BY <2>1, <2>6, <2>9, <2>10 DEF TakesOver
<1>7. OpenTurn'
  BY <1>1, <1>5, <1>6 DEF OpenTurn
<1> QED BY <1>3, <1>7, FewerOut DEF BoundInv

\* Autotask answers the fourth call at once with 429: never more than MaxActive
\* are out at a time, although a woken call takes its slot later than the release
\* that freed it and does not look at the count (acquireEndpointSlot).  What is
\* assumed: a cooldown does not end between two continuations of one turn.
THEOREM Bounded == ASSUME EndsMidTurn = FALSE PROVE Spec => []UpstreamBounded
<1>1. Init => BoundInv
  <2> SUFFICES ASSUME Init PROVE BoundInv
    OBVIOUS
  <2>1. Upstream = {} /\ Quiet /\ active = 0
    BY DEF Init, Upstream, Quiet, Moving
  <2>2. MaxActive \in Nat
    BY GateAssumption
  <2>3. UpstreamBounded
    BY <2>1, <2>2, FS_EmptySet DEF UpstreamBounded
  <2> QED BY <2>1, <2>2, <2>3, InitInv DEF BoundInv, OpenTurn
<1>2. BoundInv /\ [Next]_vars => BoundInv'
  <2> SUFFICES ASSUME BoundInv, [Next]_vars PROVE BoundInv'
    OBVIOUS
  <2>1. IInv'
    BY NextInv DEF BoundInv
  <2>2. ASSUME UNCHANGED vars PROVE BoundInv'
    BY <2>1, <2>2 DEF vars, BoundInv, OpenTurn, Quiet, GivesBack, TakesOver, UpstreamBounded, Upstream
  <2>3. ASSUME Continue PROVE BoundInv'
    BY <2>1, <2>3, SameBound, TakeBound, ReleaseBound DEF Continue
  <2> QED BY <2>1, <2>2, <2>3, TurnBound DEF Next
<1>3. BoundInv => UpstreamBounded
  BY DEF BoundInv
<1> QED BY <1>1, <1>2, <1>3, PTL DEF Spec
=============================================================================
