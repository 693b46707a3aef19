--------------------------- MODULE AuthBreakerProofs ---------------------------
(***************************************************************************)
(* Proofs about AuthBreaker: its types, that a single call tests the login *)
(* after a pause while its window is open, that only failed tests lead     *)
(* towards a hold, and how many rejected logins the breaker spends at      *)
(* most.  What a late zone lookup adds is counted as a fault.              *)
(*                                                                         *)
(* The inductive invariant adds three facts to the type invariant: what a  *)
(* pause and a hold look like (Rows), that a check that is still running   *)
(* finds no pause that may be escalated, or one that has a fault to its    *)
(* credit (Checked), and that the gate is closed or the block gone while a *)
(* probe is out whose window has not ended (Probes).                       *)
(***************************************************************************)
EXTENDS AuthBreaker, FiniteSetTheorems, TLAPS

Checking(c) == call[c].pc \in {"relook", "confirm"}

\* A hold is not being probed; a pause has a failure to spare.
Rows ==
  /\ block.kind = "held" => block.probe = "none"
  /\ block.kind = "pause" => block.failures <= MaxProbes
  /\ db.kind = "held" => db.probe = "none"
  /\ db.kind = "pause" => db.failures <= MaxProbes

Checked ==
  \A c \in Caller : Checking(c) =>
    /\ ~call[c].probing
    /\ block.kind \in Confirmed => Counted(block) \/ block.failures <= tested + faults

Probes == OnTime # {} => block.kind = "none" \/ block.live \/ block.probe = "open"

IInv == TypeOK /\ Rows /\ Checked /\ Probes /\ OneProbe /\ OnlyProbesEscalate

\* No block, the first check and an unused caller are well formed.
LEMMA Constants ==
  ASSUME BreakerAssumption
  PROVE  /\ NoBlock \in Block /\ NoBlock.kind = "none" /\ NoBlock.failures = 0 /\ NoBlock.probe = "none"
         /\ Provisional \in Block /\ Provisional.kind = "provisional" /\ Provisional.live
         /\ NoRequest \in Request /\ NoRequest.pc = "idle"
<1>1. (CHOOSE c \in Cred : TRUE) \in Cred  BY DEF BreakerAssumption
<1>2. NoBlock \in Block /\ NoBlock.kind = "none" /\ NoBlock.failures = 0 /\ NoBlock.probe = "none"
  BY <1>1 DEF NoBlock, Unconfirmed, Block, Failures, Confirmed, BreakerAssumption
<1>3. Provisional \in Block /\ Provisional.kind = "provisional" /\ Provisional.live
  BY <1>1 DEF Provisional, Unconfirmed, Block, Failures, Confirmed, BreakerAssumption
<1>4. NoRequest \in Request /\ NoRequest.pc = "idle"  BY DEF NoRequest, Request
<1> QED  BY <1>2, <1>3, <1>4

\* tripAuthBlock: the block it leaves is confirmed, running and not probed, and
\* it is one failure further at most.
LEMMA TripStep ==
  ASSUME BreakerAssumption, TypeOK, Rows, Trip
  PROVE  /\ block' \in Block /\ db' \in Block /\ Rows'
         /\ block'.kind \in Confirmed /\ Counted(block')
         /\ block'.kind = "held" => block'.live
         /\ \/ block' = block
            \/ block.kind \in Confirmed /\ ~Counted(block) /\ block'.failures = block.failures + 1
            \/ block'.failures = 1
<1>1. CASE Counted(block)
  BY <1>1 DEF Trip, Counted, Rows, TypeOK, Confirmed
<1>2. CASE ~Counted(block)
  <2> DEFINE n == IF block.kind \in Confirmed THEN block.failures + 1 ELSE 1
             new == [kind |-> IF Held(n) THEN "held" ELSE "pause", live |-> TRUE,
                     failures |-> n, probe |-> "none", fp |-> cred]
  <2>1. block' = new /\ db' \in {new, db}  BY <1>2 DEF Trip, Persist
  <2>2. block.kind # "held"  BY <1>2 DEF Rows, TypeOK, Counted, Confirmed
  <2>3. n \in 1..MaxProbes + 1
    BY <2>2 DEF Rows, TypeOK, Block, Failures, Confirmed, BreakerAssumption
  <2>4. new \in Block /\ new.kind \in Confirmed /\ Counted(new)
    BY <2>3 DEF Block, Failures, Confirmed, TypeOK, Counted
  <2>5. new.kind = "pause" => new.failures <= MaxProbes
    BY <2>3 DEF Held, BreakerAssumption
  <2>6. Rows'  BY <2>1, <2>5 DEF Rows
  <2>7. new.failures = n /\ new.live  OBVIOUS
  <2> HIDE DEF new
  <2> QED  BY <1>2, <2>1, <2>4, <2>6, <2>7 DEF TypeOK
<1> QED  BY <1>1, <1>2

\* The initial states satisfy the invariant.
LEMMA InitHolds == ASSUME BreakerAssumption PROVE Init => IInv
<1> SUFFICES ASSUME Init PROVE IInv  OBVIOUS
<1>1. \A c \in Caller : call[c].pc = "idle"  BY Constants DEF Init
<1>2. Probing = {}  BY <1>1 DEF Probing
<1>3. TypeOK
  <2>1. call \in [Caller -> Request]  BY Constants DEF Init
  <2>2. 0 \in 0..MaxProbes + 1 /\ 0 \in 0..MaxFaults  BY DEF BreakerAssumption
  <2>3. block \in Block /\ db \in Block /\ block.kind = "none"  BY Constants DEF Init
  <2> QED  BY <2>1, <2>2, <2>3 DEF Init, TypeOK
<1>4. Rows /\ OnlyProbesEscalate  BY Constants DEF Init, Rows, OnlyProbesEscalate, Confirmed
<1>5. OnTime = {} /\ Late = {} /\ Cardinality(Late) = 0
  BY <1>2, FS_EmptySet DEF OnTime, Late
<1>6. OneProbe  BY <1>5 DEF OneProbe, Init
<1> QED  BY <1>1, <1>3, <1>4, <1>5, <1>6 DEF IInv, Checked, Checking, Probes

\* What leaves the requests alone, or makes one of them idle.
LEMMA Requests ==
  ASSUME BreakerAssumption, call \in [Caller -> Request], NEW c \in Caller, Idle(c)
  PROVE  /\ call' \in [Caller -> Request]
         /\ Probing' = Probing \ {c} /\ OnTime' = OnTime \ {c} /\ Late' = Late \ {c}
         /\ \A d \in Caller : Checking(d)' => d # c /\ Checking(d) /\ call'[d] = call[d]
<1>1. /\ call' \in [Caller -> Request] /\ call'[c] = NoRequest
      /\ \A d \in Caller : d # c => call'[d] = call[d]
  BY Constants DEF Idle
<1>2. Probing' = Probing \ {c}  BY <1>1, Constants DEF Probing
<1>3. OnTime' = OnTime \ {c}  BY <1>1, <1>2 DEF OnTime, Probing
<1>4. Late' = Late \ {c}  BY <1>2, <1>3 DEF Late
<1> QED  BY <1>1, <1>2, <1>4, <1>3, Constants DEF Checking

\* The late probes are counted: no step adds one, or a fault adds those that were
\* on time, which is one at most.
LEMMA LateKept ==
  ASSUME BreakerAssumption, IInv, faults' \in Nat, OnTime' \subseteq OnTime,
         \/ Late' \subseteq Late /\ faults' >= faults
         \/ Late' \subseteq Probing /\ faults' = faults + 1
  PROVE  OneProbe'
<1>1. IsFiniteSet(Probing) /\ Late \subseteq Probing /\ OnTime \subseteq Probing
  <2>1. Probing \subseteq Caller  BY DEF Probing
  <2> QED  BY <2>1, FS_Subset DEF BreakerAssumption, Late, OnTime
<1>2. IsFiniteSet(Late) /\ Cardinality(Late) \in Nat /\ Cardinality(Late) <= faults /\ faults \in Nat
  BY <1>1, FS_Subset, FS_CardinalityType DEF IInv, OneProbe, TypeOK
<1>3. CASE Late' \subseteq Late /\ faults' >= faults
  <2>1. Cardinality(Late') <= Cardinality(Late) /\ Cardinality(Late') \in Nat
    BY <1>2, <1>3, FS_Subset, FS_CardinalityType
  <2> QED  BY <1>2, <1>3, <2>1 DEF IInv, OneProbe
<1>4. CASE Late' \subseteq Probing /\ faults' = faults + 1
  <2>1. PICK p : Probing \subseteq Late \cup {p}  BY DEF IInv, OneProbe, Late
  <2> DEFINE more == Late \cup {p}
  <2>2. /\ IsFiniteSet(more)
        /\ Cardinality(more) = IF p \in Late THEN Cardinality(Late) ELSE Cardinality(Late) + 1
    BY <1>2, FS_AddElement
  <2>3. Late' \subseteq more  BY <1>4, <2>1
  <2> HIDE DEF more
  <2>4. Cardinality(Late') <= Cardinality(more) /\ Cardinality(Late') \in Nat
    BY <2>2, <2>3, FS_Subset, FS_CardinalityType
  <2> QED  BY <1>2, <1>4, <2>2, <2>4 DEF IInv, OneProbe
<1> QED  BY <1>3, <1>4

\* The gate.
LEMMA BeginHolds ==
  ASSUME BreakerAssumption, IInv, NEW c \in Caller, Begin(c)
  PROVE  IInv'
<1> DEFINE b == Mine(block)
<1>0. b = block \/ b = NoBlock  BY DEF Mine
<1>1. b \in Block /\ b.kind # "held"
  BY <1>0, Constants DEF IInv, TypeOK, Begin, Closed, Confirmed
<1>2. /\ block' = IF b.kind = "none" THEN b ELSE [b EXCEPT !.probe = "open"]
      /\ ~Closed(b)
  BY DEF Begin
<1>3. block' \in Block /\ block'.kind = b.kind /\ block'.failures = b.failures /\ block'.live = b.live
  BY <1>1, <1>2 DEF Block
<1>4. TypeOK'
  <2>1. db' \in Block  BY Constants DEF Begin, Persist, IInv, TypeOK
  <2>2. call' \in [Caller -> Request]
    <3> DEFINE q == [pc |-> "sent", probing |-> b.kind # "none", late |-> FALSE, isZoneRetry |-> FALSE]
    <3>1. q \in Request  BY DEF Request
    <3>2. call' = call \/ call' = [call EXCEPT ![c] = q]  BY DEF Begin
    <3> HIDE DEF q
    <3> QED  BY <3>1, <3>2 DEF IInv, TypeOK
  <2>3. tested' \in 0..MaxProbes + 1  BY DEF Begin, IInv, TypeOK, BreakerAssumption
  <2> QED  BY <1>1, <1>3, <2>1, <2>2, <2>3 DEF Begin, IInv, TypeOK
<1>5. Rows'
  <2>1. b.kind = "pause" => b.failures <= MaxProbes
    BY <1>0, Constants DEF IInv, Rows
  <2>2. db' = db \/ db' = NoBlock  BY DEF Begin, Persist
  <2> QED  BY <1>1, <1>3, <2>1, <2>2, Constants DEF IInv, Rows
<1>6. Checked'
  <2>1. SUFFICES ASSUME NEW d \in Caller, Checking(d)'
                 PROVE  /\ ~call'[d].probing
                        /\ block'.kind \in Confirmed => block'.failures <= tested' + faults'
    BY DEF Checked
  <2>2. Checking(d) /\ call'[d] = call[d]
    BY <2>1 DEF Begin, Checking, IInv, TypeOK
  <2>3. /\ ~call[d].probing
        /\ block.kind \in Confirmed => Counted(block) \/ block.failures <= tested + faults
    BY <2>2 DEF IInv, Checked
  <2>4. CASE b = NoBlock  BY <1>3, <2>2, <2>3, <2>4, Constants DEF Confirmed
  <2>5. CASE b = block
    <3>1. block.kind \in Confirmed => ~Counted(block)  BY <1>2, <2>5 DEF Counted, Closed, Confirmed
    <3>2. tested' = tested /\ faults' = faults
      <4>1. b = block => tested' = tested  BY DEF Begin
      <4> QED  BY <2>5, <4>1 DEF Begin
    <3> QED  BY <1>3, <2>2, <2>3, <2>5, <3>1, <3>2
  <2> QED  BY <1>0, <2>4, <2>5
<1>7. Probes' /\ OneProbe'
  <2>0. faults' = faults /\ faults \in Nat  BY DEF Begin, IInv, TypeOK
  <2>1. CASE b.kind = "none"
    <3>1. OnTime' = OnTime /\ Late' = Late
      BY <2>1 DEF Begin, Probing, OnTime, Late, IInv, TypeOK
    <3>2. OneProbe'  BY <2>0, <3>1, LateKept
    <3> QED  BY <1>3, <2>1, <3>1, <3>2 DEF IInv, Probes
  <2>2. CASE b.kind # "none"
    <3>1. b = block  BY <1>0, <2>2, Constants
    <3>2. OnTime = {}  BY <1>2, <2>2, <3>1 DEF Closed, ProbeBusy, IInv, Probes
    <3>3. block'.probe = "open"  BY <1>1, <1>2, <2>2 DEF Block
    <3>4. (\A d \in OnTime' : d = c) /\ Late' = Late
      <4>1. CASE call' = call  BY <3>2, <4>1 DEF OnTime, Probing, Late
      <4>2. CASE call' = [call EXCEPT ![c] = [pc |-> "sent", probing |-> b.kind # "none",
                                              late |-> FALSE, isZoneRetry |-> FALSE]]
        <5>1. /\ call'[c].pc = "sent" /\ call'[c].probing /\ ~call'[c].late
              /\ \A d \in Caller : d # c => call'[d] = call[d]
          BY <2>2, <4>2 DEF IInv, TypeOK
        <5>2. c \notin Probing  BY DEF Begin, Probing
        <5>3. Probing' = Probing \cup {c}  BY <5>1 DEF Probing
        <5>4. OnTime' = OnTime \cup {c}  BY <5>1, <5>2, <5>3 DEF OnTime, Probing
        <5> QED  BY <3>2, <5>2, <5>3, <5>4 DEF Late
      <4> QED  BY <4>1, <4>2 DEF Begin
    <3>5. OneProbe'  BY <2>0, <3>4 DEF OneProbe, IInv
    <3> QED  BY <3>3, <3>5 DEF Probes
  <2> QED  BY <2>1, <2>2
<1>8. OnlyProbesEscalate'
  <2>1. CASE b = block
    BY <1>3, <2>1 DEF Begin, IInv, OnlyProbesEscalate, Confirmed
  <2>2. CASE b = NoBlock
    BY <1>3, <2>2, Constants DEF OnlyProbesEscalate, Confirmed
  <2> QED  BY <1>0, <2>1, <2>2
<1> QED  BY <1>4, <1>5, <1>6, <1>7, <1>8 DEF IInv

\* A request ends and the block stays, or is gone.
LEMMA EndHolds ==
  ASSUME BreakerAssumption, IInv, NEW c \in Caller, Idle(c),
         UNCHANGED <<cred, login, faults>>, cooldown' \in BOOLEAN, spent' \in Nat,
         \/ block' = block /\ tested' = tested /\ db' = db
         \/ block' = NoBlock /\ db' \in {NoBlock, db} /\ tested' \in {0, tested}
  PROVE  IInv'
<1>1. call \in [Caller -> Request]  BY DEF IInv, TypeOK
<1>2. TypeOK'  BY <1>1, Requests, Constants DEF IInv, TypeOK, BreakerAssumption
<1>3. Rows'  BY Constants DEF IInv, Rows
<1>4. Checked'  BY <1>1, Requests, Constants DEF IInv, Checked, Confirmed
<1>5. Probes' /\ OneProbe'
  <2>1. faults' = faults /\ faults \in Nat  BY DEF IInv, TypeOK
  <2>2. OnTime' \subseteq OnTime /\ Late' \subseteq Late  BY <1>1, Requests
  <2>3. OneProbe'  BY <2>1, <2>2, LateKept
  <2> QED  BY <2>2, <2>3, Constants DEF IInv, Probes
<1>6. OnlyProbesEscalate'  BY Constants DEF IInv, OnlyProbesEscalate, Confirmed
<1> QED  BY <1>2, <1>3, <1>4, <1>5, <1>6 DEF IInv

\* Rejected logins only add to what was spent.
LEMMA SpendNat == ASSUME IInv, Spend(1) PROVE spent' \in Nat
BY DEF IInv, TypeOK, Spend

\* Answers that say the login works, say nothing, or come while it is checked;
\* and checks that do not confirm the rejection.
LEMMA MildAnswersHold ==
  ASSUME BreakerAssumption, IInv, NEW c \in Caller,
         Accepted(c) \/ Inconclusive(c) \/ StragglerRejected(c)
  PROVE  IInv'
<1>1. CASE Accepted(c)  BY <1>1, EndHolds DEF Accepted, Persist, IInv, TypeOK
<1>2. CASE Inconclusive(c)  BY <1>2, EndHolds DEF Inconclusive, IInv, TypeOK
<1>3. CASE StragglerRejected(c)  BY <1>3, EndHolds, SpendNat DEF StragglerRejected, IInv, TypeOK
<1> QED  BY <1>1, <1>2, <1>3

\* A check ends without a rejection: a provisional pause ends with it.
LEMMA NotConfirmedHolds ==
  ASSUME BreakerAssumption, IInv, NEW c \in Caller, NotConfirmed(c)
  PROVE  IInv'
<1>1. call \in [Caller -> Request]  BY DEF IInv, TypeOK
<1>2. Idle(c) /\ (block' = block \/ block' = NoBlock)
      /\ UNCHANGED <<cooldown, cred, db, login, spent, tested>>
  BY DEF NotConfirmed
<1>3. faults' \in 0..MaxFaults  BY DEF NotConfirmed, Fault, IInv, TypeOK, BreakerAssumption
<1>4. TypeOK'  BY <1>1, <1>2, <1>3, Requests, Constants DEF IInv, TypeOK
<1>5. Rows'  BY <1>2, Constants DEF IInv, Rows
<1>6. Checked'
  <2>1. faults' >= faults /\ faults \in Nat /\ faults' \in Nat /\ tested \in Nat /\ block.failures \in Nat
    BY DEF NotConfirmed, Fault, IInv, TypeOK, Block, Failures, BreakerAssumption
  <2> QED  BY <1>1, <1>2, <2>1, Requests, Constants DEF IInv, Checked, Confirmed
<1>7. Probes' /\ OneProbe'
  <2>1. faults' \in Nat /\ faults' >= faults  BY DEF NotConfirmed, Fault, IInv, TypeOK
  <2>2. OnTime' \subseteq OnTime /\ Late' \subseteq Late  BY <1>1, <1>2, Requests
  <2>3. OneProbe'  BY <2>1, <2>2, LateKept
  <2> QED  BY <1>2, <2>2, <2>3, Constants DEF IInv, Probes
<1>8. OnlyProbesEscalate'
  <2>1. faults' >= faults /\ faults \in Nat /\ faults' \in Nat /\ tested \in Nat /\ block.failures \in Nat
    BY DEF NotConfirmed, Fault, IInv, TypeOK, Block, Failures, BreakerAssumption
  <2> QED  BY <1>2, <2>1, Constants DEF IInv, OnlyProbesEscalate, Confirmed
<1> QED  BY <1>4, <1>5, <1>6, <1>7, <1>8 DEF IInv

\* A rejection that pauses the tenant: of a probe, or confirmed by the check.
LEMMA TripHolds ==
  ASSUME BreakerAssumption, IInv, NEW c \in Caller, ProbeRejected(c) \/ ConfirmRejected(c)
  PROVE  IInv'
<1>1. call \in [Caller -> Request]  BY DEF IInv, TypeOK
<1>2. Trip /\ Idle(c) /\ Spend(1) /\ UNCHANGED <<cooldown, cred, login, faults>>
  BY DEF ProbeRejected, ConfirmRejected
<1>3. /\ block' \in Block /\ db' \in Block /\ Rows'
      /\ block'.kind \in Confirmed /\ Counted(block')
      /\ block'.kind = "held" => block'.live
      /\ \/ block' = block
         \/ block.kind \in Confirmed /\ ~Counted(block) /\ block'.failures = block.failures + 1
         \/ block'.failures = 1
  BY <1>2, TripStep DEF IInv
<1>4. tested' \in 0..MaxProbes + 1 /\ tested' >= tested
  BY DEF ProbeRejected, ConfirmRejected, IInv, TypeOK, BreakerAssumption
<1>5. TypeOK'  BY <1>1, <1>2, <1>3, <1>4, Requests, SpendNat DEF IInv, TypeOK
<1>6. Checked'  BY <1>1, <1>2, <1>3, Requests DEF IInv, Checked
<1>7. Probes' /\ OneProbe'
  <2>1. faults' \in Nat /\ faults' >= faults  BY <1>2 DEF IInv, TypeOK
  <2>2. OnTime' \subseteq OnTime /\ Late' \subseteq Late  BY <1>1, <1>2, Requests
  <2>3. OneProbe'  BY <2>1, <2>2, LateKept
  <2> QED  BY <1>3, <2>2, <2>3 DEF Probes, Counted
<1>8. OnlyProbesEscalate'
  <2>1. CASE block' = block
    BY <1>2, <1>4, <2>1 DEF IInv, TypeOK, OnlyProbesEscalate, Block, Failures, BreakerAssumption
  <2>2. CASE block.kind \in Confirmed /\ ~Counted(block) /\ block'.failures = block.failures + 1
    <3>0. /\ block.failures <= tested + 1 + faults /\ block'.failures <= MaxProbes + 1
          /\ faults' = faults /\ faults \in Nat /\ tested \in Nat /\ tested' \in Nat /\ block.failures \in Nat
          /\ MaxProbes \in Nat
      BY <1>2, <1>3, <1>4, <2>2
      DEF IInv, TypeOK, OnlyProbesEscalate, Block, Failures, BreakerAssumption
    <3>1. CASE ProbeRejected(c)
      <4>1. tested' = tested + 1 \/ (tested > MaxProbes /\ tested' = tested)
        BY <3>1 DEF ProbeRejected
      <4> QED  BY <2>2, <3>0, <4>1 DEF OnlyProbesEscalate
    \* A check that outlasted the pause: the fault is to its credit.
    <3>2. CASE ConfirmRejected(c)
      <4>1. block.failures <= tested + faults /\ tested' = tested
        BY <2>2, <3>2 DEF IInv, Checked, ConfirmRejected, Checking
      <4> QED  BY <2>2, <3>0, <4>1 DEF OnlyProbesEscalate
    <3> QED  BY <3>1, <3>2
  <2>3. CASE block'.failures = 1
    <3> DEFINE n == block'.failures
               t == tested'
    <3>1. t \in Nat  BY <1>4 DEF BreakerAssumption
    <3>2. n = 1  BY <2>3
    <3> HIDE DEF n, t
    <3>3. n <= t + 1 + faults'  BY <1>2, <3>1, <3>2 DEF IInv, TypeOK
    <3> QED  BY <3>3 DEF OnlyProbesEscalate, n, t
  <2> QED  BY <1>3, <2>1, <2>2, <2>3
<1> QED  BY <1>3, <1>5, <1>6, <1>7, <1>8 DEF IInv

\* A first 401 and the new look-up of the zone.
LEMMA CheckHolds ==
  ASSUME BreakerAssumption, IInv, NEW c \in Caller,
         FirstRejected(c) \/ ZoneSame(c) \/ ZoneMoved(c)
  PROVE  IInv'
<1>0. call \in [Caller -> Request]  BY DEF IInv, TypeOK
<1>1. CASE FirstRejected(c)
  <2>1. PICK step \in {"relook", "confirm"} : call' = [call EXCEPT ![c].pc = step]
    BY <1>1 DEF FirstRejected
  <2>2. call' \in [Caller -> Request]  BY <1>0, <2>1 DEF Request
  <2>3. OnTime' \subseteq OnTime /\ Late' \subseteq Late /\ OneProbe'
    <3>1. ~call[c].probing /\ faults' = faults /\ faults \in Nat
      BY <1>1 DEF FirstRejected, IInv, TypeOK
    <3>2. /\ \A d \in Caller : d # c => call'[d] = call[d]
          /\ ~call'[c].probing
      BY <1>0, <2>1, <3>1 DEF Request
    <3>3. Probing' = Probing  BY <3>1, <3>2 DEF Probing
    <3>4. OnTime' = OnTime  BY <3>1, <3>2, <3>3 DEF OnTime, Probing
    <3>5. Late' = Late  BY <3>3, <3>4 DEF Late
    <3> QED  BY <3>1, <3>4, <3>5, LateKept
  <2>4. block' = Provisional /\ ~call[c].probing
        /\ UNCHANGED <<cooldown, cred, db, login, tested, faults>>
    BY <1>1 DEF FirstRejected
  <2>5. TypeOK'  BY <1>1, <2>2, <2>4, SpendNat, Constants DEF FirstRejected, IInv, TypeOK
  <2>6. Rows' /\ Probes' /\ OnlyProbesEscalate'
    BY <2>3, <2>4, Constants DEF IInv, Rows, Probes, OnlyProbesEscalate, Confirmed
  <2>7. Checked'
    <3>1. \A d \in Caller : call'[d].probing = call[d].probing /\ (d # c => call'[d] = call[d])
      BY <1>0, <2>1 DEF Request
    <3> QED  BY <2>4, <3>1, Constants DEF IInv, Checked, Checking, Confirmed
  <2> QED  BY <2>3, <2>5, <2>6, <2>7 DEF IInv
<1>2. CASE ZoneSame(c)
  <2>1. call' = [call EXCEPT ![c].pc = "confirm"] /\ call[c].pc = "relook"
    BY <1>2 DEF ZoneSame
  <2>2. call' \in [Caller -> Request]  BY <1>0, <2>1 DEF Request
  <2>3. OnTime' = OnTime /\ Late' = Late  BY <1>0, <2>1 DEF Probing, OnTime, Late, Request
  <2>4. \A d \in Caller : /\ call'[d].probing = call[d].probing
                          /\ Checking(d)' => Checking(d)
    BY <1>0, <2>1 DEF Request, Checking
  <2>5. Checked'  BY <1>2, <2>4 DEF ZoneSame, IInv, Checked
  <2>6. OneProbe'  BY <1>2, <2>3, LateKept DEF ZoneSame, IInv, TypeOK
  <2> QED  BY <1>2, <2>2, <2>3, <2>5, <2>6 DEF ZoneSame, IInv, TypeOK, Rows, Probes, OnlyProbesEscalate
<1>3. CASE ZoneMoved(c)
  <2>1. ~call[c].probing  BY <1>3 DEF ZoneMoved, IInv, Checked, Checking
  <2>2. block' = NoBlock /\ tested' = 0 /\ UNCHANGED <<cooldown, cred, db, login, spent>>
    BY <1>3 DEF ZoneMoved
  <2>3. /\ call' \in [Caller -> Request] /\ OnTime' = OnTime /\ Late' = Late
        /\ \A d \in Caller : Checking(d)' => Checking(d) /\ call'[d].probing = call[d].probing
    <3>1. CASE Idle(c)
      BY <1>0, <1>3, <3>1, Requests DEF ZoneMoved, Probing, OnTime, Late
    <3>2. CASE call' = [call EXCEPT ![c].pc = "sent", ![c].isZoneRetry = TRUE]
      <4>1. /\ \A d \in Caller : d # c => call'[d] = call[d]
            /\ call'[c].pc = "sent" /\ ~call'[c].probing /\ call' \in [Caller -> Request]
        BY <1>0, <2>1, <3>2 DEF Request
      <4>2. Probing' = Probing  BY <2>1, <4>1 DEF Probing
      <4>3. OnTime' = OnTime  BY <2>1, <4>1, <4>2 DEF OnTime, Probing
      <4>4. Late' = Late  BY <4>2, <4>3 DEF Late
      <4> QED  BY <2>1, <4>1, <4>3, <4>4 DEF Checking
    <3> QED  BY <1>3, <3>1, <3>2 DEF ZoneMoved
  <2>4. TypeOK'
    BY <1>3, <2>2, <2>3, Constants DEF ZoneMoved, Fault, IInv, TypeOK, BreakerAssumption
  <2>5. Checked'  BY <2>2, <2>3, Constants DEF IInv, Checked, Confirmed
  <2>6. Rows' /\ Probes' /\ OnlyProbesEscalate'
    BY <2>2, <2>3, Constants DEF IInv, Rows, Probes, OnlyProbesEscalate, Confirmed
  <2>7. faults' \in Nat /\ faults' >= faults  BY <1>3 DEF ZoneMoved, Fault, IInv, TypeOK
  <2>8. OneProbe'  BY <2>3, <2>7, LateKept
  <2> QED  BY <2>4, <2>5, <2>6, <2>8 DEF IInv
<1> QED  BY <1>1, <1>2, <1>3

\* A deadline that passes leaves no probe on time: none is out, or they are late
\* now, for a fault.
LEMMA Passed ==
  ASSUME BreakerAssumption, IInv,
         (Fault /\ Overdue) \/ (OnTime = {} /\ UNCHANGED <<call, faults>>)
  PROVE  /\ call' \in [Caller -> Request] /\ OnTime' = {} /\ OneProbe'
         /\ faults' \in 0..MaxFaults /\ faults \in Nat /\ faults' \in Nat /\ faults' >= faults
         /\ \A c \in Caller : call'[c].pc = call[c].pc /\ call'[c].probing = call[c].probing
<1>0. call \in [Caller -> Request] /\ faults \in 0..MaxFaults /\ MaxFaults \in Nat
  BY DEF IInv, TypeOK, BreakerAssumption
<1>1. CASE Fault /\ Overdue
  <2>1. faults' = faults + 1 /\ faults' \in 0..MaxFaults  BY <1>0, <1>1 DEF Fault
  <2>2. \A c \in Caller : call'[c] = [call[c] EXCEPT !.late = @ \/ c \in Probing]
    BY <1>1 DEF Overdue
  <2>4. \A c \in Caller : /\ call'[c] \in Request /\ call'[c].pc = call[c].pc
                          /\ call'[c].probing = call[c].probing
                          /\ c \in Probing => call'[c].late
    <3> TAKE c \in Caller
    <3> DEFINE l == call[c].late \/ c \in Probing
    <3>1. l \in BOOLEAN /\ (c \in Probing => l)  OBVIOUS
    <3>2. call'[c] = [call[c] EXCEPT !.late = l]  BY <2>2
    <3> HIDE DEF l
    <3> QED  BY <1>0, <3>1, <3>2 DEF Request
  <2>5. call' \in [Caller -> Request]
    <3>1. call' = [c \in Caller |-> [call[c] EXCEPT !.late = @ \/ c \in Probing]]  BY <1>1 DEF Overdue
    <3>2. call' = [c \in Caller |-> call'[c]]  BY <3>1
    <3> QED  BY <2>4, <3>2
  <2>6. Probing' = Probing  BY <2>4 DEF Probing
  <2>7. OnTime' = {}  BY <2>4, <2>6 DEF OnTime, Probing
  <2>8. Late' \subseteq Probing  BY <2>6 DEF Late
  <2>9. OneProbe'  BY <1>0, <2>1, <2>7, <2>8, LateKept
  <2> QED  BY <1>0, <2>1, <2>4, <2>5, <2>7, <2>9
<1>2. CASE OnTime = {} /\ UNCHANGED <<call, faults>>
  <2>1. OnTime' = OnTime /\ Late' = Late  BY <1>2 DEF OnTime, Late, Probing
  <2>2. OneProbe'  BY <1>0, <1>2, <2>1, LateKept
  <2> QED  BY <1>0, <1>2, <2>1, <2>2
<1> QED  BY <1>1, <1>2

\* The clocks.
LEMMA ClockHolds ==
  ASSUME BreakerAssumption, IInv, Clock
  PROVE  IInv'
<1>0. tested \in Nat /\ block \in Block /\ block.failures \in Nat
  BY DEF IInv, TypeOK, Block, Failures, BreakerAssumption
<1>1. CASE PauseEnds
  <2>1. block' = [block EXCEPT !.live = FALSE] /\ block.kind = "pause"
        /\ UNCHANGED <<cooldown, cred, db, login, spent, tested>>
        /\ \/ Fault /\ Overdue
           \/ OnTime = {} /\ (\A c \in Caller : ~Checking(c)) /\ UNCHANGED <<call, faults>>
    BY <1>1 DEF PauseEnds, PassedBy, Checks, Checking
  <2>2. block' \in Block /\ block'.kind = "pause" /\ block'.failures = block.failures
        /\ block'.probe = block.probe
    BY <1>0, <2>1 DEF Block
  <2>3. /\ call' \in [Caller -> Request] /\ OnTime' = {} /\ OneProbe'
        /\ faults' \in 0..MaxFaults /\ faults \in Nat /\ faults' \in Nat /\ faults' >= faults
        /\ \A c \in Caller : Checking(c)' = Checking(c) /\ call'[c].probing = call[c].probing
    BY <2>1, Passed DEF Checking
  <2>4. Checked'
    <3>1. block.failures <= tested + 1 + faults  BY <2>1 DEF IInv, OnlyProbesEscalate, Confirmed
    <3>2. CASE Fault
      <4>1. faults' = faults + 1  BY <3>2 DEF Fault
      <4> QED  BY <1>0, <2>1, <2>2, <2>3, <3>1, <4>1 DEF IInv, Checked
    <3>3. CASE \A c \in Caller : ~Checking(c)  BY <2>3, <3>3 DEF Checked
    <3> QED  BY <2>1, <3>2, <3>3
  <2>5. OnlyProbesEscalate'
    BY <1>0, <2>1, <2>2, <2>3 DEF IInv, OnlyProbesEscalate, Confirmed
  <2> QED  BY <2>1, <2>2, <2>3, <2>4, <2>5 DEF IInv, TypeOK, Rows, Probes
<1>2. CASE ProvisionalEnds
  <2>1. block' = [block EXCEPT !.live = FALSE] /\ block.kind = "provisional"
        /\ Fault /\ Overdue /\ UNCHANGED <<cooldown, cred, db, login, spent, tested>>
    BY <1>2 DEF ProvisionalEnds
  <2>2. block' \in Block /\ block'.kind = "provisional"
    BY <1>0, <2>1 DEF Block
  <2>3. /\ call' \in [Caller -> Request] /\ OnTime' = {} /\ OneProbe' /\ faults' \in 0..MaxFaults
        /\ \A c \in Caller : Checking(c)' = Checking(c) /\ call'[c].probing = call[c].probing
    BY <2>1, Passed DEF Checking
  <2> QED  BY <2>1, <2>2, <2>3 DEF IInv, TypeOK, Rows, Checked, Probes, OnlyProbesEscalate, Confirmed
<1>3. CASE ProbeWindowEnds
  <2>1. block' = [block EXCEPT !.probe = "past"] /\ block.probe = "open"
        /\ UNCHANGED <<cooldown, cred, db, login, spent, tested>>
        /\ \/ Fault /\ Overdue
           \/ OnTime = {} /\ UNCHANGED <<call, faults>>
    BY <1>3 DEF ProbeWindowEnds, PassedBy
  <2>2. /\ block' \in Block /\ block'.kind = block.kind /\ block'.failures = block.failures
        /\ block'.live = block.live
    BY <1>0, <2>1 DEF Block
  <2>3. block.kind # "held" /\ ~Counted(block)  BY <2>1 DEF IInv, Rows, Counted
  <2>4. /\ call' \in [Caller -> Request] /\ OnTime' = {} /\ OneProbe'
        /\ faults' \in 0..MaxFaults /\ faults \in Nat /\ faults' \in Nat /\ faults' >= faults
        /\ \A c \in Caller : Checking(c)' = Checking(c) /\ call'[c].probing = call[c].probing
    BY <2>1, Passed DEF Checking
  <2>5. Checked' /\ OnlyProbesEscalate'
    BY <1>0, <2>1, <2>2, <2>3, <2>4 DEF IInv, Checked, OnlyProbesEscalate, Confirmed
  <2> QED  BY <2>1, <2>2, <2>3, <2>4, <2>5 DEF IInv, TypeOK, Rows, Probes
<1>4. CASE CooldownEnds
  <2>1. OnTime' = OnTime /\ Late' = Late /\ (\A c \in Caller : Checking(c)' = Checking(c))
    BY <1>4 DEF CooldownEnds, OnTime, Late, Probing, Checking
  <2> QED  BY <1>4, <2>1 DEF CooldownEnds, IInv, TypeOK, Rows, Checked, Counted, Probes, OneProbe, OnlyProbesEscalate
<1> QED  BY <1>1, <1>2, <1>3, <1>4 DEF Clock

\* The administrator, restarts, Autotask.
LEMMA WorldHolds ==
  ASSUME BreakerAssumption, IInv, World
  PROVE  IInv'
<1>1. CASE RetryNow
  <2>1. /\ call' = call /\ OnTime' = OnTime /\ Late' = Late
        /\ \A c \in Caller : Checking(c)' = Checking(c)
    BY <1>1 DEF RetryNow, Probing, OnTime, Late, Checking
  <2>2. block' = NoBlock /\ db' \in {NoBlock, db} /\ tested' = 0 /\ spent' = 0
        /\ UNCHANGED <<call, cooldown, cred, login, faults>>
    BY <1>1 DEF RetryNow, Persist
  <2>3. TypeOK'  BY <2>2, Constants DEF IInv, TypeOK, BreakerAssumption
  <2> QED  BY <2>1, <2>2, <2>3, Constants DEF IInv, Rows, Checked, Probes, OneProbe, OnlyProbesEscalate, Confirmed
<1>2. CASE Restart
  <2>1. /\ call' = [c \in Caller |-> NoRequest] /\ cooldown' = FALSE /\ cred' \in Cred
        /\ db' = db /\ tested' = IF block'.failures = 0 THEN 0 ELSE block'.failures - 1
    BY <1>2 DEF Restart
  <2>2. /\ call' \in [Caller -> Request] /\ OnTime' = {} /\ Late' = {}
        /\ \A c \in Caller : ~Checking(c)'
    BY <2>1, Constants DEF Probing, OnTime, Late, Checking
  <2>3. /\ block' \in Block
        /\ block'.kind = "held" => block'.live /\ block'.probe = "none"
        /\ block'.kind = "pause" => block'.failures <= MaxProbes
    <3>1. CASE block' = NoBlock  BY <3>1, Constants
    <3>2. ASSUME NEW live \in BOOLEAN,
                 block' = [db EXCEPT !.live = db.kind = "held" \/ (db.kind = "pause" /\ live)]
          PROVE  /\ block' \in Block
                 /\ block'.kind = "held" => block'.live /\ block'.probe = "none"
                 /\ block'.kind = "pause" => block'.failures <= MaxProbes
      <4> DEFINE l == db.kind = "held" \/ (db.kind = "pause" /\ live)
      <4>1. l \in BOOLEAN /\ (db.kind = "held" => l)  OBVIOUS
      <4>2. block' = [db EXCEPT !.live = l]  BY <3>2
      <4> HIDE DEF l
      <4> QED  BY <4>1, <4>2 DEF IInv, TypeOK, Rows, Block
    <3> QED  BY <1>2, <3>1, <3>2 DEF Restart
  <2>4. tested' \in 0..MaxProbes + 1 /\ block'.failures <= tested' + 1
    BY <2>1, <2>3 DEF Block, Failures, BreakerAssumption
  <2>5. faults' \in 0..MaxFaults /\ login' \in BOOLEAN /\ spent' \in Nat
    BY <1>2 DEF Restart, Fault, IInv, TypeOK, BreakerAssumption
  <2>6. TypeOK'  BY <2>1, <2>2, <2>3, <2>4, <2>5 DEF IInv, TypeOK
  <2>7. OneProbe'
    <3>1. faults' >= faults /\ faults' \in Nat  BY <1>2 DEF Restart, Fault, IInv, TypeOK
    <3> QED  BY <2>2, <3>1, LateKept
  <2>8. OnlyProbesEscalate'
    <3>1. tested' \in Nat /\ faults' \in Nat /\ block'.failures \in Nat
      BY <2>3, <2>4, <2>5 DEF Block, Failures, BreakerAssumption
    <3> QED  BY <2>4, <3>1 DEF OnlyProbesEscalate
  <2> QED  BY <2>1, <2>2, <2>3, <2>6, <2>7, <2>8 DEF IInv, Rows, Checked, Probes
<1>3. CASE LoginBreaks \/ LoginFixed
  <2>1. UNCHANGED <<block, call, cooldown, cred, db, tested, faults>>
        /\ login' \in BOOLEAN /\ spent' \in Nat
    <3>1. CASE LoginBreaks  BY <3>1 DEF LoginBreaks, IInv, TypeOK
    <3>2. CASE LoginFixed  BY <3>2 DEF LoginFixed, IInv, TypeOK
    <3> QED  BY <1>3, <3>1, <3>2
  <2>2. OnTime' = OnTime /\ Late' = Late /\ \A c \in Caller : Checking(c)' = Checking(c)
    BY <2>1 DEF Probing, OnTime, Late, Checking
  <2> QED  BY <2>1, <2>2 DEF IInv, TypeOK, Rows, Checked, Counted, Probes, OneProbe, OnlyProbesEscalate
<1> QED  BY <1>1, <1>2, <1>3 DEF World

\* A step that changes nothing.
LEMMA StutterHolds == ASSUME IInv, UNCHANGED vars PROVE IInv'
<1>1. OnTime' = OnTime /\ Late' = Late /\ (\A c \in Caller : Checking(c)' = Checking(c))
  BY DEF vars, Probing, OnTime, Late, Checking
<1> QED  BY <1>1 DEF vars, IInv, TypeOK, Rows, Checked, Counted, Probes, OneProbe, OnlyProbesEscalate

\* The invariant is inductive, so it holds throughout.
THEOREM Invariance == Spec => []IInv
<1>1. Init => IInv  BY BreakerAssumption, InitHolds
<1>2. IInv /\ [Next]_vars => IInv'
  <2> SUFFICES ASSUME IInv, [Next]_vars PROVE IInv'  OBVIOUS
  <2> USE BreakerAssumption
  <2>1. ASSUME NEW c \in Caller, Begin(c) PROVE IInv'  BY <2>1, BeginHolds
  <2>2. ASSUME NEW c \in Caller, Respond(c) PROVE IInv'
    BY <2>2, MildAnswersHold, NotConfirmedHolds, TripHolds, CheckHolds DEF Respond
  <2>3. CASE Clock  BY <2>3, ClockHolds
  <2>4. CASE World  BY <2>4, WorldHolds
  <2>5. CASE UNCHANGED vars  BY <2>5, StutterHolds
  <2> QED  BY <2>1, <2>2, <2>3, <2>4, <2>5 DEF Next
<1> QED  BY <1>1, <1>2, PTL DEF Spec

\* Every variable keeps its type, and a hold never ends by itself.
THEOREM TypeCorrect == Spec => []TypeOK
<1>1. IInv => TypeOK  BY DEF IInv
<1> QED  BY <1>1, Invariance, PTL

\* After a pause one call tests the login while its window is open (the probe of
\* sendUngated), and every probe that outlasts it took a fault.
THEOREM SingleProbe == Spec => []OneProbe
<1>1. IInv => OneProbe  BY DEF IInv
<1> QED  BY <1>1, Invariance, PTL

\* The failure count of a pause never runs ahead of its failed tests
\* (tripAuthBlock), but for a check that outlasts a pause, which is a fault.
THEOREM StragglersDoNotEscalate == Spec => []OnlyProbesEscalate
<1>1. IInv => OnlyProbesEscalate  BY DEF IInv
<1> QED  BY <1>1, Invariance, PTL
-----------------------------------------------------------------------------
(***************************************************************************)
(* How many rejected logins the breaker may still spend, if nothing more   *)
(* fails (Future): whatever is out may be rejected once, and the rest is   *)
(* what the block allows.  Open, every caller and the check of the first   *)
(* 401 come to it, then the tests of the pause; a test that is out, and on *)
(* time, is counted with what is out.  A rejection spends one and leaves   *)
(* one less (Budget); a fault starts the count again.                      *)
(***************************************************************************)

Out == {c \in Caller : call[c].pc # "idle"}
Most == Cardinality(Caller) + 1 + MaxProbes

Ahead(kind, live, failures, probed, out) ==
  CASE kind = "none" -> Most
    [] kind = "provisional" -> out + MaxProbes + (IF ~live /\ ~probed THEN 1 ELSE 0)
    [] kind = "pause" -> out + MaxProbes + 1 - failures - (IF ~live /\ probed THEN 1 ELSE 0)
    [] kind = "held" -> out
Future == Ahead(Mine(block).kind, block.live, block.failures, OnTime # {}, Cardinality(Out))

\* What n faults allow.
Within(n, s, f) == s + f <= (n + 1) * Most
Budget == Within(faults, spent, 0) /\ (~login => Within(faults, spent, Future))

\* A pause that is saved or running has not been probed; one of other
\* credentials is only met before the first request.
Pauses ==
  /\ db.probe = "none"
  /\ block.kind = "pause" /\ block.live => block.probe = "none"
  /\ block.kind \in Confirmed /\ block.fp # cred => Out = {}

SpendInv == IInv /\ Pauses /\ Budget

\* One request's step, and how many are out after it.
LEMMA OutCounted ==
  ASSUME call \in [Caller -> Request]
  PROVE  /\ IsFiniteSet(Out) /\ Cardinality(Out) \in Nat /\ Cardinality(Caller) \in Nat
         /\ Cardinality(Out) <= Cardinality(Caller)
         /\ \A c \in Out : Cardinality(Out \ {c}) = Cardinality(Out) - 1
         /\ \A c \in Caller \ Out : Cardinality(Out \cup {c}) = Cardinality(Out) + 1
<1>1. IsFiniteSet(Caller) /\ Out \subseteq Caller  BY BreakerAssumption DEF Out
<1>2. IsFiniteSet(Out) /\ Cardinality(Out) <= Cardinality(Caller)  BY <1>1, FS_Subset
<1> QED  BY <1>1, <1>2, FS_CardinalityType, FS_RemoveElement, FS_AddElement

\* What lies ahead is never less than nothing, nor more than everything.
LEMMA FutureBounded ==
  ASSUME TypeOK, Rows
  PROVE  Future \in Nat /\ Future <= Most /\ Most \in Nat
<1>1. Cardinality(Out) \in Nat /\ Cardinality(Caller) \in Nat /\ Cardinality(Out) <= Cardinality(Caller)
  BY OutCounted DEF TypeOK
<1>2. /\ Mine(block) = block \/ Mine(block).kind = "none"
      /\ block.kind \in {"none", "provisional", "pause", "held"} /\ block.failures \in Nat
      /\ block.kind = "pause" => block.failures <= MaxProbes
      /\ MaxProbes \in Nat
  BY Constants, BreakerAssumption DEF Mine, TypeOK, Block, Confirmed, Failures, Rows
<1> QED  BY <1>1, <1>2 DEF Future, Ahead, Most

FutureFits == Future \in Nat /\ Future <= Most

LEMMA FutureBoundedNext == TypeOK' /\ Rows' => FutureFits'
<1>1. TypeOK /\ Rows => FutureFits  BY FutureBounded DEF FutureFits
<1> QED  BY <1>1, PTL

\* The three ways a step keeps the budget: the count starts again, a fault is
\* allowed for, or what is spent is taken from what was ahead.
LEMMA WithinKept ==
  ASSUME Most \in Nat, NEW n \in Nat, NEW s \in Nat, NEW f \in Nat
  PROVE  /\ f <= Most => Within(n, 0, f) /\ Within(n, 0, 0)
         /\ Within(n, s, 0) /\ f <= Most => Within(n + 1, s, f) /\ Within(n + 1, s, 0)
         /\ Within(n, s, f) => /\ Within(n, s, 0)
                               /\ \A g \in Nat : /\ g <= f => Within(n, s, g)
                                                 /\ g < f => Within(n, s + 1, g) /\ Within(n, s + 1, 0)
<1>1. (n + 1) * Most = n * Most + Most /\ (n + 2) * Most = n * Most + Most + Most /\ n * Most \in Nat
  OBVIOUS
<1> DEFINE cap == n * Most
<1>2. cap \in Nat /\ (n + 1) * Most = cap + Most /\ (n + 1 + 1) * Most = cap + Most + Most
  BY <1>1
<1> HIDE DEF cap
<1> QED  BY <1>2 DEF Within

LEMMA StartAgain ==
  ASSUME SpendInv, TypeOK', Rows', spent' = 0
  PROVE  Budget'
<1>1. Future' \in Nat /\ Future' <= Most /\ Most \in Nat /\ faults' \in Nat
  BY FutureBounded, FutureBoundedNext, BreakerAssumption DEF FutureFits, SpendInv, IInv, TypeOK
<1> QED  BY <1>1, WithinKept DEF Budget

LEMMA FaultAllowed ==
  ASSUME SpendInv, TypeOK', Rows', spent' = spent, faults' = faults + 1
  PROVE  Budget'
<1>1. /\ Future' \in Nat /\ Future' <= Most /\ Most \in Nat /\ faults \in Nat /\ spent \in Nat
      /\ Within(faults, spent, 0)
  BY FutureBounded, FutureBoundedNext, BreakerAssumption DEF FutureFits, SpendInv, Budget, IInv, TypeOK
<1>2. Within(faults + 1, spent, Future') /\ Within(faults + 1, spent, 0)
  BY <1>1, WithinKept
<1> QED  BY <1>2 DEF Budget

LEMMA NothingSpent ==
  ASSUME SpendInv, TypeOK', Rows', login' = login, faults' = faults, spent' = spent,
         Future' <= Future
  PROVE  Budget'
<1>1. Future' \in Nat /\ Future \in Nat /\ Most \in Nat /\ faults \in Nat /\ spent \in Nat
  BY FutureBounded, FutureBoundedNext, BreakerAssumption DEF FutureFits, SpendInv, IInv, TypeOK
<1>2. ~login => Within(faults, spent, Future')
  BY <1>1, WithinKept DEF SpendInv, Budget
<1> QED  BY <1>2 DEF SpendInv, Budget

LEMMA TakenFromAhead ==
  ASSUME SpendInv, TypeOK', Rows', login' = login, faults' = faults, Spend(1),
         Future' < Future
  PROVE  Budget'
<1>1. Future' \in Nat /\ Future \in Nat /\ Most \in Nat /\ faults \in Nat /\ spent \in Nat
  BY FutureBounded, FutureBoundedNext, BreakerAssumption DEF FutureFits, SpendInv, IInv, TypeOK
<1>2. CASE login
  BY <1>2 DEF SpendInv, Budget, Spend
<1>3. CASE ~login
  <2>1. Within(faults, spent, Future)  BY <1>3 DEF SpendInv, Budget
  <2>2. Within(faults, spent + 1, Future') /\ Within(faults, spent + 1, 0)
    BY <1>1, <2>1, WithinKept
  <2> QED  BY <1>3, <2>2 DEF Budget, Spend
<1> QED  BY <1>2, <1>3

\* tripAuthBlock, in full.
LEMMA TripAhead ==
  ASSUME SpendInv, Trip
  PROVE  /\ db'.probe = "none"
         /\ \/ Counted(block) /\ block' = block /\ db' = db
            \/ /\ ~Counted(block) /\ block'.fp = cred /\ block'.live /\ block'.probe = "none"
               /\ block'.failures = IF block.kind \in Confirmed THEN block.failures + 1 ELSE 1
               /\ block'.kind = IF block'.failures > MaxProbes THEN "held" ELSE "pause"
<1>1. CASE Counted(block)  BY <1>1 DEF Trip, SpendInv, Pauses
<1>2. CASE ~Counted(block)
  <2> DEFINE n == IF block.kind \in Confirmed THEN block.failures + 1 ELSE 1
             new == [kind |-> IF Held(n) THEN "held" ELSE "pause", live |-> TRUE,
                     failures |-> n, probe |-> "none", fp |-> cred]
  <2>1. block' = new /\ db' \in {new, db}  BY <1>2 DEF Trip, Persist
  <2>2. /\ new.fp = cred /\ new.live /\ new.probe = "none" /\ new.failures = n
        /\ new.kind = IF n > MaxProbes THEN "held" ELSE "pause"
    BY DEF Held
  <2> HIDE DEF new
  <2> QED  BY <1>2, <2>1, <2>2 DEF SpendInv, Pauses
<1> QED  BY <1>1, <1>2

\* A request is over: one less is out.
LEMMA OneLess ==
  ASSUME SpendInv, NEW c \in Caller, Idle(c), call[c].pc # "idle"
  PROVE  /\ Out' = Out \ {c} /\ Out # {} /\ OnTime' = OnTime \ {c}
         /\ Cardinality(Out') = Cardinality(Out) - 1 /\ Cardinality(Out) \in Nat
<1>1. call \in [Caller -> Request]  BY DEF SpendInv, IInv, TypeOK
<1>2. Out' = Out \ {c} /\ c \in Out  BY <1>1, Constants, BreakerAssumption DEF Out, Idle
<1> QED  BY <1>1, <1>2, Requests, OutCounted, BreakerAssumption

\* The gate: what is sent as a test is one test less ahead.
LEMMA BeginSpends ==
  ASSUME SpendInv, IInv', NEW c \in Caller, Begin(c)
  PROVE  SpendInv'
<1> DEFINE b == Mine(block)
<1>0. /\ call \in [Caller -> Request] /\ block \in Block /\ MaxProbes \in Nat
      /\ NoBlock \in Block /\ NoBlock.kind = "none" /\ NoBlock.probe = "none"
  BY Constants, BreakerAssumption DEF SpendInv, IInv, TypeOK
<1>1. /\ ~Closed(b) /\ call[c].pc = "idle" /\ UNCHANGED <<cooldown, cred, login, spent, faults>>
      /\ block' = IF b.kind = "none" THEN b ELSE [b EXCEPT !.probe = "open"]
      /\ db' \in {NoBlock, db}
  BY DEF Begin, Persist
<1>2. b = block \/ (b = NoBlock /\ block.kind \in Confirmed /\ block.fp # cred)  BY DEF Mine
<1> DEFINE q == [pc |-> "sent", probing |-> b.kind # "none", late |-> FALSE, isZoneRetry |-> FALSE]
<1>3. IF cooldown THEN call' = call ELSE call' = [call EXCEPT ![c] = q]
  BY DEF Begin
<1>6. q.pc = "sent" /\ ~q.late /\ (b.kind # "none" => q.probing)
  OBVIOUS
<1> HIDE DEF q
<1>7. TypeOK' /\ Rows'  BY DEF IInv
<1>4. CASE b.kind = "none"
  <2>1. block' = b /\ Mine(block) = b /\ Mine(block)'.kind = "none"  BY <1>0, <1>1, <1>4 DEF Mine
  <2>2. Future = Most /\ Future' = Most  BY <1>0, <1>4, <2>1 DEF Future, Ahead
  <2>3. Pauses'  BY <1>0, <1>1, <1>4, <2>1 DEF SpendInv, Pauses, Confirmed
  <2>4. Future' <= Future  BY <2>2, FutureBounded DEF SpendInv, IInv
  <2>5. Budget'  BY <1>1, <2>4, <1>7, NothingSpent
  <2> QED  BY <2>3, <2>5 DEF SpendInv
<1>5. CASE b.kind # "none"
  <2>1. b = block  BY <1>0, <1>2, <1>5
  <2>2. ~block.live /\ block.probe # "open" /\ OnTime = {} /\ block.kind \in {"provisional", "pause"}
    BY <1>0, <1>1, <1>5, <2>1 DEF Closed, ProbeBusy, SpendInv, IInv, Probes, TypeOK, Block, Confirmed
  <2>3. /\ block'.kind = block.kind /\ block'.live = block.live /\ block'.failures = block.failures
        /\ block'.fp = block.fp /\ block'.probe = "open" /\ block.failures \in Nat
    BY <1>0, <1>1, <1>5, <2>1, BreakerAssumption DEF Block, Failures
  <2>4. block.kind \in Confirmed => block.fp = cred
    BY <1>0, <1>5 DEF Mine
  <2>5. Mine(block).kind = block.kind /\ Mine(block)'.kind = block.kind
    BY <1>1, <2>1, <2>3, <2>4 DEF Mine
  <2>6. CASE cooldown
    <3>1. Out' = Out /\ OnTime' = OnTime  BY <1>3, <2>6 DEF Out, OnTime, Probing
    <3>2. Future' = Future  BY <2>3, <2>5, <3>1 DEF Future
    <3>3. Pauses'  BY <1>0, <1>1, <2>2, <2>3, <2>4 DEF SpendInv, Pauses
    <3>4. Budget'
      <4>1. Future \in Nat  BY FutureBounded DEF SpendInv, IInv
      <4>2. Future' <= Future  BY <3>2, <4>1
      <4> QED  BY <1>1, <4>2, <1>7, NothingSpent
    <3> QED  BY <3>3, <3>4 DEF SpendInv
  <2>7. CASE ~cooldown
    <3>0. call'[c].pc = "sent" /\ call'[c].probing /\ ~call'[c].late /\ \A d \in Caller : d # c => call'[d] = call[d]
      BY <1>0, <1>3, <1>5, <1>6, <2>7
    <3>1. Out' = Out \cup {c} /\ c \notin Out /\ c \in OnTime'
      BY <1>1, <3>0 DEF Out, OnTime, Probing
    <3>2. Cardinality(Out') = Cardinality(Out) + 1 /\ Cardinality(Out) \in Nat
      BY <1>0, <3>1, OutCounted
    <3>3. OnTime = {} /\ OnTime' # {}  BY <2>2, <3>1
    <3>4. Future' = Future
      BY <1>0, <2>2, <2>3, <2>5, <3>2, <3>3 DEF Future, Ahead
    <3>5. Pauses'  BY <1>0, <1>1, <2>2, <2>3, <2>4 DEF SpendInv, Pauses
    <3>6. Budget'
      <4>1. Future \in Nat  BY FutureBounded DEF SpendInv, IInv
      <4>2. Future' <= Future  BY <3>4, <4>1
      <4> QED  BY <1>1, <4>2, <1>7, NothingSpent
    <3> QED  BY <3>5, <3>6 DEF SpendInv
  <2> QED  BY <2>6, <2>7
<1> QED  BY <1>4, <1>5

\* A request ends while the block stays: what it may have spent is taken off.
LEMMA EndSpends ==
  ASSUME SpendInv, IInv', NEW c \in Caller, Idle(c), call[c].pc # "idle",
         UNCHANGED <<block, cred, db, login, faults>>,
         \/ spent' = spent
         \/ Spend(1) /\ block.kind # "none" /\ (c \in OnTime => block.live)
  PROVE  SpendInv'
<1>1. /\ Out' = Out \ {c} /\ Out # {} /\ OnTime' = OnTime \ {c}
      /\ Cardinality(Out') = Cardinality(Out) - 1 /\ Cardinality(Out) \in Nat
  BY OneLess
<1>2. /\ Mine(block)' = Mine(block) /\ Mine(block).kind = block.kind
      /\ block.kind \in {"none", "provisional", "pause", "held"} /\ block.failures \in Nat /\ MaxProbes \in Nat
      /\ Most \in Nat
  BY <1>1, BreakerAssumption, FutureBounded DEF Mine, SpendInv, Pauses, IInv, TypeOK, Block, Confirmed, Failures
<1>3. Pauses'  BY <1>1 DEF SpendInv, Pauses
<1>4. TypeOK' /\ Rows' /\ login' = login /\ faults' = faults  BY DEF IInv
<1>5. Future' = Ahead(block.kind, block.live, block.failures, OnTime' # {}, Cardinality(Out) - 1)
      /\ Future = Ahead(block.kind, block.live, block.failures, OnTime # {}, Cardinality(Out))
  BY <1>1, <1>2 DEF Future
<1>6. CASE spent' = spent
  <2>1. Future' <= Future  BY <1>1, <1>2, <1>5 DEF Ahead
  <2>2. Budget'  BY <1>4, <1>6, <2>1, NothingSpent
  <2> QED  BY <1>3, <2>2 DEF SpendInv
<1>7. CASE Spend(1) /\ block.kind # "none" /\ (c \in OnTime => block.live)
  <2>1. OnTime' = OnTime \/ block.live  BY <1>1, <1>7
  <2>2. Future' < Future  BY <1>1, <1>2, <1>5, <1>7, <2>1 DEF Ahead
  <2>3. Budget'  BY <1>4, <1>7, <2>2, TakenFromAhead
  <2> QED  BY <1>3, <2>3 DEF SpendInv
<1> QED  BY <1>6, <1>7

\* A confirmed rejection, or a test that failed.
LEMMA TripSpends ==
  ASSUME SpendInv, IInv', NEW c \in Caller, ProbeRejected(c) \/ ConfirmRejected(c)
  PROVE  SpendInv'
<1>1. /\ Trip /\ Idle(c) /\ Spend(1) /\ UNCHANGED <<cred, login, faults>> /\ call[c].pc # "idle"
      /\ c \in Probing \/ Checking(c)
  BY DEF ProbeRejected, ConfirmRejected, Probing, Checking
<1>2. /\ Out' = Out \ {c} /\ Out # {} /\ OnTime' = OnTime \ {c}
      /\ Cardinality(Out') = Cardinality(Out) - 1 /\ Cardinality(Out) \in Nat
  BY <1>1, OneLess
<1>3. CASE Counted(block) /\ block' = block /\ db' = db
  BY <1>1, <1>3, EndSpends DEF Counted, Confirmed
<1>4. CASE /\ ~Counted(block) /\ block'.fp = cred /\ block'.live /\ block'.probe = "none"
           /\ block'.failures = IF block.kind \in Confirmed THEN block.failures + 1 ELSE 1
           /\ block'.kind = IF block'.failures > MaxProbes THEN "held" ELSE "pause"
           /\ db'.probe = "none"
  <2>1. Pauses'  BY <1>1, <1>4 DEF Pauses
  <2>2. /\ block.kind \in {"none", "provisional", "pause", "held"} /\ block.failures \in Nat /\ MaxProbes \in Nat
        /\ Cardinality(Caller) \in Nat /\ Cardinality(Out) <= Cardinality(Caller)
        /\ block.kind = "pause" => block.failures <= MaxProbes
    BY BreakerAssumption, OutCounted DEF SpendInv, IInv, TypeOK, Rows, Block, Confirmed, Failures
  <2>3. block.kind # "held"
    BY <1>4 DEF SpendInv, IInv, TypeOK, Rows, Counted, Confirmed
  <2>4. Mine(block)' = block' /\ Mine(block).kind = block.kind
    <3>1. Mine(block)' = block'  BY <1>1, <1>4 DEF Mine
    <3>2. Mine(block) = block  BY <1>2 DEF Mine, SpendInv, Pauses
    <3> QED  BY <3>1, <3>2
  <2> DEFINE n == block'.failures
             out == Cardinality(Out)
  <2>5. Future' = IF n > MaxProbes THEN out - 1 ELSE out - 1 + MaxProbes + 1 - n
    BY <1>2, <1>4, <2>2, <2>4 DEF Future, Ahead
  <2>6. Future' < Future
    <3>1. CASE block.kind = "none"
      <4>1. Future = Cardinality(Caller) + 1 + MaxProbes /\ n = 1
        BY <1>4, <2>4, <3>1 DEF Future, Ahead, Most, Confirmed
      <4> QED  BY <1>2, <2>2, <2>5, <4>1
    <3>2. CASE block.kind = "provisional"
      <4>1. Future \in {out + MaxProbes, out + MaxProbes + 1} /\ n = 1
        BY <1>2, <1>4, <2>2, <2>4, <3>2 DEF Future, Ahead, Confirmed
      <4> QED  BY <1>2, <2>2, <2>5, <4>1
    <3>3. CASE block.kind = "pause"
      <4>1. ~block.live  BY <1>4, <3>3 DEF SpendInv, Pauses, Counted, Confirmed
      <4>2. /\ Future >= out + MaxProbes + 1 - block.failures - 1 /\ n = block.failures + 1
            /\ Future \in Int
        BY <1>2, <1>4, <2>2, <2>4, <3>3, <4>1 DEF Future, Ahead, Confirmed
      <4> QED  BY <1>2, <2>2, <2>5, <3>3, <4>2
    <3> QED  BY <2>2, <2>3, <3>1, <3>2, <3>3
  <2>7. Budget'  BY <1>1, <2>6, TakenFromAhead DEF IInv
  <2> QED  BY <2>1, <2>7 DEF SpendInv
<1> QED  BY <1>1, <1>3, <1>4, TripAhead

\* The first 401 spends the one that an open gate has over the callers.
LEMMA CheckSpends ==
  ASSUME SpendInv, IInv', NEW c \in Caller, FirstRejected(c) \/ ZoneSame(c) \/ ZoneMoved(c)
  PROVE  SpendInv'
<1>0. /\ call \in [Caller -> Request] /\ MaxProbes \in Nat /\ Cardinality(Out) \in Nat
      /\ Cardinality(Caller) \in Nat /\ Cardinality(Out) <= Cardinality(Caller)
      /\ TypeOK' /\ Rows'
  BY BreakerAssumption, OutCounted DEF SpendInv, IInv, TypeOK
<1>1. CASE FirstRejected(c)
  <2>1. PICK step \in {"relook", "confirm"} : call' = [call EXCEPT ![c].pc = step]
    BY <1>1 DEF FirstRejected
  <2>2. /\ block' = Provisional /\ block.kind = "none" /\ call[c].pc = "sent" /\ Spend(1)
        /\ UNCHANGED <<cred, db, login, faults>>
    BY <1>1 DEF FirstRejected
  <2>3. \A d \in Caller : call'[d].pc = IF d = c THEN step ELSE call[d].pc
    BY <1>0, <2>1 DEF Request
  <2>4. Out' = Out  BY <2>2, <2>3 DEF Out
  <2>5. Future = Most /\ Future' = Cardinality(Out) + MaxProbes
    <3>1. Mine(block).kind = "none" /\ Mine(block)' = Provisional
      BY <2>2, Constants, BreakerAssumption DEF Mine, Confirmed
    <3> QED  BY <1>0, <2>2, <2>4, <3>1, Constants, BreakerAssumption DEF Future, Ahead
  <2>6. Future' < Future  BY <1>0, <2>5 DEF Most
  <2>7. Pauses'  BY <2>2, Constants, BreakerAssumption DEF SpendInv, Pauses, Confirmed
  <2>8. Budget'  BY <1>0, <2>2, <2>6, TakenFromAhead
  <2> QED  BY <2>7, <2>8 DEF SpendInv
<1>2. CASE ZoneSame(c)
  <2>1. /\ call' = [call EXCEPT ![c].pc = "confirm"] /\ call[c].pc = "relook"
        /\ UNCHANGED <<block, cred, db, login, spent, faults>>
    BY <1>2 DEF ZoneSame
  <2>2. \A d \in Caller : /\ call'[d].pc = IF d = c THEN "confirm" ELSE call[d].pc
                          /\ call'[d].probing = call[d].probing
    BY <1>0, <2>1 DEF Request
  <2>3. Out' = Out /\ OnTime' = OnTime
    <3>1. \A d \in Caller : call'[d].late = call[d].late  BY <1>0, <2>1 DEF Request
    <3> QED  BY <2>1, <2>2, <3>1 DEF Out, OnTime, Probing
  <2>4. Future' = Future  BY <2>1, <2>3 DEF Future, Mine
  <2>5. Future' <= Future  BY <2>4, FutureBounded DEF SpendInv, IInv
  <2>6. Pauses'  BY <2>1, <2>3 DEF SpendInv, Pauses
  <2>7. Budget'  BY <1>0, <2>1, <2>5, NothingSpent
  <2> QED  BY <2>6, <2>7 DEF SpendInv
<1>3. CASE ZoneMoved(c)
  <2>1. block' = NoBlock /\ faults' = faults + 1 /\ UNCHANGED <<cred, db, login, spent>>
    BY <1>3 DEF ZoneMoved, Fault
  <2>2. Pauses'  BY <2>1, Constants, BreakerAssumption DEF SpendInv, Pauses, Confirmed
  <2>3. Budget'  BY <1>0, <2>1, FaultAllowed
  <2> QED  BY <2>2, <2>3 DEF SpendInv
<1> QED  BY <1>1, <1>2, <1>3

\* Answers that leave the block, or end it because the login works.
LEMMA AnswerSpends ==
  ASSUME SpendInv, IInv', NEW c \in Caller,
         Accepted(c) \/ Inconclusive(c) \/ StragglerRejected(c) \/ NotConfirmed(c)
  PROVE  SpendInv'
<1>0. TypeOK' /\ Rows' /\ Idle(c) /\ call[c].pc # "idle" /\ UNCHANGED <<cred, login>>
  BY DEF IInv, Accepted, Inconclusive, StragglerRejected, NotConfirmed
<1>1. CASE Inconclusive(c)  BY <1>0, <1>1, EndSpends DEF Inconclusive
<1>2. CASE StragglerRejected(c)  BY <1>0, <1>2, EndSpends DEF StragglerRejected, OnTime, Probing
<1>3. CASE Accepted(c) \/ (NotConfirmed(c) /\ login)
  <2>1. login /\ block' \in {block, NoBlock} /\ db' \in {db, NoBlock} /\ UNCHANGED <<spent, faults>>
    BY <1>3 DEF Accepted, NotConfirmed, Persist
  <2>2. Out' \subseteq Out  BY <1>0, OneLess
  <2>3. Pauses'  BY <1>0, <2>1, <2>2, Constants, BreakerAssumption DEF SpendInv, Pauses, Confirmed
  <2>4. Budget'  BY <1>0, <2>1 DEF SpendInv, Budget
  <2> QED  BY <2>3, <2>4 DEF SpendInv
<1>4. CASE NotConfirmed(c) /\ ~login
  <2>1. block' \in {block, NoBlock} /\ faults' = faults + 1 /\ UNCHANGED <<db, spent>>
    BY <1>4 DEF NotConfirmed, Fault
  <2>2. Out' \subseteq Out  BY <1>0, OneLess
  <2>3. Pauses'  BY <1>0, <2>1, <2>2, Constants, BreakerAssumption DEF SpendInv, Pauses, Confirmed
  <2>4. Budget'  BY <1>0, <2>1, FaultAllowed
  <2> QED  BY <2>3, <2>4 DEF SpendInv
<1> QED  BY <1>1, <1>2, <1>3, <1>4

\* The clocks change nothing about what is ahead; what outlasts one is a fault.
LEMMA ClockSpends ==
  ASSUME SpendInv, IInv', Clock
  PROVE  SpendInv'
<1>0. /\ TypeOK' /\ Rows' /\ UNCHANGED <<cred, db, login, spent>> /\ block \in Block
      /\ call \in [Caller -> Request]
  BY DEF SpendInv, IInv, TypeOK, Clock, PauseEnds, ProvisionalEnds, ProbeWindowEnds, CooldownEnds
<1>1. /\ block'.kind = block.kind /\ block'.failures = block.failures /\ block'.fp = block.fp
      /\ block.kind = "pause" /\ block'.live => block'.probe = "none"
  <2>1. CASE PauseEnds  BY <1>0, <2>1 DEF PauseEnds, Block
  <2>2. CASE ProbeWindowEnds  BY <1>0, <2>2 DEF ProbeWindowEnds, Block, SpendInv, Pauses
  <2>3. CASE CooldownEnds  BY <2>3 DEF CooldownEnds, SpendInv, Pauses
  <2>4. CASE ProvisionalEnds  BY <1>0, <2>4 DEF ProvisionalEnds, Block
  <2> QED  BY <2>1, <2>2, <2>3, <2>4 DEF Clock
<1>2. Out' = Out
  <2>1. CASE call' = call  BY <2>1 DEF Out
  <2>2. CASE Overdue
    <3>1. \A c \in Caller : call'[c].pc = call[c].pc  BY <1>0, <2>2 DEF Overdue, Request
    <3> QED  BY <3>1 DEF Out
  <2> QED  BY <2>1, <2>2 DEF Clock, PauseEnds, ProvisionalEnds, ProbeWindowEnds, CooldownEnds, PassedBy
<1>3. Pauses'  BY <1>0, <1>1, <1>2 DEF SpendInv, Pauses
<1>4. CASE Fault
  <2>1. faults' = faults + 1  BY <1>4 DEF Fault
  <2>2. Budget'  BY <1>0, <2>1, FaultAllowed
  <2> QED  BY <1>3, <2>2 DEF SpendInv
<1>5. CASE UNCHANGED <<call, faults>> /\ (block'.live = block.live \/ (block.kind = "pause" /\ OnTime = {}))
  <2>1. OnTime' = OnTime  BY <1>5 DEF OnTime, Probing
  <2>2. Mine(block)'.kind = Mine(block).kind /\ (Mine(block).kind = "none" \/ Mine(block).kind = block.kind)
    BY <1>0, <1>1, Constants, BreakerAssumption DEF Mine
  <2>3. Future' = Future
    <3>1. CASE Mine(block).kind = "none"
      BY <2>2, <3>1 DEF Future, Ahead
    <3>2. CASE Mine(block).kind # "none" /\ block'.live = block.live
      BY <1>1, <1>2, <2>1, <2>2, <3>2 DEF Future
    <3>3. CASE Mine(block).kind = "pause" /\ OnTime = {}
      BY <1>1, <1>2, <2>1, <2>2, <3>3 DEF Future, Ahead
    <3> QED  BY <1>5, <2>2, <3>1, <3>2, <3>3
  <2>4. Future' <= Future  BY <2>3, FutureBounded DEF SpendInv, IInv
  <2>5. Budget'  BY <1>0, <1>5, <2>4, NothingSpent
  <2> QED  BY <1>3, <2>5 DEF SpendInv
<1>6. \/ Fault
      \/ UNCHANGED <<call, faults>> /\ (block'.live = block.live \/ (block.kind = "pause" /\ OnTime = {}))
  <2>1. CASE PauseEnds  BY <2>1 DEF PauseEnds, PassedBy
  <2>2. CASE ProbeWindowEnds  BY <1>0, <2>2 DEF ProbeWindowEnds, PassedBy, Block
  <2>3. CASE CooldownEnds  BY <2>3 DEF CooldownEnds
  <2>4. CASE ProvisionalEnds  BY <2>4 DEF ProvisionalEnds
  <2> QED  BY <2>1, <2>2, <2>3, <2>4 DEF Clock
<1> QED  BY <1>4, <1>5, <1>6

\* "Retry now", another password or a new failure start the count again.
LEMMA WorldSpends ==
  ASSUME SpendInv, IInv', World
  PROVE  SpendInv'
<1>0. TypeOK' /\ Rows'  BY DEF IInv
<1>1. CASE RetryNow
  <2>1. block' = NoBlock /\ db' \in {NoBlock, db} /\ spent' = 0  BY <1>1 DEF RetryNow, Persist
  <2>2. Pauses'  BY <2>1, Constants, BreakerAssumption DEF SpendInv, Pauses, Confirmed
  <2>3. Budget'  BY <1>0, <2>1, StartAgain
  <2> QED  BY <2>2, <2>3 DEF SpendInv
<1>2. CASE Restart
  <2>1. /\ db' = db /\ faults' = faults + 1 /\ (spent' = spent \/ spent' = 0)
        /\ call' = [c \in Caller |-> NoRequest]
    BY <1>2 DEF Restart, Fault
  <2>2. Out' = {}  BY <2>1, Constants, BreakerAssumption DEF Out
  <2>3. block'.kind = "pause" => block'.probe = "none"
    <3>1. CASE block' = NoBlock  BY <3>1, Constants, BreakerAssumption
    <3>2. ASSUME NEW l, block' = [db EXCEPT !.live = l] PROVE block'.probe = "none"
      BY <3>2 DEF SpendInv, Pauses, IInv, TypeOK, Block
    <3> QED  BY <1>2, <3>1, <3>2 DEF Restart
  <2>4. Pauses'  BY <2>1, <2>2, <2>3 DEF SpendInv, Pauses
  <2>5. Budget'  BY <1>0, <2>1, StartAgain, FaultAllowed
  <2> QED  BY <2>4, <2>5 DEF SpendInv
<1>3. CASE LoginBreaks
  <2>1. spent' = 0 /\ UNCHANGED <<block, call, cred, db>>  BY <1>3 DEF LoginBreaks
  <2>2. Pauses'  BY <2>1 DEF SpendInv, Pauses, Out
  <2>3. Budget'  BY <1>0, <2>1, StartAgain
  <2> QED  BY <2>2, <2>3 DEF SpendInv
<1>4. CASE LoginFixed
  <2>1. login' = TRUE /\ UNCHANGED <<block, call, cred, db, spent, faults>>  BY <1>4 DEF LoginFixed
  <2>2. Pauses'  BY <2>1 DEF SpendInv, Pauses, Out
  <2>3. Budget'  BY <2>1 DEF SpendInv, Budget
  <2> QED  BY <2>2, <2>3 DEF SpendInv
<1> QED  BY <1>1, <1>2, <1>3, <1>4 DEF World

\* Whatever is in flight, however often the clocks run out and whatever answers
\* say nothing: until a person acts, Autotask sees no more rejected logins than
\* the callers, one check and MaxProbes tests, and as many again for each fault
\* (the comment above AuthBlock: Autotask locks a user after too many).
THEOREM NotLockedOut == Spec => []LoginsBounded
<1>1. Init => SpendInv
  <2> SUFFICES ASSUME Init PROVE SpendInv  OBVIOUS
  <2>1. IInv  BY InitHolds, BreakerAssumption
  <2>2. Pauses  BY Constants, BreakerAssumption DEF Init, Pauses, Confirmed
  <2>3. Budget
    <3>1. Future \in Nat /\ Future <= Most /\ Most \in Nat /\ faults \in Nat
      BY <2>1, FutureBounded, BreakerAssumption DEF IInv, TypeOK
    <3> QED  BY <3>1, WithinKept DEF Init, Budget
  <2> QED  BY <2>1, <2>2, <2>3 DEF SpendInv
<1>2. IInv /\ IInv' /\ SpendInv /\ [Next]_vars => SpendInv'
  <2> SUFFICES ASSUME SpendInv, IInv', [Next]_vars PROVE SpendInv'  OBVIOUS
  <2>1. CASE UNCHANGED vars
    <3>1. Out' = Out /\ Future' = Future  BY <2>1 DEF vars, Out, Future, OnTime, Probing, Mine
    <3> QED  BY <2>1, <3>1 DEF vars, SpendInv, Pauses, Budget
  <2>2. ASSUME NEW c \in Caller, Respond(c) PROVE SpendInv'
    BY <2>2, TripSpends, CheckSpends, AnswerSpends DEF Respond
  <2> QED  BY <2>1, <2>2, BeginSpends, ClockSpends, WorldSpends DEF Next
<1>3. SpendInv => LoginsBounded
  <2> SUFFICES ASSUME SpendInv PROVE LoginsBounded  OBVIOUS
  <2>1. spent + 0 <= (faults + 1) * Most /\ spent \in Nat
    BY DEF SpendInv, Budget, Within, IInv, TypeOK
  <2> QED  BY <2>1 DEF LoginsBounded, Most
<1> QED  BY <1>1, <1>2, <1>3, Invariance, PTL DEF Spec
=============================================================================
