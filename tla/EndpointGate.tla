---------------------------- MODULE EndpointGate ----------------------------
(***************************************************************************)
(* The concurrency gate of one Autotask endpoint (acquireEndpointSlot and  *)
(* send in src/src/services/autotask-http.ts).                             *)
(*                                                                         *)
(* The gate is plain code between awaits, so what it does depends on the   *)
(* order in which the event loop runs continuations.  That order is        *)
(* modelled: `ready` is the microtask queue.  A new event (calls that      *)
(* arrive, an answer from Autotask) comes only when the queue is empty;    *)
(* until then its head runs, up to its next await.                         *)
(*                                                                         *)
(* A call in the queue may first await things that are settled already     *)
(* (`hop`, at most MaxHops times).  `closed` is the tenant's 429 cooldown  *)
(* or auth pause: a call that finds it fails without being sent, and gives *)
(* its slot back in the same turn of the loop.                             *)
(***************************************************************************)
EXTENDS Naturals, Sequences, FiniteSets

CONSTANTS
  Call,         \* the calls to this endpoint
  MaxActive,    \* maxPerEndpoint()
  MaxHops,      \* bound: settled awaits before a call reaches the gate
  EndsMidTurn   \* may a cooldown end between two continuations of one turn?

ASSUME GateAssumption ==
  /\ IsFiniteSet(Call)
  /\ MaxActive \in 1..3
  /\ MaxHops \in Nat
  /\ EndsMidTurn \in BOOLEAN

VARIABLES
  active,   \* g.active
  waiting,  \* g.waiting: the resolvers, in the order of their calls
  ready,    \* the microtask queue: whose continuation runs next
  pc,       \* where each call is
  hops,     \* settled awaits each call has still ahead of it
  closed    \* 429 cooldown or auth pause of the tenant

vars == <<active, waiting, ready, pc, hops, closed>>

\* A call: not there; on its way to the gate; in g.waiting; resolved but not
\* run yet; holding a slot (about to look at the pause, out at Autotask, or
\* about to run its `finally`).
Place == {"idle", "hop", "waiting", "woken", "granted", "upstream", "ending"}
Holding == {c \in Call : pc[c] \in {"granted", "upstream", "ending"}}
Upstream == {c \in Call : pc[c] = "upstream"}

Init ==
  /\ active = 0
  /\ waiting = <<>>
  /\ ready = <<>>
  /\ pc = [c \in Call |-> "idle"]
  /\ hops = [c \in Call |-> 0]
  /\ closed = FALSE
-----------------------------------------------------------------------------
(* New turns of the event loop.                                            *)

\* One event starts some calls, in some order: a search, or a Promise.all.
Arrive ==
  /\ ready = <<>>
  /\ \E n \in 1..Cardinality(Call) : \E batch \in [1..n -> Call] :
       /\ \A i, k \in 1..n : batch[i] = batch[k] => i = k
       /\ \A i \in 1..n : pc[batch[i]] = "idle"
       /\ ready' = batch
       /\ pc' = [c \in Call |-> IF \E i \in 1..n : batch[i] = c THEN "hop" ELSE pc[c]]
       /\ \E h \in [Call -> 0..MaxHops] :
            hops' = [c \in Call |-> IF \E i \in 1..n : batch[i] = c THEN h[c] ELSE hops[c]]
  /\ UNCHANGED <<active, waiting, closed>>

\* Autotask answers, or the request times out.  A 429 arms the cooldown.
Answer(c) ==
  /\ ready = <<>> /\ pc[c] = "upstream"
  /\ pc' = [pc EXCEPT ![c] = "ending"]
  /\ ready' = <<c>>
  /\ closed' \in {closed, TRUE}
  /\ UNCHANGED <<active, waiting, hops>>

\* The cooldown or pause runs out.
Reopen ==
  /\ closed /\ (ready = <<>> \/ EndsMidTurn)
  /\ closed' = FALSE
  /\ UNCHANGED <<active, waiting, ready, pc, hops>>
-----------------------------------------------------------------------------
(* Continuations: the head of the queue runs.                              *)

Runs(c, place) == ready # <<>> /\ Head(ready) = c /\ pc[c] = place

Hop(c) ==
  /\ Runs(c, "hop") /\ hops[c] > 0
  /\ hops' = [hops EXCEPT ![c] = @ - 1]
  /\ ready' = Append(Tail(ready), c)
  /\ UNCHANGED <<active, waiting, pc, closed>>

\* Mutant: the limit is passed by one.
BusyLate == active > MaxActive
\* acquireEndpointSlot: all slots are taken.
Busy == active >= MaxActive

Enqueue(c) ==
  /\ Runs(c, "hop") /\ hops[c] = 0 /\ Busy
  /\ waiting' = Append(waiting, c)
  /\ pc' = [pc EXCEPT ![c] = "waiting"]
  /\ ready' = Tail(ready)
  /\ UNCHANGED <<active, hops, closed>>

\* A free slot, or one handed on by a release: it is counted only now.
Take(c) ==
  /\ (Runs(c, "hop") /\ hops[c] = 0 /\ ~Busy) \/ Runs(c, "woken")
  /\ active' = active + 1
  /\ pc' = [pc EXCEPT ![c] = "granted"]
  /\ ready' = Append(Tail(ready), c)
  /\ UNCHANGED <<waiting, hops, closed>>

\* sendUngated: not sent while the tenant is paused; else the fetch goes out.
Send(c) ==
  /\ Runs(c, "granted")
  /\ IF closed THEN /\ pc' = [pc EXCEPT ![c] = "ending"]
                    /\ ready' = Append(Tail(ready), c)
     ELSE /\ pc' = [pc EXCEPT ![c] = "upstream"]
          /\ ready' = Tail(ready)
  /\ UNCHANGED <<active, waiting, hops, closed>>

\* Mutants: the release keeps the slot counted; a slot is given back twice.
KeepSlot(n) == n
GiveBackTwice(n) == n - 2
GiveBack(n) == n - 1

\* Mutant: the first waiter is dropped without being resolved.
ResolveNobody(queue) == <<>>
\* g.waiting.shift()?.(): whose promise is resolved.
Resolved(queue) == IF queue = <<>> THEN <<>> ELSE <<Head(queue)>>

\* The release function: the slot is given back and the first waiter resolved,
\* whose continuation is queued.  The caller may then make its next call (the
\* next page), which is queued behind it.
Release(c) ==
  /\ Runs(c, "ending")
  /\ active' = GiveBack(active)
  /\ waiting' = IF waiting = <<>> THEN waiting ELSE Tail(waiting)
  /\ \E again \in BOOLEAN, h \in 0..MaxHops :
       /\ hops' = [hops EXCEPT ![c] = IF again THEN h ELSE 0]
       /\ ready' = Tail(ready) \o Resolved(waiting) \o (IF again THEN <<c>> ELSE <<>>)
       /\ pc' = [d \in Call |-> IF d = c THEN (IF again THEN "hop" ELSE "idle")
                                ELSE IF Resolved(waiting) = <<d>> THEN "woken" ELSE pc[d]]
  /\ UNCHANGED closed

Continue == \E c \in Call : Hop(c) \/ Enqueue(c) \/ Take(c) \/ Send(c) \/ Release(c)
Next == Arrive \/ (\E c \in Call : Answer(c)) \/ Reopen \/ Continue

Spec == Init /\ [][Next]_vars

(* The event loop drains its queue; every request is answered or times out *)
(* after REQUEST_TIMEOUT_MS.                                               *)
FairSpec == Spec /\ WF_vars(Continue) /\ \A c \in Call : SF_vars(Answer(c))
-----------------------------------------------------------------------------
(* Properties.                                                             *)

TypeOK ==
  /\ active \in Nat
  /\ waiting \in Seq(Call) /\ ready \in Seq(Call)
  /\ pc \in [Call -> Place]
  /\ hops \in [Call -> 0..MaxHops]
  /\ closed \in BOOLEAN

\* g.active is the number of calls that hold a slot: none is leaked by a call
\* that fails and none is given back twice.
SlotsCounted == active = Cardinality(Holding)

\* Autotask allows 3 calls at a time per endpoint and answers the next with 429:
\* never more than MaxActive are out, although a woken call takes its slot later
\* than the release that freed it.
UpstreamBounded == Cardinality(Upstream) <= MaxActive

\* No wake-up is lost: when the event loop is idle and calls wait, all slots are
\* used by calls that are out.
NoLostWaiter == ready = <<>> /\ waiting # <<>> => Cardinality(Upstream) >= MaxActive

\* A call that waits gets its turn (or is refused while the tenant is paused).
WaiterServed == \A c \in Call : pc[c] = "waiting" ~> pc[c] \in {"upstream", "ending"}
=============================================================================
