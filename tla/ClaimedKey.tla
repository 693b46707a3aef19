----------------------------- MODULE ClaimedKey -----------------------------
(***************************************************************************)
(* What an idempotency key promises: one attempt at a time holds it, and   *)
(* only who holds it writes; it is released only by an attempt whose       *)
(* writes nobody acknowledged and that returned nothing; and a repeat that *)
(* is told a result is told the holder's.  Writes may be applied without   *)
(* being acknowledged.  Operations implements this.                        *)
(***************************************************************************)
CONSTANTS Key, Attempt, Nobody

VARIABLES
  holder,    \* who holds each key
  wrote,     \* the attempts that changed something
  noted,     \* of these, the ones whose write was acknowledged
  returned,  \* the attempts that returned a result
  repeated   \* the attempts that were told another's result

vars == <<holder, wrote, noted, returned, repeated>>

Init ==
  /\ holder = [k \in Key |-> Nobody]
  /\ wrote = {} /\ noted = {} /\ returned = {} /\ repeated = {}

Holds(a) == \E k \in Key : holder[k] = a

\* An attempt that did anything before takes no key.
Take(a, k) ==
  /\ holder[k] = Nobody /\ ~Holds(a) /\ a \notin wrote \cup returned \cup repeated
  /\ holder' = [holder EXCEPT ![k] = a]
  /\ UNCHANGED <<wrote, noted, returned, repeated>>

Write(a) ==
  /\ Holds(a)
  /\ wrote' = wrote \cup {a}
  /\ noted' \in {noted, noted \cup {a}}
  /\ UNCHANGED <<holder, returned, repeated>>

Return(a) ==
  /\ Holds(a)
  /\ returned' = returned \cup {a}
  /\ UNCHANGED <<holder, wrote, noted, repeated>>

Release(k) ==
  /\ holder[k] \notin noted \cup returned
  /\ holder' = [holder EXCEPT ![k] = Nobody]
  /\ UNCHANGED <<wrote, noted, returned, repeated>>

Repeat(a, k) ==
  /\ ~Holds(a) /\ holder[k] \in returned
  /\ repeated' = repeated \cup {a}
  /\ UNCHANGED <<holder, wrote, noted, returned>>

Next ==
  \/ \E a \in Attempt : Write(a) \/ Return(a) \/ (\E k \in Key : Take(a, k) \/ Repeat(a, k))
  \/ \E k \in Key : Release(k)

Spec == Init /\ [][Next]_vars
=============================================================================
