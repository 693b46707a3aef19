--------------------------- MODULE ApprovedBatch ---------------------------
(***************************************************************************)
(* What a mass change promises whoever approves it: nothing is written for *)
(* a batch before a person approved a list of records and a person then    *)
(* started it, nothing outside that list is ever written, and the list     *)
(* does not change once it is approved.  BulkJob implements this.          *)
(***************************************************************************)
CONSTANTS Batch, Record, NoList

VARIABLES approved, started, written

vars == <<approved, started, written>>

Init ==
  /\ approved = [b \in Batch |-> NoList]
  /\ started = {}
  /\ written = [b \in Batch |-> {}]

Approve(b, list) ==
  /\ approved[b] = NoList
  /\ approved' = [approved EXCEPT ![b] = list]
  /\ UNCHANGED <<started, written>>

Start(b) ==
  /\ approved[b] # NoList
  /\ started' = started \cup {b}
  /\ UNCHANGED <<approved, written>>

Write(b, r) ==
  /\ b \in started
  /\ r \in approved[b]
  /\ written' = [written EXCEPT ![b] = @ \cup {r}]
  /\ UNCHANGED <<approved, started>>

Next == \E b \in Batch :
  \/ \E list \in SUBSET Record : Approve(b, list)
  \/ Start(b)
  \/ \E r \in Record : Write(b, r)

Spec == Init /\ [][Next]_vars
=============================================================================
