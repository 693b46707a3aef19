----------------------------- MODULE MCBulkJob -----------------------------
(* BulkJob on small instances: values for the constants of the runs.       *)
EXTENDS BulkJob

OneJob == {1}
TwoItems == {1, 2}
=============================================================================
