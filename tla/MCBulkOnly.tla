----------------------------- MODULE MCBulkOnly -----------------------------
(* Instances of BulkOnly for TLC. *)
EXTENDS BulkOnly

CONSTANTS v1, v2    \* the values a block may hold
=============================================================================
