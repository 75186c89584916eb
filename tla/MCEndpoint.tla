----------------------------- MODULE MCEndpoint -----------------------------
(* Instances of Endpoint for TLC. *)
EXTENDS Endpoint

CONSTANTS c1, c2, w1, w2     \* hosts, and threads of the device
=============================================================================
