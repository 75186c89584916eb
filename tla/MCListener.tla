----------------------------- MODULE MCListener -----------------------------
(* An instance of Listener on its own: one thread plugs three devices.     *)
EXTENDS Listener

CONSTANTS dev1, dev2, dev3     \* devices

Serial == {<<TRUE, FALSE>>}
=============================================================================
