--------------------------- MODULE MCComposition ----------------------------
(* Serial ports and a storage function on one device.                      *)
EXTENDS Composition
=============================================================================
