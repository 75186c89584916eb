------------------------------ MODULE UrbLife ------------------------------
(***************************************************************************)
(* What a host is promised about the URBs it submits, whatever the threads *)
(* of the device do: a URB that was submitted is held by the device until  *)
(* it is either answered, once, or dropped (unlinked by the host, flushed  *)
(* by a reset, or lost with its connection); nothing happens to it after   *)
(* that.  A reset drops every URB it flushes at once.                      *)
(***************************************************************************)
CONSTANT Urbs

VARIABLE status

Init == status = [u \in Urbs |-> "unborn"]

Submit(u) ==
    /\ status[u] = "unborn"
    /\ status' = [status EXCEPT ![u] = "held"]

Answer(u) ==
    /\ status[u] = "held"
    /\ status' = [status EXCEPT ![u] = "answered"]

Drop(S) ==
    /\ \A u \in S : status[u] = "held"
    /\ status' = [u \in Urbs |-> IF u \in S THEN "dropped" ELSE status[u]]

Next ==
    \/ \E u \in Urbs : Submit(u) \/ Answer(u)
    \/ \E S \in SUBSET Urbs : Drop(S)

Spec == Init /\ [][Next]_status
=============================================================================
