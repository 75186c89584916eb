----------------------------- MODULE MCIsoDisk ------------------------------
(* The paced endpoints and the mass-storage function of devices, side by   *)
(* side: they share no state, and `driven' says which one this behaviour   *)
(* is about.  Each has the fairness of its own specification.              *)
EXTENDS Pacing, BulkOnly, TLC

CONSTANTS c1, c2, mic, spk,     \* hosts and paced endpoints
          v1, v2                \* the values a block may hold

MCBInterval == (mic :> 1) @@ (spk :> 2)

VARIABLE driven

IsoTurn  == driven = "iso" /\ PacingNext /\ UNCHANGED vars
DiskTurn == driven = "disk" /\ Next /\ UNCHANGED pacingVars

IsoDiskInit == driven \in {"iso", "disk"} /\ PacingInit /\ Init
IsoDiskNext == (IsoTurn \/ DiskTurn) /\ UNCHANGED driven

\* The pacer and the clock go on; the disk's host goes on with its command.
IsoDiskFairness ==
    /\ WF_pacingVars(driven = "iso" /\ Pacer)
    /\ WF_pacingVars(driven = "iso" /\ Tick)
    /\ WF_vars(DataIn \/ (\E n \in 1 .. 2 : DataOut(n)) \/ ClearHalt \/ ReadCsw)

IsoDiskSpec ==
    IsoDiskInit /\ [][IsoDiskNext]_<<driven, pacingVars, vars>> /\ IsoDiskFairness
=============================================================================
