------------------------------ MODULE MCPacing ------------------------------
(* A microphone and a speaker paced together, for two hosts at once.       *)
EXTENDS Pacing, TLC

CONSTANTS c1, c2, mic, spk

MCBInterval == (mic :> 1) @@ (spk :> 2)
=============================================================================
