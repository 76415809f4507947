----------------------------- MODULE MCPurgeLoop -----------------------------
(* Instances of PurgeLoop for TLC.  A pump in Configured rejects record 2.  *)
EXTENDS PurgeLoop

CONSTANTS p1, p2, u

MCBlocked == [p \in Pump |-> {2} \cap Record]
=============================================================================
