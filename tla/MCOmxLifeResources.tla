------------------------- MODULE MCOmxLifeResources -------------------------
(***************************************************************************)
(* The resource manager for TLC: three components, of which no             *)
(* initialisation fails, share two entries; or two of them, c3 being left  *)
(* alone, compete for one, may fail and may be sent back to Loaded.  part  *)
(* says which of the two it is.                                            *)
(***************************************************************************)
EXTENDS MCOmxLifecycle

VARIABLE part

Failing == INSTANCE OmxLifecycle WITH
  InitFails <- TRUE, MAX_RESOURCE_VIDEO <- 1, Commands <- UpAndLost

Sharing == part = "sharing" /\ Next

FailingPair ==
  /\ part = "failing" /\ Failing!Next
  /\ messageQ'[c3] = <<>> /\ UNCHANGED <<assignedBufferNum[c3], portState[c3]>>

ResourceSpec ==
  /\ part \in {"sharing", "failing"} /\ Init
  /\ [][(Sharing \/ FailingPair) /\ UNCHANGED part]_<<vars, part>>
=============================================================================
