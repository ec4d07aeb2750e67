-------------------------- MODULE MCOmxBufferFlow --------------------------
(* Instances of OmxBufferFlow for TLC. *)
EXTENDS OmxBufferFlow

CONSTANTS i1, i2, o1
MCIn1  == {i1}
MCIn2  == {i1, i2}
MCOut1 == {o1}

(* What the clients of a run send. *)
MCFlushAll  == {StateSet(s) : s \in {"Idle", "Executing", "Pause"}} \union {Flush(ALL_PORT_INDEX)}
MCStart     == {StateSet("Executing")}
=============================================================================
