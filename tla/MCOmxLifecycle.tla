--------------------------- MODULE MCOmxLifecycle ---------------------------
(* Instances of OmxLifecycle for TLC. *)
EXTENDS OmxLifecycle, TLC

CONSTANTS c1, c2, c3

(* All priorities equal, or the first before the second before the third. *)
Equal  == [c \in Component |-> 0]
Ranked == [c \in Component |-> IF c = c1 THEN 0 ELSE IF c = c2 THEN 1 ELSE 2]
EqualOnly     == {Equal}
EqualOrRanked == {Equal, Ranked}

(* What the clients of a run send. *)
UpAndDown == {StateSet(s) : s \in {"Idle", "Executing", "Loaded"}}
Population == UpAndDown \union {PortEnable(0), PortDisable(0),
                PortEnable(ALL_PORT_INDEX), PortDisable(ALL_PORT_INDEX)}
UpWaitOrInvalid == {StateSet(s) : s \in {"Idle", "WaitForResources", "Invalid"}}
UpAndLost == UpWaitOrInvalid \union {StateSet("Loaded")}
=============================================================================
