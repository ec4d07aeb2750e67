---------------------------- MODULE MCMfcDecode ----------------------------
(* MfcDecode as it is: its state space is finite once the bounds are set. *)
EXTENDS MfcDecode
=============================================================================
