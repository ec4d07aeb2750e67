-------------------------- MODULE MCCameraThreads --------------------------
(* CameraThreads as it is: its state space is finite once the set of windows
   is. *)
EXTENDS CameraThreads
=============================================================================
