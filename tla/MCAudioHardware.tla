-------------------------- MODULE MCAudioHardware --------------------------
(* Instances of AudioHardware for TLC. *)
EXTENDS AudioHardware

CONSTANTS player, recorder, server

MCThreads == {player, recorder, server}

(* Streams that stay, and a kernel that may refuse everything; then streams
   that come and go with an echo canceller, and a kernel that has the playback
   devices. *)
Plain == [calls |-> AllCalls \ {"audioEffect", "closeStream"}, refused |-> Refusals]
Changing == [calls |-> AllCalls \ {"setParameters"},
             refused |-> {"pcm_in", "echo", "pcm_write"}]
PlainOrChanging == {Plain, Changing}
ChangingOnly == {Changing}
=============================================================================
