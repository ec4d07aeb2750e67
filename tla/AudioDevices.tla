---------------------------- MODULE AudioDevices ----------------------------
(***************************************************************************)
(* What AudioHardware.cpp does to the playback device, the mixer, the two  *)
(* ALSA streams and the echo reference while it holds their locks: every   *)
(* "_l" function is an operator from the state of the audio hardware to    *)
(* the state it leaves.  Threads and locks are AudioHardware's.            *)
(*                                                                         *)
(* A pointer is "set" or not, the ALSA configuration, the routes of a      *)
(* device and the frames are left out.  The echo reference a stream        *)
(* remembers is "live" while it is the one the hardware has, and "stale"   *)
(* once that one was released under the stream.  mStandbyCnt is compared   *)
(* with an earlier value of itself and nothing else: outSeen and inSeen    *)
(* are the threads whose remembered value is still the current one.        *)
(***************************************************************************)
EXTENDS Naturals, FiniteSets

CONSTANT Threads    \* the threads that call the HAL

Modes == {"normal", "in_call"}    \* every mode but the call is one
Echo == {"none", "live", "stale"}
Routes == {"unset", "mic", "off"}

Audio ==
  [mMode: Modes, mInCallAudioMode: BOOLEAN, mMicMute: BOOLEAN,
   mPcmOpenCnt: Nat, mPcm: BOOLEAN,
   mMixerOpenCnt: Nat, mMixer: BOOLEAN,
   mEchoReference: BOOLEAN,
   \* the output stream: in mOutput, not destroyed yet, and its members
   outListed: BOOLEAN, outAlive: BOOLEAN, outStandby: BOOLEAN, outPcm: BOOLEAN,
   outMixer: BOOLEAN, outEcho: Echo, outSeen: SUBSET Threads,
   \* the input stream: in mInputs, not destroyed yet, and its members
   inListed: BOOLEAN, inAlive: BOOLEAN, inStandby: BOOLEAN, inPcm: BOOLEAN,
   inMixer: BOOLEAN, inEcho: Echo, inNeedEcho: BOOLEAN, inRoute: Routes,
   inSeen: SUBSET Threads]

AudioHardwareInit ==
  [mMode |-> "normal", mInCallAudioMode |-> FALSE, mMicMute |-> FALSE,
   mPcmOpenCnt |-> 0, mPcm |-> FALSE, mMixerOpenCnt |-> 0, mMixer |-> FALSE,
   mEchoReference |-> FALSE,
   outListed |-> FALSE, outAlive |-> FALSE, outStandby |-> TRUE, outPcm |-> FALSE,
   outMixer |-> FALSE, outEcho |-> "none", outSeen |-> {},
   inListed |-> FALSE, inAlive |-> FALSE, inStandby |-> TRUE, inPcm |-> FALSE,
   inMixer |-> FALSE, inEcho |-> "none", inNeedEcho |-> FALSE, inRoute |-> "unset",
   inSeen |-> {}]

-----------------------------------------------------------------------------
(* The devices and the count of those who have them open.  A count that is
   not zero stands for an open device, so that the first branch is the only
   one that can fail. *)
openPcmOut_l(a, ok) ==
  IF a.mPcmOpenCnt = 0
  THEN IF ok /\ ~a.mPcm THEN [a EXCEPT !.mPcmOpenCnt = 1, !.mPcm = TRUE] ELSE a
  ELSE [a EXCEPT !.mPcmOpenCnt = a.mPcmOpenCnt + 1]

closePcmOut_l(a) ==
  IF a.mPcmOpenCnt = 0 THEN a
  ELSE IF a.mPcmOpenCnt = 1 THEN [a EXCEPT !.mPcmOpenCnt = 0, !.mPcm = FALSE]
  ELSE [a EXCEPT !.mPcmOpenCnt = a.mPcmOpenCnt - 1]

openMixer_l(a, ok) ==
  IF a.mMixerOpenCnt = 0
  THEN IF ok /\ ~a.mMixer THEN [a EXCEPT !.mMixerOpenCnt = 1, !.mMixer = TRUE] ELSE a
  ELSE [a EXCEPT !.mMixerOpenCnt = a.mMixerOpenCnt + 1]

closeMixer_l(a) ==
  IF a.mMixerOpenCnt = 0 THEN a
  ELSE IF a.mMixerOpenCnt = 1 THEN [a EXCEPT !.mMixerOpenCnt = 0, !.mMixer = FALSE]
  ELSE [a EXCEPT !.mMixerOpenCnt = a.mMixerOpenCnt - 1]

(* Whether the open just made gave its caller the device. *)
GotPcm(a, b) == b.mPcm /\ b.mPcmOpenCnt > a.mPcmOpenCnt
GotMixer(a, b) == b.mMixer /\ b.mMixerOpenCnt > a.mMixerOpenCnt

getActiveInput_l(a) == a.inListed /\ ~a.inStandby
ActiveOutput(a) == a.outListed /\ ~a.outStandby

-----------------------------------------------------------------------------
(* AudioStreamOutALSA. *)

OutClose_l(a) ==
  LET m == IF a.outMixer THEN [closeMixer_l(a) EXCEPT !.outMixer = FALSE] ELSE a
  IN  IF m.outPcm THEN [closePcmOut_l(m) EXCEPT !.outPcm = FALSE] ELSE m

(* open_l leaves mMixer alone when the PCM cannot be had. *)
OutOpen_l(a, pcmOk, mixerOk) ==
  LET p == openPcmOut_l(a, pcmOk)
      m == openMixer_l(p, mixerOk)
  IN  IF GotPcm(a, p)
      THEN [m EXCEPT !.outPcm = TRUE, !.outMixer = GotMixer(p, m)]
      ELSE [p EXCEPT !.outPcm = FALSE]

OutDoStandby_l(a) == OutClose_l([a EXCEPT !.outSeen = {}, !.outStandby = TRUE])

-----------------------------------------------------------------------------
(* Deviation for the mutation runs: the output keeps the pointer. *)
releaseOnly(a, ref) ==
  IF a.mEchoReference /\ ref = "live"
  THEN LET Now(e) == IF e = "live" THEN "stale" ELSE e
       IN  [a EXCEPT !.mEchoReference = FALSE, !.outEcho = Now(a.outEcho),
                     !.inEcho = Now(a.inEcho)]
  ELSE a

(* The echo reference: made by a capture that needs one, remembered by both
   streams. *)
releaseEchoReference(a, ref) ==
  IF a.mEchoReference /\ ref = "live"
  THEN LET Now(e) == IF e = "live" THEN "stale" ELSE e
       IN  [a EXCEPT !.mEchoReference = FALSE,
                     !.outEcho = IF a.outListed /\ a.outEcho = "live" THEN "none"
                                 ELSE Now(a.outEcho),
                     !.inEcho = Now(a.inEcho)]
  ELSE a

getEchoReference(a, ok) ==
  LET r == releaseEchoReference(a, "live")
      made == r.outListed /\ ok
  IN  [r EXCEPT !.mEchoReference = made,
                !.outEcho = IF made /\ r.outEcho = "none" THEN "live" ELSE r.outEcho,
                !.inEcho = IF made THEN "live" ELSE "none"]

-----------------------------------------------------------------------------
(* AudioStreamInALSA.  The capture PCM belongs to the stream alone. *)
InClose_l(a) ==
  LET m == IF a.inMixer THEN [closeMixer_l(a) EXCEPT !.inMixer = FALSE] ELSE a
  IN  [m EXCEPT !.inPcm = FALSE]

InOpen_l(a, pcmOk, mixerOk) ==
  LET m == openMixer_l(a, mixerOk)
      route == IF a.mMode = "in_call" \/ ~GotMixer(a, m) THEN "unset"
               ELSE IF a.mMicMute THEN "off" ELSE "mic"
  IN  IF pcmOk THEN [m EXCEPT !.inPcm = TRUE, !.inMixer = GotMixer(a, m), !.inRoute = route]
      ELSE [a EXCEPT !.inPcm = FALSE]

(* The end of doStandby_l, once the echo reference was dealt with: a stream
   that was in standby already keeps its reference. *)
InEndStandby_l(a, wasActive) ==
  InClose_l(IF wasActive THEN [a EXCEPT !.inEcho = "none", !.inStandby = TRUE] ELSE a)
=============================================================================
