------------------------ MODULE AudioHardwareProofs ------------------------
(***************************************************************************)
(* What is proved of AudioHardware, for any number of threads: everything   *)
(* keeps its type; with plain calls the mutexes are taken in order, so that *)
(* the threads never all wait for each other; whatever is called, no stream *)
(* uses an echo reference that was released; and with one setMode at a time *)
(* the microphone's mute reaches the input and a device somebody uses is    *)
(* open.                                                                    *)
(***************************************************************************)
EXTENDS AudioHardware, TLAPS

USE DEF Modes, Echo, Routes

-----------------------------------------------------------------------------
(* The "_l" functions keep the type of the audio record. *)
LEMMA InitType == AudioHardwareInit \in Audio
  BY DEF AudioHardwareInit, Audio

(* A member of the record may get any value of its type. *)
LEMMA Fields ==
  ASSUME NEW a \in Audio, NEW b \in BOOLEAN, NEW S \in SUBSET Threads, NEW m \in Modes
  PROVE  /\ [a EXCEPT !.outMixer = b] \in Audio /\ [a EXCEPT !.outPcm = b] \in Audio
         /\ [a EXCEPT !.inMixer = b] \in Audio /\ [a EXCEPT !.inPcm = b] \in Audio
         /\ [a EXCEPT !.outStandby = b] \in Audio /\ [a EXCEPT !.inStandby = b] \in Audio
         /\ [a EXCEPT !.inSeen = S] \in Audio /\ [a EXCEPT !.outSeen = S] \in Audio
         /\ [a EXCEPT !.mMode = m] \in Audio /\ [a EXCEPT !.mInCallAudioMode = b] \in Audio
         /\ [a EXCEPT !.mMicMute = b] \in Audio /\ [a EXCEPT !.inNeedEcho = b] \in Audio
         /\ [a EXCEPT !.outListed = b] \in Audio /\ [a EXCEPT !.inListed = b] \in Audio
<1>1. [a EXCEPT !.outMixer = b] \in Audio /\ [a EXCEPT !.outPcm = b] \in Audio BY DEF Audio
<1>2. [a EXCEPT !.inMixer = b] \in Audio /\ [a EXCEPT !.inPcm = b] \in Audio BY DEF Audio
<1>3. [a EXCEPT !.outStandby = b] \in Audio /\ [a EXCEPT !.inStandby = b] \in Audio BY DEF Audio
<1>4. [a EXCEPT !.inSeen = S] \in Audio /\ [a EXCEPT !.outSeen = S] \in Audio BY DEF Audio
<1>5. [a EXCEPT !.mMode = m] \in Audio /\ [a EXCEPT !.mInCallAudioMode = b] \in Audio BY
   DEF Audio
<1>6. [a EXCEPT !.mMicMute = b] \in Audio /\ [a EXCEPT !.inNeedEcho = b] \in Audio BY DEF Audio
<1>7. [a EXCEPT !.outListed = b] \in Audio /\ [a EXCEPT !.inListed = b] \in Audio BY DEF Audio
<1> QED BY <1>1, <1>2, <1>3, <1>4, <1>5, <1>6, <1>7

LEMMA openPcmType == \A a \in Audio, ok \in BOOLEAN : openPcmOut_l(a, ok) \in Audio
<1> SUFFICES ASSUME NEW a \in Audio, NEW ok \in BOOLEAN
             PROVE openPcmOut_l(a, ok) \in Audio
  OBVIOUS
<1>1. a.mPcmOpenCnt \in Nat BY DEF Audio
<1>2. [a EXCEPT !.mPcmOpenCnt = 1, !.mPcm = TRUE] \in Audio BY DEF Audio
<1>3. [a EXCEPT !.mPcmOpenCnt = a.mPcmOpenCnt + 1] \in Audio BY DEF Audio
<1> QED BY <1>2, <1>3 DEF openPcmOut_l

LEMMA closePcmType == \A a \in Audio : closePcmOut_l(a) \in Audio
<1> SUFFICES ASSUME NEW a \in Audio PROVE closePcmOut_l(a) \in Audio
  OBVIOUS
<1>1. a.mPcmOpenCnt \in Nat BY DEF Audio
<1>2. [a EXCEPT !.mPcmOpenCnt = 0, !.mPcm = FALSE] \in Audio BY DEF Audio
<1>3. a.mPcmOpenCnt # 0 => [a EXCEPT !.mPcmOpenCnt = a.mPcmOpenCnt - 1] \in Audio
  BY DEF Audio
<1> QED BY <1>2, <1>3 DEF closePcmOut_l

LEMMA openMixerType == \A a \in Audio, ok \in BOOLEAN : openMixer_l(a, ok) \in Audio
<1> SUFFICES ASSUME NEW a \in Audio, NEW ok \in BOOLEAN
             PROVE openMixer_l(a, ok) \in Audio
  OBVIOUS
<1>1. [a EXCEPT !.mMixerOpenCnt = 1, !.mMixer = TRUE] \in Audio BY DEF Audio
<1>2. [a EXCEPT !.mMixerOpenCnt = a.mMixerOpenCnt + 1] \in Audio BY DEF Audio
<1> QED BY <1>1, <1>2 DEF openMixer_l

LEMMA closeMixerType == \A a \in Audio : closeMixer_l(a) \in Audio
<1> SUFFICES ASSUME NEW a \in Audio PROVE closeMixer_l(a) \in Audio
  OBVIOUS
<1>1. [a EXCEPT !.mMixerOpenCnt = 0, !.mMixer = FALSE] \in Audio BY DEF Audio
<1>2. a.mMixerOpenCnt # 0 => [a EXCEPT !.mMixerOpenCnt = a.mMixerOpenCnt - 1] \in Audio
  BY DEF Audio
<1> QED BY <1>1, <1>2 DEF closeMixer_l

LEMMA OutCloseType == \A a \in Audio : OutClose_l(a) \in Audio
<1> SUFFICES ASSUME NEW a \in Audio PROVE OutClose_l(a) \in Audio
  OBVIOUS
<1> DEFINE m == IF a.outMixer THEN [closeMixer_l(a) EXCEPT !.outMixer = FALSE] ELSE a
<1>1. \A b \in Audio : /\ [b EXCEPT !.outMixer = FALSE] \in Audio
                        /\ [b EXCEPT !.outPcm = FALSE] \in Audio
  BY Fields
<1>2. m \in Audio BY <1>1, closeMixerType
<1> HIDE DEF m
<1>3. (IF m.outPcm THEN [closePcmOut_l(m) EXCEPT !.outPcm = FALSE] ELSE m) \in Audio
  BY <1>1, <1>2, closePcmType
<1> QED BY <1>3 DEF OutClose_l, m

LEMMA OutOpenType == \A a \in Audio, p, m \in BOOLEAN : OutOpen_l(a, p, m) \in Audio
<1> SUFFICES ASSUME NEW a \in Audio, NEW pOk \in BOOLEAN, NEW mOk \in BOOLEAN
             PROVE OutOpen_l(a, pOk, mOk) \in Audio
  OBVIOUS
<1> DEFINE p == openPcmOut_l(a, pOk)
           m == openMixer_l(p, mOk)
           g == GotMixer(p, m)
<1>1. p \in Audio /\ m \in Audio BY openPcmType, openMixerType
<1>2. g \in BOOLEAN BY DEF GotMixer
<1> HIDE DEF p, m, g
<1>3. [m EXCEPT !.outPcm = TRUE, !.outMixer = g] \in Audio BY <1>1, <1>2 DEF Audio
<1>4. [p EXCEPT !.outPcm = FALSE] \in Audio BY <1>1 DEF Audio
<1> QED BY <1>3, <1>4 DEF OutOpen_l, p, m, g

LEMMA OutStandbyType == \A a \in Audio : OutDoStandby_l(a) \in Audio
<1> SUFFICES ASSUME NEW a \in Audio PROVE OutDoStandby_l(a) \in Audio
  OBVIOUS
<1>1. [a EXCEPT !.outSeen = {}, !.outStandby = TRUE] \in Audio BY DEF Audio
<1> QED BY <1>1, OutCloseType DEF OutDoStandby_l

LEMMA releaseType == \A a \in Audio, ref \in Echo : releaseEchoReference(a, ref) \in Audio
<1> SUFFICES ASSUME NEW a \in Audio, NEW ref \in Echo
             PROVE releaseEchoReference(a, ref) \in Audio
  OBVIOUS
<1> DEFINE Now(e) == IF e = "live" THEN "stale" ELSE e
           o == IF a.outListed /\ a.outEcho = "live" THEN "none" ELSE Now(a.outEcho)
           i == Now(a.inEcho)
<1>1. a.outEcho \in Echo /\ a.inEcho \in Echo BY DEF Audio
<1>2. o \in Echo /\ i \in Echo BY <1>1
<1> HIDE DEF o, i
<1>3. [a EXCEPT !.mEchoReference = FALSE, !.outEcho = o, !.inEcho = i] \in Audio
  BY <1>2 DEF Audio
<1> QED BY <1>3 DEF releaseEchoReference, o, i

LEMMA getType == \A a \in Audio, ok \in BOOLEAN : getEchoReference(a, ok) \in Audio
<1> SUFFICES ASSUME NEW a \in Audio, NEW ok \in BOOLEAN
             PROVE getEchoReference(a, ok) \in Audio
  OBVIOUS
<1> DEFINE r == releaseEchoReference(a, "live")
           made == r.outListed /\ ok
           o == IF made /\ r.outEcho = "none" THEN "live" ELSE r.outEcho
           i == IF made THEN "live" ELSE "none"
<1>1. r \in Audio BY releaseType
<1> HIDE DEF r
<1>2. made \in BOOLEAN OBVIOUS
<1>3. r.outEcho \in Echo BY <1>1 DEF Audio
<1> HIDE DEF made
<1>4. o \in Echo /\ i \in Echo BY <1>3
<1> HIDE DEF o, i
<1>5. [r EXCEPT !.mEchoReference = made, !.outEcho = o, !.inEcho = i] \in Audio
  BY <1>1, <1>2, <1>4 DEF Audio
<1> QED BY <1>5 DEF getEchoReference, o, i, made, r

LEMMA InCloseType == \A a \in Audio : InClose_l(a) \in Audio
<1> SUFFICES ASSUME NEW a \in Audio PROVE InClose_l(a) \in Audio
  OBVIOUS
<1> DEFINE m == IF a.inMixer THEN [closeMixer_l(a) EXCEPT !.inMixer = FALSE] ELSE a
<1>1. \A b \in Audio : /\ [b EXCEPT !.inMixer = FALSE] \in Audio
                        /\ [b EXCEPT !.inPcm = FALSE] \in Audio
  BY Fields
<1>2. m \in Audio BY <1>1, closeMixerType
<1> HIDE DEF m
<1>3. [m EXCEPT !.inPcm = FALSE] \in Audio BY <1>1, <1>2
<1> QED BY <1>3 DEF InClose_l, m

LEMMA InOpenType == \A a \in Audio, p, m \in BOOLEAN : InOpen_l(a, p, m) \in Audio
<1> SUFFICES ASSUME NEW a \in Audio, NEW pOk \in BOOLEAN, NEW mOk \in BOOLEAN
             PROVE InOpen_l(a, pOk, mOk) \in Audio
  OBVIOUS
<1> DEFINE m == openMixer_l(a, mOk)
           g == GotMixer(a, m)
           route == IF a.mMode = "in_call" \/ ~g THEN "unset"
                    ELSE IF a.mMicMute THEN "off" ELSE "mic"
<1>1. m \in Audio BY openMixerType
<1>2. g \in BOOLEAN BY DEF GotMixer
<1>3. route \in Routes OBVIOUS
<1> HIDE DEF m, g, route
<1>4. [m EXCEPT !.inPcm = TRUE, !.inMixer = g, !.inRoute = route] \in Audio
  BY <1>1, <1>2, <1>3 DEF Audio
<1>5. [a EXCEPT !.inPcm = FALSE] \in Audio BY DEF Audio
<1> QED BY <1>4, <1>5 DEF InOpen_l, m, g, route

LEMMA InEndType == \A a \in Audio, w \in BOOLEAN : InEndStandby_l(a, w) \in Audio
<1> SUFFICES ASSUME NEW a \in Audio, NEW w \in BOOLEAN
             PROVE InEndStandby_l(a, w) \in Audio
  OBVIOUS
<1>1. [a EXCEPT !.inEcho = "none", !.inStandby = TRUE] \in Audio BY DEF Audio
<1> QED BY <1>1, InCloseType DEF InEndStandby_l


-----------------------------------------------------------------------------
(* Everything keeps its type. *)
LEMMA OutcomeType == \A what : Outcome(what) \subseteq BOOLEAN
  BY DEF Outcome

LEMMA BooleanFields ==
  ASSUME NEW a \in Audio
  PROVE  /\ (~a.inStandby) \in BOOLEAN /\ (~a.outPcm) \in BOOLEAN
         /\ (~a.mMicMute) \in BOOLEAN /\ (~a.inNeedEcho) \in BOOLEAN
         /\ a.inEcho \in Echo
  BY DEF Audio

LEMMA OpenTypes ==
  ASSUME NEW a \in Audio
  PROVE  /\ [a EXCEPT !.outListed = TRUE, !.outAlive = TRUE] \in Audio
         /\ [a EXCEPT !.inListed = TRUE, !.inAlive = TRUE, !.inNeedEcho = FALSE] \in Audio
  BY DEF Audio

LEMMA DestroyTypes ==
  ASSUME NEW a \in Audio, NEW b \in BOOLEAN, NEW e \in Echo
  PROVE  /\ [a EXCEPT !.outAlive = b, !.outEcho = e] \in Audio
         /\ [a EXCEPT !.inAlive = b, !.inEcho = e] \in Audio
  BY DEF Audio

LEMMA LookTypes ==
  ASSUME NEW a \in Audio, NEW t \in Threads
  PROVE  /\ [a EXCEPT !.inSeen = a.inSeen \cup {t}] \in Audio
         /\ [a EXCEPT !.outSeen = a.outSeen \cup {t}] \in Audio
  BY DEF Audio

(* The part of the type that is not the audio record's. *)
ControlOK ==
  /\ owner \in [Mutexes -> Threads \cup {NoThread}]
  /\ pc \in [Threads -> Labels] /\ after \in [Threads -> Labels]
  /\ spOut \subseteq Threads /\ spIn \subseteq Threads

LEMMA ForgetType == \A t \in Threads : audio \in Audio => Forget(t) \in Audio
  BY DEF Forget, Audio

LEMMA ReopenType ==
  ASSUME NEW a \in Audio, NEW p \in BOOLEAN, NEW m \in BOOLEAN, NEW e \in BOOLEAN
  PROVE  LET opened == OutOpen_l(OutClose_l(a), p, m)
             o == IF a.outStandby THEN a
                  ELSE IF opened.outPcm THEN opened ELSE OutDoStandby_l(opened)
         IN  (IF o.inNeedEcho /\ o.inEcho = "none" THEN getEchoReference(o, e) ELSE o) \in Audio
<1> DEFINE opened == OutOpen_l(OutClose_l(a), p, m)
           o == IF a.outStandby THEN a
                ELSE IF opened.outPcm THEN opened ELSE OutDoStandby_l(opened)
<1>1. opened \in Audio BY OutCloseType, OutOpenType
<1> HIDE DEF opened
<1>2. o \in Audio BY <1>1, OutStandbyType
<1> HIDE DEF o
<1>3. (IF o.inNeedEcho /\ o.inEcho = "none" THEN getEchoReference(o, e) ELSE o) \in Audio
  BY <1>2, getType
<1> QED BY <1>3 DEF o, opened

LEMMA BodyType ==
  ASSUME NEW a \in Audio, NEW m \in Modes
  PROVE  LET set == [a EXCEPT !.mMode = m]
         IN  /\ set \in Audio /\ OutDoStandby_l(set) \in Audio
             /\ closePcmOut_l(closeMixer_l(set)) \in Audio
             /\ OutDoStandby_l(closePcmOut_l(closeMixer_l(set))) \in Audio
  BY Fields, OutStandbyType, closePcmType, closeMixerType

LEMMA TypeStep == TypeOK /\ [Next]_vars => TypeOK'
<1> SUFFICES ASSUME TypeOK, [Next]_vars PROVE TypeOK'
  OBVIOUS
<1> USE DEF TypeOK, ControlOK, Mutexes, Labels, WaitsForOut, WaitsForIn, WaitsForHw
<1>1. ASSUME NEW t \in Threads, WriteBegin(t) PROVE TypeOK'
  BY <1>1
     DEF WriteBegin, Goto, At, Begin, Take, Handover, Release, Held, LastIn, LastOut,
         CallDoStandby, DoStandbyReturn, sps, Servers, LockInput, LockOutput, LockHw
<1>2. ASSUME NEW t \in Threads, OutStandbyBegin(t) PROVE TypeOK'
  BY <1>2
     DEF OutStandbyBegin, Goto, At, Begin, Take, Handover, Release, Held, LastIn, LastOut,
         CallDoStandby, DoStandbyReturn, sps, Servers, LockInput, LockOutput, LockHw
<1>3. ASSUME NEW t \in Threads, OutSetParameters(t) PROVE TypeOK'
  BY <1>3
     DEF OutSetParameters, Goto, At, Begin, Take, Handover, Release, Held, LastIn, LastOut,
         CallDoStandby, DoStandbyReturn, sps, Servers, LockInput, LockOutput, LockHw
<1>4. ASSUME NEW t \in Threads, ReadBegin(t) PROVE TypeOK'
  BY <1>4
     DEF ReadBegin, Goto, At, Begin, Take, Handover, Release, Held, LastIn, LastOut,
         CallDoStandby, DoStandbyReturn, sps, Servers, LockInput, LockOutput, LockHw
<1>5. ASSUME NEW t \in Threads, InStandbyBegin(t) PROVE TypeOK'
  BY <1>5
     DEF InStandbyBegin, Goto, At, Begin, Take, Handover, Release, Held, LastIn, LastOut,
         CallDoStandby, DoStandbyReturn, sps, Servers, LockInput, LockOutput, LockHw
<1>6. ASSUME NEW t \in Threads, InSetParameters(t) PROVE TypeOK'
  BY <1>6
     DEF InSetParameters, Goto, At, Begin, Take, Handover, Release, Held, LastIn, LastOut,
         CallDoStandby, DoStandbyReturn, sps, Servers, LockInput, LockOutput, LockHw
<1>7. ASSUME NEW t \in Threads, SetModeBegin(t) PROVE TypeOK'
  BY <1>7
     DEF SetModeBegin, Goto, At, Begin, Take, Handover, Release, Held, LastIn, LastOut,
         CallDoStandby, DoStandbyReturn, sps, Servers, LockInput, LockOutput, LockHw
<1>8. ASSUME NEW t \in Threads, SetMicMute(t) PROVE TypeOK'
  <2>1. audio' \in Audio
    BY <1>8, Fields, BooleanFields DEF SetMicMute
  <2>2. UNCHANGED env /\ ControlOK'
    BY <1>8
       DEF SetMicMute, Goto, At, Begin, Take, Handover, Release, Held, LastIn, LastOut,
           CallDoStandby, DoStandbyReturn, sps, Servers, LockInput, LockOutput, LockHw
  <2> QED BY <2>1, <2>2
<1>9. ASSUME NEW t \in Threads, OpenOutputStream(t) PROVE TypeOK'
  <2>1. audio' \in Audio
    BY <1>9, OpenTypes DEF OpenOutputStream
  <2>2. UNCHANGED env /\ ControlOK'
    BY <1>9
       DEF OpenOutputStream, Goto, At, Begin, Take, Handover, Release, Held, LastIn,
           LastOut, CallDoStandby, DoStandbyReturn, sps, Servers, LockInput, LockOutput, LockHw
  <2> QED BY <2>1, <2>2
<1>10. ASSUME NEW t \in Threads, CloseOutputStream(t) PROVE TypeOK'
  <2>1. audio' \in Audio
    BY <1>10, Fields DEF CloseOutputStream
  <2>2. UNCHANGED env /\ ControlOK'
    BY <1>10
       DEF CloseOutputStream, Goto, At, Begin, Take, Handover, Release, Held, LastIn,
           LastOut, CallDoStandby, DoStandbyReturn, sps, Servers, LockInput, LockOutput, LockHw
  <2> QED BY <2>1, <2>2
<1>11. ASSUME NEW t \in Threads, OpenInputStream(t) PROVE TypeOK'
  <2>1. audio' \in Audio
    BY <1>11, OpenTypes DEF OpenInputStream
  <2>2. UNCHANGED env /\ ControlOK'
    BY <1>11
       DEF OpenInputStream, Goto, At, Begin, Take, Handover, Release, Held, LastIn, LastOut,
           CallDoStandby, DoStandbyReturn, sps, Servers, LockInput, LockOutput, LockHw
  <2> QED BY <2>1, <2>2
<1>12. ASSUME NEW t \in Threads, CloseInputStream(t) PROVE TypeOK'
  <2>1. audio' \in Audio
    BY <1>12, Fields DEF CloseInputStream
  <2>2. UNCHANGED env /\ ControlOK'
    BY <1>12
       DEF CloseInputStream, Goto, At, Begin, Take, Handover, Release, Held, LastIn,
           LastOut, CallDoStandby, DoStandbyReturn, sps, Servers, LockInput, LockOutput, LockHw
  <2> QED BY <2>1, <2>2
<1>13. ASSUME NEW t \in Threads, AudioEffect(t) PROVE TypeOK'
  <2>1. audio' \in Audio
    BY <1>13, Fields, BooleanFields DEF AudioEffect
  <2>2. UNCHANGED env /\ ControlOK'
    BY <1>13
       DEF AudioEffect, Goto, At, Begin, Take, Handover, Release, Held, LastIn, LastOut,
           CallDoStandby, DoStandbyReturn, sps, Servers, LockInput, LockOutput, LockHw
  <2> QED BY <2>1, <2>2
<1>14. ASSUME NEW t \in Threads, WriteLock(t) PROVE TypeOK'
  BY <1>14
     DEF WriteLock, Goto, At, Begin, Take, Handover, Release, Held, LastIn, LastOut,
         CallDoStandby, DoStandbyReturn, sps, Servers, LockInput, LockOutput, LockHw
<1>15. ASSUME NEW t \in Threads, WriteLockHw(t) PROVE TypeOK'
  BY <1>15
     DEF WriteLockHw, Goto, At, Begin, Take, Handover, Release, Held, LastIn, LastOut,
         CallDoStandby, DoStandbyReturn, sps, Servers, LockInput, LockOutput, LockHw
<1>16. ASSUME NEW t \in Threads, LockInput(t, "w_in", "w_inhw") PROVE TypeOK'
  BY <1>16
     DEF Goto, At, Begin, Take, Handover, Release, Held, LastIn, LastOut, CallDoStandby,
         DoStandbyReturn, sps, Servers, LockInput, LockOutput, LockHw
<1>17. ASSUME NEW t \in Threads, WriteRecheck(t) PROVE TypeOK'
  <2>1. audio' \in Audio
    BY <1>17, ForgetType, InCloseType DEF WriteRecheck
  <2>2. UNCHANGED env /\ ControlOK'
    BY <1>17
       DEF WriteRecheck, Goto, At, Begin, Take, Handover, Release, Held, LastIn, LastOut,
           CallDoStandby, DoStandbyReturn, sps, Servers, LockInput, LockOutput, LockHw
  <2> QED BY <2>1, <2>2
<1>18. ASSUME NEW t \in Threads, LockOutput(t, "so_out", "so_hw") PROVE TypeOK'
  BY <1>18
     DEF Goto, At, Begin, Take, Handover, Release, Held, LastIn, LastOut, CallDoStandby,
         DoStandbyReturn, sps, Servers, LockInput, LockOutput, LockHw
<1>19. ASSUME NEW t \in Threads, OutStandbyHw(t) PROVE TypeOK'
  <2>1. audio' \in Audio
    <3> DEFINE o == OutDoStandby_l(audio)
               b == audio.outListed \/ spOut # {}
               e == IF b THEN o.outEcho ELSE "none"
    <3>1. o \in Audio BY OutStandbyType
    <3>2. audio' = [o EXCEPT !.outAlive = b, !.outEcho = e] BY <1>19 DEF OutStandbyHw
    <3> HIDE DEF o
    <3>3. b \in BOOLEAN OBVIOUS
    <3>4. o.outEcho \in Echo BY <3>1 DEF Audio
    <3>5. e \in Echo BY <3>4
    <3> HIDE DEF b, e
    <3> QED BY <3>1, <3>2, <3>3, <3>5, DestroyTypes
  <2>2. UNCHANGED env /\ ControlOK'
    BY <1>19
       DEF OutStandbyHw, Goto, At, Begin, Take, Handover, Release, Held, LastIn, LastOut,
           CallDoStandby, DoStandbyReturn, sps, Servers, LockInput, LockOutput, LockHw
  <2> QED BY <2>1, <2>2
<1>20. ASSUME NEW t \in Threads, LockOutput(t, "po_out", "po_hw") PROVE TypeOK'
  BY <1>20
     DEF Goto, At, Begin, Take, Handover, Release, Held, LastIn, LastOut, CallDoStandby,
         DoStandbyReturn, sps, Servers, LockInput, LockOutput, LockHw
<1>21. ASSUME NEW t \in Threads, OutSetParametersHw(t) PROVE TypeOK'
  <2>1. audio' \in Audio
    BY <1>21, OutStandbyType DEF OutSetParametersHw
  <2>2. UNCHANGED env /\ ControlOK'
    BY <1>21
       DEF OutSetParametersHw, Goto, At, Begin, Take, Handover, Release, Held, LastIn,
           LastOut, CallDoStandby, DoStandbyReturn, sps, Servers, LockInput, LockOutput, LockHw
  <2> QED BY <2>1, <2>2
<1>22. ASSUME NEW t \in Threads, LockOutput(t, "ds_out", "ds_in") PROVE TypeOK'
  BY <1>22
     DEF Goto, At, Begin, Take, Handover, Release, Held, LastIn, LastOut, CallDoStandby,
         DoStandbyReturn, sps, Servers, LockInput, LockOutput, LockHw
<1>23. ASSUME NEW t \in Threads, LockInput(t, "ds_in", "ds_hw") PROVE TypeOK'
  BY <1>23
     DEF Goto, At, Begin, Take, Handover, Release, Held, LastIn, LastOut, CallDoStandby,
         DoStandbyReturn, sps, Servers, LockInput, LockOutput, LockHw
<1>24. ASSUME NEW t \in Threads, DoStandbyRelease(t) PROVE TypeOK'
  <2>1. audio' \in Audio
    BY <1>24, releaseType, InEndType, BooleanFields DEF DoStandbyRelease
  <2>2. UNCHANGED env /\ ControlOK'
    BY <1>24
       DEF DoStandbyRelease, Goto, At, Begin, Take, Handover, Release, Held, LastIn,
           LastOut, CallDoStandby, DoStandbyReturn, sps, Servers, LockInput, LockOutput, LockHw
  <2> QED BY <2>1, <2>2
<1>25. ASSUME NEW t \in Threads, LockInput(t, "si_in", "si_hw") PROVE TypeOK'
  BY <1>25
     DEF Goto, At, Begin, Take, Handover, Release, Held, LastIn, LastOut, CallDoStandby,
         DoStandbyReturn, sps, Servers, LockInput, LockOutput, LockHw
<1>26. ASSUME NEW t \in Threads, InStandbyHw(t) PROVE TypeOK'
  BY <1>26
     DEF InStandbyHw, Goto, At, Begin, Take, Handover, Release, Held, LastIn, LastOut,
         CallDoStandby, DoStandbyReturn, sps, Servers, LockInput, LockOutput, LockHw
<1>27. ASSUME NEW t \in Threads, LockInput(t, "pi_in", "pi_hw") PROVE TypeOK'
  BY <1>27
     DEF Goto, At, Begin, Take, Handover, Release, Held, LastIn, LastOut, CallDoStandby,
         DoStandbyReturn, sps, Servers, LockInput, LockOutput, LockHw
<1>28. ASSUME NEW t \in Threads, InSetSource(t) PROVE TypeOK'
  <2>1. audio' \in Audio
    BY <1>28, openMixerType, closeMixerType, OutcomeType DEF InSetSource
  <2>2. UNCHANGED env /\ ControlOK'
    BY <1>28
       DEF InSetSource, Goto, At, Begin, Take, Handover, Release, Held, LastIn, LastOut,
           CallDoStandby, DoStandbyReturn, sps, Servers, LockInput, LockOutput, LockHw
  <2> QED BY <2>1, <2>2
<1>29. ASSUME NEW t \in Threads, InSetDevice(t) PROVE TypeOK'
  BY <1>29
     DEF InSetDevice, Goto, At, Begin, Take, Handover, Release, Held, LastIn, LastOut,
         CallDoStandby, DoStandbyReturn, sps, Servers, LockInput, LockOutput, LockHw
<1>30. ASSUME NEW t \in Threads, ReadLock(t) PROVE TypeOK'
  BY <1>30
     DEF ReadLock, Goto, At, Begin, Take, Handover, Release, Held, LastIn, LastOut,
         CallDoStandby, DoStandbyReturn, sps, Servers, LockInput, LockOutput, LockHw
<1>31. ASSUME NEW t \in Threads, ReadLockHw(t) PROVE TypeOK'
  BY <1>31
     DEF ReadLockHw, Goto, At, Begin, Take, Handover, Release, Held, LastIn, LastOut,
         CallDoStandby, DoStandbyReturn, sps, Servers, LockInput, LockOutput, LockHw
<1>32. ASSUME NEW t \in Threads, LockOutput(t, "r_out", "r_in2") PROVE TypeOK'
  BY <1>32
     DEF Goto, At, Begin, Take, Handover, Release, Held, LastIn, LastOut, CallDoStandby,
         DoStandbyReturn, sps, Servers, LockInput, LockOutput, LockHw
<1>33. ASSUME NEW t \in Threads, LockInput(t, "r_in2", "r_hw2") PROVE TypeOK'
  BY <1>33
     DEF Goto, At, Begin, Take, Handover, Release, Held, LastIn, LastOut, CallDoStandby,
         DoStandbyReturn, sps, Servers, LockInput, LockOutput, LockHw
<1>34. ASSUME NEW t \in Threads, ReadReopenOutput(t) PROVE TypeOK'
  <2>1. audio' \in Audio
    <3>1. CASE UNCHANGED audio
      BY <3>1
    <3>2. CASE ~ UNCHANGED audio
      <4>1. PICK p \in Outcome("pcm_out"), m \in Outcome("mixer"), e \in Outcome("echo") :
              audio' = LET opened == OutOpen_l(OutClose_l(audio), p, m)
                           o == IF audio.outStandby THEN audio
                                ELSE IF opened.outPcm THEN opened ELSE OutDoStandby_l(opened)
                       IN  IF o.inNeedEcho /\ o.inEcho = "none"
                           THEN getEchoReference(o, e) ELSE o
        BY <1>34, <3>2 DEF ReadReopenOutput
      <4>2. p \in BOOLEAN /\ m \in BOOLEAN /\ e \in BOOLEAN BY OutcomeType
      <4> QED BY <4>1, <4>2, ReopenType
    <3> QED BY <3>1, <3>2
  <2>2. UNCHANGED env /\ ControlOK'
    BY <1>34
       DEF ReadReopenOutput, Goto, At, Begin, Take, Handover, Release, Held, LastIn,
           LastOut, CallDoStandby, DoStandbyReturn, sps, Servers, LockInput, LockOutput, LockHw
  <2> QED BY <2>1, <2>2
<1>35. ASSUME NEW t \in Threads, LockHw(t, "m_hw", "m_look") PROVE TypeOK'
  BY <1>35
     DEF Goto, At, Begin, Take, Handover, Release, Held, LastIn, LastOut, CallDoStandby,
         DoStandbyReturn, sps, Servers, LockInput, LockOutput, LockHw
<1>36. ASSUME NEW t \in Threads, LockOutput(t, "m_out", "m_hw2") PROVE TypeOK'
  BY <1>36
     DEF Goto, At, Begin, Take, Handover, Release, Held, LastIn, LastOut, CallDoStandby,
         DoStandbyReturn, sps, Servers, LockInput, LockOutput, LockHw
<1>37. ASSUME NEW t \in Threads, SetModeRecheckOut(t) PROVE TypeOK'
  <2>1. audio' \in Audio
    BY <1>37, ForgetType DEF SetModeRecheckOut
  <2>2. UNCHANGED env /\ ControlOK'
    BY <1>37
       DEF SetModeRecheckOut, Goto, At, Begin, Take, Handover, Release, Held, LastIn,
           LastOut, CallDoStandby, DoStandbyReturn, sps, Servers, LockInput, LockOutput, LockHw
  <2> QED BY <2>1, <2>2
<1>38. ASSUME NEW t \in Threads, LockInput(t, "m_in", "m_hw3") PROVE TypeOK'
  BY <1>38
     DEF Goto, At, Begin, Take, Handover, Release, Held, LastIn, LastOut, CallDoStandby,
         DoStandbyReturn, sps, Servers, LockInput, LockOutput, LockHw
<1>39. ASSUME NEW t \in Threads, SetModeRecheckIn(t) PROVE TypeOK'
  <2>1. audio' \in Audio
    BY <1>39, ForgetType DEF SetModeRecheckIn
  <2>2. UNCHANGED env /\ ControlOK'
    BY <1>39
       DEF SetModeRecheckIn, Goto, At, Begin, Take, Handover, Release, Held, LastIn,
           LastOut, CallDoStandby, DoStandbyReturn, sps, Servers, LockInput, LockOutput, LockHw
  <2> QED BY <2>1, <2>2
<1>40. ASSUME NEW t \in Threads, WriteLook(t) PROVE TypeOK'
  <2>1. audio' \in Audio
    <3>1. audio' = audio \/ audio' = [audio EXCEPT !.inSeen = audio.inSeen \cup {t}]
      BY <1>40 DEF WriteLook, LookForInput
    <3>2. audio \in Audio BY DEF TypeOK
    <3> QED BY <3>1, <3>2, LookTypes
  <2>2. UNCHANGED env /\ ControlOK'
    BY <1>40
       DEF WriteLook, LookForInput, Goto, At, Begin, Take, Handover, Release, Held, LastIn,
           LastOut, CallDoStandby, DoStandbyReturn, sps, Servers, LockInput, LockOutput, LockHw
  <2> QED BY <2>1, <2>2
<1>41. ASSUME NEW t \in Threads, WriteOpen(t) PROVE TypeOK'
  <2>1. audio' \in Audio
    BY <1>41, OutOpenType, OutcomeType DEF WriteOpen
  <2>2. UNCHANGED env /\ ControlOK'
    BY <1>41
       DEF WriteOpen, Goto, At, Begin, Take, Handover, Release, Held, LastIn, LastOut,
           CallDoStandby, DoStandbyReturn, sps, Servers, LockInput, LockOutput, LockHw
  <2> QED BY <2>1, <2>2
<1>42. ASSUME NEW t \in Threads, WriteReopenInput(t) PROVE TypeOK'
  <2>1. audio' \in Audio
    BY <1>42, InOpenType, OutcomeType DEF WriteReopenInput
  <2>2. UNCHANGED env /\ ControlOK'
    BY <1>42
       DEF WriteReopenInput, Goto, At, Begin, Take, Handover, Release, Held, LastIn,
           LastOut, CallDoStandby, DoStandbyReturn, sps, Servers, LockInput, LockOutput, LockHw
  <2> QED BY <2>1, <2>2
<1>43. ASSUME NEW t \in Threads, WriteOpened(t) PROVE TypeOK'
  <2>1. audio' \in Audio
    BY <1>43, Fields, BooleanFields DEF WriteOpened
  <2>2. UNCHANGED env /\ ControlOK'
    BY <1>43
       DEF WriteOpened, Goto, At, Begin, Take, Handover, Release, Held, LastIn, LastOut,
           CallDoStandby, DoStandbyReturn, sps, Servers, LockInput, LockOutput, LockHw
  <2> QED BY <2>1, <2>2
<1>44. ASSUME NEW t \in Threads, WritePcm(t) PROVE TypeOK'
  BY <1>44
     DEF WritePcm, Goto, At, Begin, Take, Handover, Release, Held, LastIn, LastOut,
         CallDoStandby, DoStandbyReturn, sps, Servers, LockInput, LockOutput, LockHw
<1>45. ASSUME NEW t \in Threads, DoStandby(t) PROVE TypeOK'
  <2>1. audio' \in Audio
    <3> DEFINE s == [audio EXCEPT !.inSeen = {}]
               w == ~audio.inStandby
    <3>1. s \in Audio BY Fields
    <3>2. w \in BOOLEAN OBVIOUS
    <3>3. audio' \in {s, InEndStandby_l(s, w)} BY <1>45 DEF DoStandby
    <3> HIDE DEF s, w
    <3> QED BY <3>1, <3>2, <3>3, InEndType
  <2>2. UNCHANGED env /\ ControlOK'
    BY <1>45
       DEF DoStandby, Goto, At, Begin, Take, Handover, Release, Held, LastIn, LastOut,
           CallDoStandby, DoStandbyReturn, sps, Servers, LockInput, LockOutput, LockHw
  <2> QED BY <2>1, <2>2
<1>46. ASSUME NEW t \in Threads, InStandbyDone(t) PROVE TypeOK'
  <2>1. audio' \in Audio
    <3> DEFINE b == audio.inListed \/ spIn # {}
               e == IF b THEN audio.inEcho ELSE "none"
    <3>1. b \in BOOLEAN OBVIOUS
    <3>2. e \in Echo BY BooleanFields
    <3>3. audio' = [audio EXCEPT !.inAlive = b, !.inEcho = e] BY <1>46 DEF InStandbyDone
    <3> HIDE DEF b, e
    <3> QED BY <3>1, <3>2, <3>3, DestroyTypes
  <2>2. UNCHANGED env /\ ControlOK'
    BY <1>46
       DEF InStandbyDone, Goto, At, Begin, Take, Handover, Release, Held, LastIn, LastOut,
           CallDoStandby, DoStandbyReturn, sps, Servers, LockInput, LockOutput, LockHw
  <2> QED BY <2>1, <2>2
<1>47. ASSUME NEW t \in Threads, InSetParametersDone(t) PROVE TypeOK'
  BY <1>47
     DEF InSetParametersDone, Goto, At, Begin, Take, Handover, Release, Held, LastIn,
         LastOut, CallDoStandby, DoStandbyReturn, sps, Servers, LockInput, LockOutput, LockHw
<1>48. ASSUME NEW t \in Threads, ReadLook(t) PROVE TypeOK'
  BY <1>48
     DEF ReadLook, Goto, At, Begin, Take, Handover, Release, Held, LastIn, LastOut,
         CallDoStandby, DoStandbyReturn, sps, Servers, LockInput, LockOutput, LockHw
<1>49. ASSUME NEW t \in Threads, ReadOpen(t) PROVE TypeOK'
  <2>1. audio' \in Audio
    <3>1. PICK p \in Outcome("pcm_in"), m \in Outcome("mixer") :
            audio' = [InOpen_l(audio, p, m) EXCEPT !.inStandby = ~p /\ audio.inStandby]
      BY <1>49 DEF ReadOpen
    <3>2. InOpen_l(audio, p, m) \in Audio BY InOpenType, OutcomeType
    <3>3. (~p /\ audio.inStandby) \in BOOLEAN OBVIOUS
    <3> QED BY <3>1, <3>2, <3>3, Fields
  <2>2. UNCHANGED env /\ ControlOK'
    BY <1>49
       DEF ReadOpen, Goto, At, Begin, Take, Handover, Release, Held, LastIn, LastOut,
           CallDoStandby, DoStandbyReturn, sps, Servers, LockInput, LockOutput, LockHw
  <2> QED BY <2>1, <2>2
<1>50. ASSUME NEW t \in Threads, ReadPcm(t) PROVE TypeOK'
  BY <1>50
     DEF ReadPcm, Goto, At, Begin, Take, Handover, Release, Held, LastIn, LastOut,
         CallDoStandby, DoStandbyReturn, sps, Servers, LockInput, LockOutput, LockHw
<1>51. ASSUME NEW t \in Threads, SetModeLookOut(t) PROVE TypeOK'
  <2>1. audio' \in Audio
    <3>1. audio' \in {audio, [audio EXCEPT !.outSeen = audio.outSeen \cup {t}]}
      BY <1>51 DEF SetModeLookOut
    <3>2. [audio EXCEPT !.outSeen = audio.outSeen \cup {t}] \in Audio
      BY audio \in Audio, LookTypes DEF TypeOK
    <3> QED BY <3>1, <3>2
  <2>2. UNCHANGED env /\ ControlOK'
    BY <1>51
       DEF SetModeLookOut, Goto, At, Begin, Take, Handover, Release, Held, LastIn, LastOut,
           CallDoStandby, DoStandbyReturn, sps, Servers, LockInput, LockOutput, LockHw
  <2> QED BY <2>1, <2>2
<1>52. ASSUME NEW t \in Threads, SetModeLookIn(t) PROVE TypeOK'
  <2>1. audio' \in Audio
    <3>1. audio' \in {audio, [audio EXCEPT !.inSeen = audio.inSeen \cup {t}]}
      BY <1>52 DEF SetModeLookIn, LookForInput
    <3>2. [audio EXCEPT !.inSeen = audio.inSeen \cup {t}] \in Audio
      BY audio \in Audio, LookTypes DEF TypeOK
    <3> QED BY <3>1, <3>2
  <2>2. UNCHANGED env /\ ControlOK'
    BY <1>52
       DEF SetModeLookIn, LookForInput, Goto, At, Begin, Take, Handover, Release, Held,
           LastIn, LastOut, CallDoStandby, DoStandbyReturn, sps, Servers, LockInput, LockOutput,
           LockHw
  <2> QED BY <2>1, <2>2
<1>53. ASSUME NEW t \in Threads, NEW mode \in Modes, SetModeBody(t, mode) PROVE TypeOK'
  <2>1. audio' \in Audio
    BY <1>53, BodyType DEF SetModeBody
  <2>2. UNCHANGED env /\ ControlOK'
    BY <1>53
       DEF SetModeBody, Goto, At, Begin, Take, Handover, Release, Held, LastIn, LastOut,
           CallDoStandby, DoStandbyReturn, sps, Servers, LockInput, LockOutput, LockHw
  <2> QED BY <2>1, <2>2
<1>54. ASSUME NEW t \in Threads, SetModeEnter(t) PROVE TypeOK'
  <2>1. audio' \in Audio
    <3>1. PICK p \in Outcome("pcm_out"), m \in Outcome("mixer") :
            audio' = [openMixer_l(openPcmOut_l(audio, p), m) EXCEPT !.mInCallAudioMode = TRUE]
      BY <1>54 DEF SetModeEnter
    <3>2. openMixer_l(openPcmOut_l(audio, p), m) \in Audio
      BY openPcmType, openMixerType, OutcomeType
    <3> QED BY <3>1, <3>2, Fields
  <2>2. UNCHANGED env /\ ControlOK'
    BY <1>54
       DEF SetModeEnter, Goto, At, Begin, Take, Handover, Release, Held, LastIn, LastOut,
           CallDoStandby, DoStandbyReturn, sps, Servers, LockInput, LockOutput, LockHw
  <2> QED BY <2>1, <2>2
<1>55. ASSUME NEW t \in Threads, SetModeLeave(t) PROVE TypeOK'
  <2>1. audio' \in Audio
    BY <1>55, Fields DEF SetModeLeave
  <2>2. UNCHANGED env /\ ControlOK'
    BY <1>55
       DEF SetModeLeave, Goto, At, Begin, Take, Handover, Release, Held, LastIn, LastOut,
           CallDoStandby, DoStandbyReturn, sps, Servers, LockInput, LockOutput, LockHw
  <2> QED BY <2>1, <2>2
<1>56. ASSUME NEW t \in Threads, SetModeEnd(t) PROVE TypeOK'
  BY <1>56
     DEF SetModeEnd, Goto, At, Begin, Take, Handover, Release, Held, LastIn, LastOut,
         CallDoStandby, DoStandbyReturn, sps, Servers, LockInput, LockOutput, LockHw
<1>57. ASSUME NEW t \in Threads, DropInput(t) PROVE TypeOK'
  BY <1>57
     DEF DropInput, Goto, At, Begin, Take, Handover, Release, Held, LastIn, LastOut,
         CallDoStandby, DoStandbyReturn, sps, Servers, LockInput, LockOutput, LockHw
<1>58. ASSUME NEW t \in Threads, DropOutput(t) PROVE TypeOK'
  BY <1>58
     DEF DropOutput, Goto, At, Begin, Take, Handover, Release, Held, LastIn, LastOut,
         CallDoStandby, DoStandbyReturn, sps, Servers, LockInput, LockOutput, LockHw
<1>59. ASSUME NEW t \in Threads, Return(t) PROVE TypeOK'
  BY <1>59
     DEF Return, Goto, At, Begin, Take, Handover, Release, Held, LastIn, LastOut,
         CallDoStandby, DoStandbyReturn, sps, Servers, LockInput, LockOutput, LockHw
<1>60. CASE UNCHANGED vars
  BY <1>60 DEF vars
<1> QED BY <1>1, <1>2, <1>3, <1>4, <1>5, <1>6, <1>7, <1>8, <1>9, <1>10, <1>11, <1>12, <1>13,
     <1>14, <1>15, <1>16, <1>17, <1>18, <1>19, <1>20, <1>21, <1>22, <1>23, <1>24, <1>25,
     <1>26, <1>27, <1>28, <1>29, <1>30, <1>31, <1>32, <1>33, <1>34, <1>35, <1>36, <1>37,
     <1>38, <1>39, <1>40, <1>41, <1>42, <1>43, <1>44, <1>45, <1>46, <1>47, <1>48, <1>49,
     <1>50, <1>51, <1>52, <1>53, <1>54, <1>55, <1>56, <1>57, <1>58, <1>59, <1>60
       DEF Next, Start, Lock, Run

(* AudioHardware.cpp: every call leaves every part of the hardware's state a
   value of its type, whatever the threads do and the kernel refuses. *)
THEOREM TypeCorrect == Spec => []TypeOK
<1>1. Init => TypeOK
  BY InitType DEF Init, TypeOK, Mutexes, Labels
<1> QED BY <1>1, TypeStep, PTL DEF Spec

-----------------------------------------------------------------------------
(* Plain calls: no echo canceller, and no stream that goes while somebody
   refers to it. *)
(* What a thread does that puts the input in standby is what it did before. *)
Doing(t) == IF pc[t] = "ds" THEN after[t] ELSE pc[t]

(* Where a thread may hold which mutex. *)
WithAll == {"w_open", "w_reopen", "w_opened", "m_body", "m_enter", "m_leave", "m_end"}
WithOut == WithAll \cup
  {"w_hw", "w_in", "w_pcm", "w_inhw", "w_look", "so_hw", "po_hw", "r_in2", "r_hw2",
   "m_hw2", "m_in", "m_hw3", "m_lookin"}
WithIn == WithAll \cup
  {"w_inhw", "r_hw2", "m_hw3", "r_hw", "r_pcm", "pi_hw", "pi_route", "si_hw", "r_look",
   "r_open", "si_done", "pi_done"}
WithHw == WithAll \cup
  {"m_look", "w_look", "m_lookin", "r_look", "r_open", "si_done", "pi_done"}

PlainInv ==
  /\ audio.inEcho = "none" /\ ~audio.inNeedEcho
  /\ spIn # {} => audio.inListed
  /\ spOut # {} => audio.outListed
  /\ \A t \in Threads :
       /\ pc[t] \notin {"ds_out", "ds_in", "ds_hw"}
       /\ pc[t] = "ds" => after[t] \in {"si_done", "pi_done", "w_opened", "m_enter", "m_leave"}
       /\ owner["out"] = t => Doing(t) \in WithOut
       /\ owner["in"] = t => Doing(t) \in WithIn
       /\ owner["hw"] = t => Doing(t) \in WithHw

(* What no "_l" function does to the streams, unless there is an echo
   reference. *)
Kept(a, b) ==
  /\ a.inListed => b.inListed
  /\ a.outListed => b.outListed
  /\ a.inEcho = "none" => b.inEcho = "none"
  /\ b.inNeedEcho = a.inNeedEcho

LEMMA FieldsKept ==
  ASSUME NEW a \in Audio, NEW b, NEW S
  PROVE  /\ Kept(a, [a EXCEPT !.outMixer = b]) /\ Kept(a, [a EXCEPT !.outPcm = b])
         /\ Kept(a, [a EXCEPT !.inMixer = b]) /\ Kept(a, [a EXCEPT !.inPcm = b])
         /\ Kept(a, [a EXCEPT !.outStandby = b]) /\ Kept(a, [a EXCEPT !.inStandby = b])
         /\ Kept(a, [a EXCEPT !.mMode = b]) /\ Kept(a, [a EXCEPT !.mInCallAudioMode = b])
         /\ Kept(a, [a EXCEPT !.outSeen = S]) /\ Kept(a, [a EXCEPT !.inSeen = S])
         /\ Kept(a, [a EXCEPT !.outSeen = S, !.outStandby = b])
         /\ Kept(a, [a EXCEPT !.outSeen = S, !.inSeen = b])
         /\ Kept(a, [a EXCEPT !.mMicMute = b]) /\ Kept(a, a)
  BY DEF Kept, Audio

LEMMA KeptTransitive == \A a, b, c : Kept(a, b) /\ Kept(b, c) => Kept(a, c)
  BY DEF Kept

LEMMA PcmKept ==
  \A a \in Audio : Kept(a, closePcmOut_l(a)) /\ \A ok \in BOOLEAN : Kept(a, openPcmOut_l(a, ok))
  BY DEF Kept, Audio, openPcmOut_l, closePcmOut_l

LEMMA MixerKept ==
  \A a \in Audio : Kept(a, closeMixer_l(a)) /\ \A ok \in BOOLEAN : Kept(a, openMixer_l(a, ok))
  BY DEF Kept, Audio, openMixer_l, closeMixer_l

LEMMA OutCloseKept == \A a \in Audio : Kept(a, OutClose_l(a))
<1> SUFFICES ASSUME NEW a \in Audio PROVE Kept(a, OutClose_l(a))
  OBVIOUS
<1> DEFINE m == IF a.outMixer THEN [closeMixer_l(a) EXCEPT !.outMixer = FALSE] ELSE a
<1>1. m \in Audio BY closeMixerType, Fields
<1>2. Kept(a, m) BY closeMixerType, MixerKept, FieldsKept, KeptTransitive
<1> HIDE DEF m
<1>3. Kept(m, IF m.outPcm THEN [closePcmOut_l(m) EXCEPT !.outPcm = FALSE] ELSE m)
  BY <1>1, closePcmType, PcmKept, FieldsKept, KeptTransitive
<1> QED BY <1>2, <1>3, KeptTransitive DEF OutClose_l, m

LEMMA OutOpenKept == \A a \in Audio, p, m \in BOOLEAN : Kept(a, OutOpen_l(a, p, m))
<1> SUFFICES ASSUME NEW a \in Audio, NEW pOk \in BOOLEAN, NEW mOk \in BOOLEAN
             PROVE Kept(a, OutOpen_l(a, pOk, mOk))
  OBVIOUS
<1> DEFINE p == openPcmOut_l(a, pOk)
           m == openMixer_l(p, mOk)
           g == GotMixer(p, m)
<1>1. p \in Audio /\ m \in Audio BY openPcmType, openMixerType
<1>2. Kept(a, p) BY PcmKept
<1>3. Kept(p, m) BY <1>1, MixerKept
<1> HIDE DEF p, m, g
<1>4. Kept(m, [m EXCEPT !.outPcm = TRUE, !.outMixer = g]) BY <1>1 DEF Kept, Audio
<1>5. Kept(p, [p EXCEPT !.outPcm = FALSE]) BY <1>1, FieldsKept
<1> QED BY <1>2, <1>3, <1>4, <1>5, KeptTransitive DEF OutOpen_l, p, m, g

LEMMA OutStandbyKept == \A a \in Audio : Kept(a, OutDoStandby_l(a))
<1> SUFFICES ASSUME NEW a \in Audio PROVE Kept(a, OutDoStandby_l(a))
  OBVIOUS
<1> DEFINE s == [a EXCEPT !.outSeen = {}, !.outStandby = TRUE]
<1>1. s \in Audio BY DEF Audio
<1>2. Kept(a, s) BY FieldsKept
<1> HIDE DEF s
<1>3. Kept(s, OutClose_l(s)) BY <1>1, OutCloseKept
<1> QED BY <1>2, <1>3, KeptTransitive DEF OutDoStandby_l, s

LEMMA InCloseKept == \A a \in Audio : Kept(a, InClose_l(a))
<1> SUFFICES ASSUME NEW a \in Audio PROVE Kept(a, InClose_l(a))
  OBVIOUS
<1> DEFINE m == IF a.inMixer THEN [closeMixer_l(a) EXCEPT !.inMixer = FALSE] ELSE a
<1>1. m \in Audio BY closeMixerType, Fields
<1>2. Kept(a, m) BY closeMixerType, MixerKept, FieldsKept, KeptTransitive
<1> HIDE DEF m
<1>3. Kept(m, [m EXCEPT !.inPcm = FALSE]) BY <1>1, FieldsKept
<1> QED BY <1>2, <1>3, KeptTransitive DEF InClose_l, m

LEMMA InOpenKept == \A a \in Audio, p, m \in BOOLEAN : Kept(a, InOpen_l(a, p, m))
<1> SUFFICES ASSUME NEW a \in Audio, NEW pOk \in BOOLEAN, NEW mOk \in BOOLEAN
             PROVE Kept(a, InOpen_l(a, pOk, mOk))
  OBVIOUS
<1> DEFINE m == openMixer_l(a, mOk)
           g == GotMixer(a, m)
           route == IF a.mMode = "in_call" \/ ~g THEN "unset"
                    ELSE IF a.mMicMute THEN "off" ELSE "mic"
<1>1. m \in Audio BY openMixerType
<1>2. Kept(a, m) BY MixerKept
<1> HIDE DEF m, g, route
<1>3. Kept(m, [m EXCEPT !.inPcm = TRUE, !.inMixer = g, !.inRoute = route])
  BY <1>1 DEF Kept, Audio
<1>4. Kept(a, [a EXCEPT !.inPcm = FALSE]) BY FieldsKept
<1> QED BY <1>2, <1>3, <1>4, KeptTransitive DEF InOpen_l, m, g, route

LEMMA InEndKept == \A a \in Audio, w \in BOOLEAN : Kept(a, InEndStandby_l(a, w))
<1> SUFFICES ASSUME NEW a \in Audio, NEW w \in BOOLEAN PROVE Kept(a, InEndStandby_l(a, w))
  OBVIOUS
<1> DEFINE s == IF w THEN [a EXCEPT !.inEcho = "none", !.inStandby = TRUE] ELSE a
<1>1. s \in Audio
  <2>1. [a EXCEPT !.inEcho = "none", !.inStandby = TRUE] \in Audio BY DEF Audio
  <2> QED BY <2>1
<1>2. Kept(a, s) BY DEF Kept, Audio
<1> HIDE DEF s
<1>3. Kept(s, InClose_l(s)) BY <1>1, InCloseKept
<1> QED BY <1>2, <1>3, KeptTransitive DEF InEndStandby_l, s

LEMMA ForgetKept == \A t \in Threads : audio \in Audio => Kept(audio, Forget(t))
  BY DEF Kept, Forget, Audio

LEMMA ReopenKept ==
  ASSUME NEW a \in Audio, NEW p \in BOOLEAN, NEW m \in BOOLEAN, NEW e \in BOOLEAN,
         ~a.inNeedEcho
  PROVE  LET opened == OutOpen_l(OutClose_l(a), p, m)
             o == IF a.outStandby THEN a
                  ELSE IF opened.outPcm THEN opened ELSE OutDoStandby_l(opened)
         IN  Kept(a, IF o.inNeedEcho /\ o.inEcho = "none" THEN getEchoReference(o, e) ELSE o)
<1> DEFINE closed == OutClose_l(a)
           opened == OutOpen_l(closed, p, m)
           o == IF a.outStandby THEN a
                ELSE IF opened.outPcm THEN opened ELSE OutDoStandby_l(opened)
<1>1. closed \in Audio /\ Kept(a, closed) BY OutCloseType, OutCloseKept
<1> HIDE DEF closed
<1>2. opened \in Audio /\ Kept(closed, opened) BY <1>1, OutOpenType, OutOpenKept
<1> HIDE DEF opened
<1>3. Kept(opened, OutDoStandby_l(opened)) BY <1>2, OutStandbyKept
<1>4. Kept(a, o) BY <1>1, <1>2, <1>3, FieldsKept, KeptTransitive
<1> HIDE DEF o
<1>5. ~o.inNeedEcho BY <1>4 DEF Kept
<1>6. Kept(a, IF o.inNeedEcho /\ o.inEcho = "none" THEN getEchoReference(o, e) ELSE o)
  BY <1>4, <1>5
<1> QED BY <1>6 DEF o, opened, closed

LEMMA BodyKept ==
  ASSUME NEW a \in Audio, NEW m \in Modes
  PROVE  LET set == [a EXCEPT !.mMode = m]
         IN  /\ Kept(a, set) /\ Kept(a, OutDoStandby_l(set))
             /\ Kept(a, closePcmOut_l(closeMixer_l(set)))
             /\ Kept(a, OutDoStandby_l(closePcmOut_l(closeMixer_l(set))))
<1> DEFINE set == [a EXCEPT !.mMode = m]
           freed == closePcmOut_l(closeMixer_l(set))
<1>1. set \in Audio /\ closeMixer_l(set) \in Audio /\ freed \in Audio
  BY Fields, closePcmType, closeMixerType
<1>2. Kept(a, set) BY FieldsKept
<1>3. Kept(a, freed) BY <1>1, <1>2, PcmKept, MixerKept, KeptTransitive
<1> QED BY <1>1, <1>2, <1>3, OutStandbyKept, KeptTransitive

LEMMA PlainStep == TypeOK /\ PlainCalls /\ PlainInv /\ [Next]_vars => PlainInv'
<1> SUFFICES ASSUME TypeOK, PlainCalls, PlainInv, [Next]_vars PROVE PlainInv'
  OBVIOUS
<1> USE DEF TypeOK, PlainInv, Doing, Mutexes, WithOut, WithIn, WithHw, WithAll
<1> USE AudioAssumption
<1>1. ASSUME NEW t \in Threads, WriteBegin(t) PROVE PlainInv'
  BY <1>1
     DEF WriteBegin, Goto, At, Begin, Take, Handover, Release, Held, LastIn, LastOut,
         CallDoStandby, DoStandbyReturn, sps, Servers, LockInput, LockOutput, LockHw
<1>2. ASSUME NEW t \in Threads, OutStandbyBegin(t) PROVE PlainInv'
  BY <1>2
     DEF OutStandbyBegin, Goto, At, Begin, Take, Handover, Release, Held, LastIn, LastOut,
         CallDoStandby, DoStandbyReturn, sps, Servers, LockInput, LockOutput, LockHw
<1>3. ASSUME NEW t \in Threads, OutSetParameters(t) PROVE PlainInv'
  BY <1>3
     DEF OutSetParameters, Goto, At, Begin, Take, Handover, Release, Held, LastIn, LastOut,
         CallDoStandby, DoStandbyReturn, sps, Servers, LockInput, LockOutput, LockHw
<1>4. ASSUME NEW t \in Threads, ReadBegin(t) PROVE PlainInv'
  BY <1>4
     DEF ReadBegin, Goto, At, Begin, Take, Handover, Release, Held, LastIn, LastOut,
         CallDoStandby, DoStandbyReturn, sps, Servers, LockInput, LockOutput, LockHw
<1>5. ASSUME NEW t \in Threads, InStandbyBegin(t) PROVE PlainInv'
  BY <1>5
     DEF InStandbyBegin, Goto, At, Begin, Take, Handover, Release, Held, LastIn, LastOut,
         CallDoStandby, DoStandbyReturn, sps, Servers, LockInput, LockOutput, LockHw
<1>6. ASSUME NEW t \in Threads, InSetParameters(t) PROVE PlainInv'
  BY <1>6
     DEF InSetParameters, Goto, At, Begin, Take, Handover, Release, Held, LastIn, LastOut,
         CallDoStandby, DoStandbyReturn, sps, Servers, LockInput, LockOutput, LockHw
<1>7. ASSUME NEW t \in Threads, SetModeBegin(t) PROVE PlainInv'
  BY <1>7
     DEF SetModeBegin, Goto, At, Begin, Take, Handover, Release, Held, LastIn, LastOut,
         CallDoStandby, DoStandbyReturn, sps, Servers, LockInput, LockOutput, LockHw
<1>8. ASSUME NEW t \in Threads, SetMicMute(t) PROVE PlainInv'
  <2>1. Kept(audio, audio')
    BY <1>8 DEF SetMicMute, Kept, Audio
  <2> QED BY <1>8, <2>1
     DEF SetMicMute, getActiveInput_l, Goto, At, Begin, Take, Handover, Release, Held,
         LastIn, LastOut, CallDoStandby, DoStandbyReturn, sps, Servers, LockInput, LockOutput,
         LockHw, Kept
<1>9. ASSUME NEW t \in Threads, OpenOutputStream(t) PROVE PlainInv'
  BY <1>9
     DEF OpenOutputStream, Goto, At, Begin, Take, Handover, Release, Held, LastIn, LastOut,
         CallDoStandby, DoStandbyReturn, sps, Servers, LockInput, LockOutput, LockHw
<1>10. ASSUME NEW t \in Threads, CloseOutputStream(t) PROVE PlainInv'
  BY <1>10
     DEF CloseOutputStream, Goto, At, Begin, Take, Handover, Release, Held, LastIn, LastOut,
         CallDoStandby, DoStandbyReturn, sps, Servers, LockInput, LockOutput, LockHw, PlainCalls
<1>11. ASSUME NEW t \in Threads, OpenInputStream(t) PROVE PlainInv'
  BY <1>11
     DEF OpenInputStream, Goto, At, Begin, Take, Handover, Release, Held, LastIn, LastOut,
         CallDoStandby, DoStandbyReturn, sps, Servers, LockInput, LockOutput, LockHw
<1>12. ASSUME NEW t \in Threads, CloseInputStream(t) PROVE PlainInv'
  BY <1>12
     DEF CloseInputStream, Goto, At, Begin, Take, Handover, Release, Held, LastIn, LastOut,
         CallDoStandby, DoStandbyReturn, sps, Servers, LockInput, LockOutput, LockHw, PlainCalls
<1>13. ASSUME NEW t \in Threads, AudioEffect(t) PROVE PlainInv'
  BY <1>13
     DEF AudioEffect, Goto, At, Begin, Take, Handover, Release, Held, LastIn, LastOut,
         CallDoStandby, DoStandbyReturn, sps, Servers, LockInput, LockOutput, LockHw, PlainCalls
<1>14. ASSUME NEW t \in Threads, WriteLock(t) PROVE PlainInv'
  BY <1>14
     DEF WriteLock, Goto, At, Begin, Take, Handover, Release, Held, LastIn, LastOut,
         CallDoStandby, DoStandbyReturn, sps, Servers, LockInput, LockOutput, LockHw
<1>15. ASSUME NEW t \in Threads, WriteLockHw(t) PROVE PlainInv'
  BY <1>15
     DEF WriteLockHw, Goto, At, Begin, Take, Handover, Release, Held, LastIn, LastOut,
         CallDoStandby, DoStandbyReturn, sps, Servers, LockInput, LockOutput, LockHw
<1>16. ASSUME NEW t \in Threads, LockInput(t, "w_in", "w_inhw") PROVE PlainInv'
  BY <1>16
     DEF Goto, At, Begin, Take, Handover, Release, Held, LastIn, LastOut, CallDoStandby,
         DoStandbyReturn, sps, Servers, LockInput, LockOutput, LockHw
<1>17. ASSUME NEW t \in Threads, WriteRecheck(t) PROVE PlainInv'
  <2>1. Kept(audio, audio')
    <3>1. audio' \in {Forget(t), InClose_l(Forget(t))} BY <1>17 DEF WriteRecheck
    <3>2. Forget(t) \in Audio /\ Kept(audio, Forget(t)) BY ForgetType, ForgetKept
    <3>3. Kept(Forget(t), InClose_l(Forget(t))) BY <3>2, InCloseKept
    <3> QED BY <3>1, <3>2, <3>3, KeptTransitive
  <2> QED BY <1>17, <2>1
     DEF WriteRecheck, Goto, At, Begin, Take, Handover, Release, Held, LastIn, LastOut,
         CallDoStandby, DoStandbyReturn, sps, Servers, LockInput, LockOutput, LockHw, Kept
<1>18. ASSUME NEW t \in Threads, LockOutput(t, "so_out", "so_hw") PROVE PlainInv'
  BY <1>18
     DEF Goto, At, Begin, Take, Handover, Release, Held, LastIn, LastOut, CallDoStandby,
         DoStandbyReturn, sps, Servers, LockInput, LockOutput, LockHw
<1>19. ASSUME NEW t \in Threads, OutStandbyHw(t) PROVE PlainInv'
  <2>1. Kept(audio, audio')
    <3> DEFINE o == OutDoStandby_l(audio)
               b == audio.outListed \/ spOut # {}
               e == IF b THEN o.outEcho ELSE "none"
    <3>1. o \in Audio /\ Kept(audio, o) BY OutStandbyType, OutStandbyKept
    <3>2. audio' = [o EXCEPT !.outAlive = b, !.outEcho = e] BY <1>19 DEF OutStandbyHw
    <3> HIDE DEF o, b, e
    <3>3. Kept(o, audio') BY <3>1, <3>2 DEF Kept, Audio
    <3> QED BY <3>1, <3>3, KeptTransitive
  <2> QED BY <1>19, <2>1
     DEF OutStandbyHw, Goto, At, Begin, Take, Handover, Release, Held, LastIn, LastOut,
         CallDoStandby, DoStandbyReturn, sps, Servers, LockInput, LockOutput, LockHw, Kept
<1>20. ASSUME NEW t \in Threads, LockOutput(t, "po_out", "po_hw") PROVE PlainInv'
  BY <1>20
     DEF Goto, At, Begin, Take, Handover, Release, Held, LastIn, LastOut, CallDoStandby,
         DoStandbyReturn, sps, Servers, LockInput, LockOutput, LockHw
<1>21. ASSUME NEW t \in Threads, OutSetParametersHw(t) PROVE PlainInv'
  <2>1. Kept(audio, audio')
    <3>1. audio' \in {audio, OutDoStandby_l(audio)} BY <1>21 DEF OutSetParametersHw
    <3>2. Kept(audio, audio) /\ Kept(audio, OutDoStandby_l(audio))
      BY audio \in Audio, OutStandbyKept DEF Kept
    <3> QED BY <3>1, <3>2
  <2> QED BY <1>21, <2>1
     DEF OutSetParametersHw, Goto, At, Begin, Take, Handover, Release, Held, LastIn,
         LastOut, CallDoStandby, DoStandbyReturn, sps, Servers, LockInput, LockOutput, LockHw,
         Kept
<1>22. ASSUME NEW t \in Threads, LockOutput(t, "ds_out", "ds_in") PROVE PlainInv'
  BY <1>22
     DEF Goto, At, Begin, Take, Handover, Release, Held, LastIn, LastOut, CallDoStandby,
         DoStandbyReturn, sps, Servers, LockInput, LockOutput, LockHw, PlainCalls
<1>23. ASSUME NEW t \in Threads, LockInput(t, "ds_in", "ds_hw") PROVE PlainInv'
  BY <1>23
     DEF Goto, At, Begin, Take, Handover, Release, Held, LastIn, LastOut, CallDoStandby,
         DoStandbyReturn, sps, Servers, LockInput, LockOutput, LockHw, PlainCalls
<1>24. ASSUME NEW t \in Threads, DoStandbyRelease(t) PROVE PlainInv'
  BY <1>24
     DEF DoStandbyRelease, Goto, At, Begin, Take, Handover, Release, Held, LastIn, LastOut,
         CallDoStandby, DoStandbyReturn, sps, Servers, LockInput, LockOutput, LockHw, PlainCalls
<1>25. ASSUME NEW t \in Threads, LockInput(t, "si_in", "si_hw") PROVE PlainInv'
  BY <1>25
     DEF Goto, At, Begin, Take, Handover, Release, Held, LastIn, LastOut, CallDoStandby,
         DoStandbyReturn, sps, Servers, LockInput, LockOutput, LockHw
<1>26. ASSUME NEW t \in Threads, InStandbyHw(t) PROVE PlainInv'
  BY <1>26
     DEF InStandbyHw, Goto, At, Begin, Take, Handover, Release, Held, LastIn, LastOut,
         CallDoStandby, DoStandbyReturn, sps, Servers, LockInput, LockOutput, LockHw
<1>27. ASSUME NEW t \in Threads, LockInput(t, "pi_in", "pi_hw") PROVE PlainInv'
  BY <1>27
     DEF Goto, At, Begin, Take, Handover, Release, Held, LastIn, LastOut, CallDoStandby,
         DoStandbyReturn, sps, Servers, LockInput, LockOutput, LockHw
<1>28. ASSUME NEW t \in Threads, InSetSource(t) PROVE PlainInv'
  <2>1. Kept(audio, audio')
    <3>1. PICK ok \in Outcome("mixer") : audio' = closeMixer_l(openMixer_l(audio, ok))
      BY <1>28 DEF InSetSource
    <3>2. openMixer_l(audio, ok) \in Audio BY openMixerType, OutcomeType
    <3>3. Kept(audio, openMixer_l(audio, ok)) BY MixerKept, OutcomeType
    <3> QED BY <3>1, <3>2, <3>3, MixerKept, KeptTransitive
  <2> QED BY <1>28, <2>1
     DEF InSetSource, Goto, At, Begin, Take, Handover, Release, Held, LastIn, LastOut,
         CallDoStandby, DoStandbyReturn, sps, Servers, LockInput, LockOutput, LockHw, Kept
<1>29. ASSUME NEW t \in Threads, InSetDevice(t) PROVE PlainInv'
  BY <1>29
     DEF InSetDevice, Goto, At, Begin, Take, Handover, Release, Held, LastIn, LastOut,
         CallDoStandby, DoStandbyReturn, sps, Servers, LockInput, LockOutput, LockHw
<1>30. ASSUME NEW t \in Threads, ReadLock(t) PROVE PlainInv'
  BY <1>30
     DEF ReadLock, Goto, At, Begin, Take, Handover, Release, Held, LastIn, LastOut,
         CallDoStandby, DoStandbyReturn, sps, Servers, LockInput, LockOutput, LockHw
<1>31. ASSUME NEW t \in Threads, ReadLockHw(t) PROVE PlainInv'
  BY <1>31
     DEF ReadLockHw, Goto, At, Begin, Take, Handover, Release, Held, LastIn, LastOut,
         CallDoStandby, DoStandbyReturn, sps, Servers, LockInput, LockOutput, LockHw
<1>32. ASSUME NEW t \in Threads, LockOutput(t, "r_out", "r_in2") PROVE PlainInv'
  BY <1>32
     DEF Goto, At, Begin, Take, Handover, Release, Held, LastIn, LastOut, CallDoStandby,
         DoStandbyReturn, sps, Servers, LockInput, LockOutput, LockHw
<1>33. ASSUME NEW t \in Threads, LockInput(t, "r_in2", "r_hw2") PROVE PlainInv'
  BY <1>33
     DEF Goto, At, Begin, Take, Handover, Release, Held, LastIn, LastOut, CallDoStandby,
         DoStandbyReturn, sps, Servers, LockInput, LockOutput, LockHw
<1>34. ASSUME NEW t \in Threads, ReadReopenOutput(t) PROVE PlainInv'
  <2>1. Kept(audio, audio')
    <3>1. CASE UNCHANGED audio
      BY <3>1, FieldsKept
    <3>2. CASE ~ UNCHANGED audio
      <4>1. PICK p \in Outcome("pcm_out"), m \in Outcome("mixer"), e \in Outcome("echo") :
              audio' = LET opened == OutOpen_l(OutClose_l(audio), p, m)
                           o == IF audio.outStandby THEN audio
                                ELSE IF opened.outPcm THEN opened ELSE OutDoStandby_l(opened)
                       IN  IF o.inNeedEcho /\ o.inEcho = "none"
                           THEN getEchoReference(o, e) ELSE o
        BY <1>34, <3>2 DEF ReadReopenOutput
      <4>2. p \in BOOLEAN /\ m \in BOOLEAN /\ e \in BOOLEAN BY OutcomeType
      <4> QED BY <4>1, <4>2, ReopenKept
    <3> QED BY <3>1, <3>2
  <2> QED BY <1>34, <2>1
     DEF ReadReopenOutput, Goto, At, Begin, Take, Handover, Release, Held, LastIn, LastOut,
         CallDoStandby, DoStandbyReturn, sps, Servers, LockInput, LockOutput, LockHw, Kept
<1>35. ASSUME NEW t \in Threads, LockHw(t, "m_hw", "m_look") PROVE PlainInv'
  BY <1>35
     DEF Goto, At, Begin, Take, Handover, Release, Held, LastIn, LastOut, CallDoStandby,
         DoStandbyReturn, sps, Servers, LockInput, LockOutput, LockHw
<1>36. ASSUME NEW t \in Threads, LockOutput(t, "m_out", "m_hw2") PROVE PlainInv'
  BY <1>36
     DEF Goto, At, Begin, Take, Handover, Release, Held, LastIn, LastOut, CallDoStandby,
         DoStandbyReturn, sps, Servers, LockInput, LockOutput, LockHw
<1>37. ASSUME NEW t \in Threads, SetModeRecheckOut(t) PROVE PlainInv'
  <2>1. Kept(audio, audio')
    BY <1>37 DEF SetModeRecheckOut, Kept, Audio, Forget
  <2> QED BY <1>37, <2>1
     DEF SetModeRecheckOut, Goto, At, Begin, Take, Handover, Release, Held, LastIn, LastOut,
         CallDoStandby, DoStandbyReturn, sps, Servers, LockInput, LockOutput, LockHw, Kept
<1>38. ASSUME NEW t \in Threads, LockInput(t, "m_in", "m_hw3") PROVE PlainInv'
  BY <1>38
     DEF Goto, At, Begin, Take, Handover, Release, Held, LastIn, LastOut, CallDoStandby,
         DoStandbyReturn, sps, Servers, LockInput, LockOutput, LockHw
<1>39. ASSUME NEW t \in Threads, SetModeRecheckIn(t) PROVE PlainInv'
  <2>1. Kept(audio, audio')
    BY <1>39 DEF SetModeRecheckIn, Kept, Audio, Forget
  <2> QED BY <1>39, <2>1
     DEF SetModeRecheckIn, Goto, At, Begin, Take, Handover, Release, Held, LastIn, LastOut,
         CallDoStandby, DoStandbyReturn, sps, Servers, LockInput, LockOutput, LockHw, Kept
<1>40. ASSUME NEW t \in Threads, WriteLook(t) PROVE PlainInv'
  <2>1. Kept(audio, audio')
    BY <1>40 DEF WriteLook, LookForInput, Kept, Audio
  <2> QED BY <1>40, <2>1
     DEF WriteLook, LookForInput, getActiveInput_l, Goto, At, Begin, Take, Handover,
         Release, Held, LastIn, LastOut, CallDoStandby, DoStandbyReturn, sps, Servers,
         LockInput, LockOutput, LockHw, Kept
<1>41. ASSUME NEW t \in Threads, WriteOpen(t) PROVE PlainInv'
  <2>1. Kept(audio, audio')
    BY <1>41, OutOpenKept, OutcomeType DEF WriteOpen
  <2> QED BY <1>41, <2>1
     DEF WriteOpen, Goto, At, Begin, Take, Handover, Release, Held, LastIn, LastOut,
         CallDoStandby, DoStandbyReturn, sps, Servers, LockInput, LockOutput, LockHw, Kept
<1>42. ASSUME NEW t \in Threads, WriteReopenInput(t) PROVE PlainInv'
  <2>1. Kept(audio, audio')
    BY <1>42, InOpenKept, OutcomeType DEF WriteReopenInput
  <2> QED BY <1>42, <2>1
     DEF WriteReopenInput, Goto, At, Begin, Take, Handover, Release, Held, LastIn, LastOut,
         CallDoStandby, DoStandbyReturn, sps, Servers, LockInput, LockOutput, LockHw, Kept
<1>43. ASSUME NEW t \in Threads, WriteOpened(t) PROVE PlainInv'
  <2>1. Kept(audio, audio')
    BY <1>43 DEF WriteOpened, Kept, Audio
  <2> QED BY <1>43, <2>1
     DEF WriteOpened, Goto, At, Begin, Take, Handover, Release, Held, LastIn, LastOut,
         CallDoStandby, DoStandbyReturn, sps, Servers, LockInput, LockOutput, LockHw, Kept
<1>44. ASSUME NEW t \in Threads, WritePcm(t) PROVE PlainInv'
  BY <1>44
     DEF WritePcm, Goto, At, Begin, Take, Handover, Release, Held, LastIn, LastOut,
         CallDoStandby, DoStandbyReturn, sps, Servers, LockInput, LockOutput, LockHw
<1>45. ASSUME NEW t \in Threads, DoStandby(t) PROVE PlainInv'
  <2>1. Kept(audio, audio')
    <3> DEFINE s == [audio EXCEPT !.inSeen = {}]
               w == ~audio.inStandby
    <3>1. s \in Audio /\ Kept(audio, s) BY Fields, FieldsKept
    <3>2. w \in BOOLEAN OBVIOUS
    <3>3. audio' \in {s, InEndStandby_l(s, w)} BY <1>45 DEF DoStandby
    <3> HIDE DEF s, w
    <3> QED BY <3>1, <3>2, <3>3, InEndKept, KeptTransitive
  <2> QED BY <1>45, <2>1
     DEF DoStandby, Goto, At, Begin, Take, Handover, Release, Held, LastIn, LastOut,
         CallDoStandby, DoStandbyReturn, sps, Servers, LockInput, LockOutput, LockHw, Kept
<1>46. ASSUME NEW t \in Threads, InStandbyDone(t) PROVE PlainInv'
  <2>1. Kept(audio, audio')
    BY <1>46 DEF InStandbyDone, Kept, Audio
  <2> QED BY <1>46, <2>1
     DEF InStandbyDone, Goto, At, Begin, Take, Handover, Release, Held, LastIn, LastOut,
         CallDoStandby, DoStandbyReturn, sps, Servers, LockInput, LockOutput, LockHw, Kept
<1>47. ASSUME NEW t \in Threads, InSetParametersDone(t) PROVE PlainInv'
  BY <1>47
     DEF InSetParametersDone, Goto, At, Begin, Take, Handover, Release, Held, LastIn,
         LastOut, CallDoStandby, DoStandbyReturn, sps, Servers, LockInput, LockOutput, LockHw
<1>48. ASSUME NEW t \in Threads, ReadLook(t) PROVE PlainInv'
  BY <1>48
     DEF ReadLook, Goto, At, Begin, Take, Handover, Release, Held, LastIn, LastOut,
         CallDoStandby, DoStandbyReturn, sps, Servers, LockInput, LockOutput, LockHw
<1>49. ASSUME NEW t \in Threads, ReadOpen(t) PROVE PlainInv'
  <2>1. Kept(audio, audio')
    <3>1. PICK p \in Outcome("pcm_in"), m \in Outcome("mixer") :
            audio' = [InOpen_l(audio, p, m) EXCEPT !.inStandby = ~p /\ audio.inStandby]
      BY <1>49 DEF ReadOpen
    <3> DEFINE o == InOpen_l(audio, p, m)
    <3>2. o \in Audio /\ Kept(audio, o) BY InOpenType, InOpenKept, OutcomeType
    <3> HIDE DEF o
    <3>3. Kept(o, [o EXCEPT !.inStandby = ~p /\ audio.inStandby]) BY <3>2, FieldsKept
    <3> QED BY <3>1, <3>2, <3>3, KeptTransitive DEF o
  <2> QED BY <1>49, <2>1
     DEF ReadOpen, Goto, At, Begin, Take, Handover, Release, Held, LastIn, LastOut,
         CallDoStandby, DoStandbyReturn, sps, Servers, LockInput, LockOutput, LockHw, Kept
<1>50. ASSUME NEW t \in Threads, ReadPcm(t) PROVE PlainInv'
  BY <1>50
     DEF ReadPcm, Goto, At, Begin, Take, Handover, Release, Held, LastIn, LastOut,
         CallDoStandby, DoStandbyReturn, sps, Servers, LockInput, LockOutput, LockHw
<1>51. ASSUME NEW t \in Threads, SetModeLookOut(t) PROVE PlainInv'
  <2>1. Kept(audio, audio')
    BY <1>51 DEF SetModeLookOut, Kept, Audio
  <2> QED BY <1>51, <2>1
     DEF SetModeLookOut, ActiveOutput, Goto, At, Begin, Take, Handover, Release, Held,
         LastIn, LastOut, CallDoStandby, DoStandbyReturn, sps, Servers, LockInput, LockOutput,
         LockHw, Kept
<1>52. ASSUME NEW t \in Threads, SetModeLookIn(t) PROVE PlainInv'
  <2>1. Kept(audio, audio')
    BY <1>52 DEF SetModeLookIn, LookForInput, Kept, Audio
  <2> QED BY <1>52, <2>1
     DEF SetModeLookIn, LookForInput, getActiveInput_l, Goto, At, Begin, Take, Handover,
         Release, Held, LastIn, LastOut, CallDoStandby, DoStandbyReturn, sps, Servers,
         LockInput, LockOutput, LockHw, Kept
<1>53. ASSUME NEW t \in Threads, NEW mode \in Modes, SetModeBody(t, mode) PROVE PlainInv'
  <2>1. Kept(audio, audio')
    <3> DEFINE set == [audio EXCEPT !.mMode = mode]
               freed == closePcmOut_l(closeMixer_l(set))
    <3>1. audio' \in {set, freed, OutDoStandby_l(set), OutDoStandby_l(freed)}
      BY <1>53 DEF SetModeBody
    <3>2. Kept(audio, set) /\ Kept(audio, freed)
      BY audio \in Audio, BodyKept
    <3>3. Kept(audio, OutDoStandby_l(set)) /\ Kept(audio, OutDoStandby_l(freed))
      BY audio \in Audio, BodyKept
    <3> HIDE DEF set, freed
    <3> QED BY <3>1, <3>2, <3>3
  <2> QED BY <1>53, <2>1
     DEF SetModeBody, Goto, At, Begin, Take, Handover, Release, Held, LastIn, LastOut,
         CallDoStandby, DoStandbyReturn, sps, Servers, LockInput, LockOutput, LockHw, Kept
<1>54. ASSUME NEW t \in Threads, SetModeEnter(t) PROVE PlainInv'
  <2>1. Kept(audio, audio')
    <3>1. PICK p \in Outcome("pcm_out"), m \in Outcome("mixer") :
            audio' = [openMixer_l(openPcmOut_l(audio, p), m) EXCEPT !.mInCallAudioMode = TRUE]
      BY <1>54 DEF SetModeEnter
    <3> DEFINE pcm == openPcmOut_l(audio, p)
               o == openMixer_l(pcm, m)
    <3>2. pcm \in Audio /\ Kept(audio, pcm) BY openPcmType, PcmKept, OutcomeType
    <3> HIDE DEF pcm
    <3>3. o \in Audio /\ Kept(pcm, o) BY <3>2, openMixerType, MixerKept, OutcomeType
    <3> HIDE DEF o
    <3>4. Kept(o, [o EXCEPT !.mInCallAudioMode = TRUE]) BY <3>3, FieldsKept
    <3> QED BY <3>1, <3>2, <3>3, <3>4, KeptTransitive DEF o, pcm
  <2> QED BY <1>54, <2>1
     DEF SetModeEnter, Goto, At, Begin, Take, Handover, Release, Held, LastIn, LastOut,
         CallDoStandby, DoStandbyReturn, sps, Servers, LockInput, LockOutput, LockHw, Kept
<1>55. ASSUME NEW t \in Threads, SetModeLeave(t) PROVE PlainInv'
  <2>1. Kept(audio, audio')
    BY <1>55 DEF SetModeLeave, Kept, Audio
  <2> QED BY <1>55, <2>1
     DEF SetModeLeave, Goto, At, Begin, Take, Handover, Release, Held, LastIn, LastOut,
         CallDoStandby, DoStandbyReturn, sps, Servers, LockInput, LockOutput, LockHw, Kept
<1>56. ASSUME NEW t \in Threads, SetModeEnd(t) PROVE PlainInv'
  BY <1>56
     DEF SetModeEnd, Goto, At, Begin, Take, Handover, Release, Held, LastIn, LastOut,
         CallDoStandby, DoStandbyReturn, sps, Servers, LockInput, LockOutput, LockHw
<1>57. ASSUME NEW t \in Threads, DropInput(t) PROVE PlainInv'
  BY <1>57
     DEF DropInput, Goto, At, Begin, Take, Handover, Release, Held, LastIn, LastOut,
         CallDoStandby, DoStandbyReturn, sps, Servers, LockInput, LockOutput, LockHw
<1>58. ASSUME NEW t \in Threads, DropOutput(t) PROVE PlainInv'
  BY <1>58
     DEF DropOutput, Goto, At, Begin, Take, Handover, Release, Held, LastIn, LastOut,
         CallDoStandby, DoStandbyReturn, sps, Servers, LockInput, LockOutput, LockHw
<1>59. ASSUME NEW t \in Threads, Return(t) PROVE PlainInv'
  BY <1>59
     DEF Return, Goto, At, Begin, Take, Handover, Release, Held, LastIn, LastOut,
         CallDoStandby, DoStandbyReturn, sps, Servers, LockInput, LockOutput, LockHw
<1>60. CASE UNCHANGED vars
  BY <1>60 DEF vars, Doing
<1> HIDE DEF TypeOK, PlainInv
<1> QED BY <1>1, <1>2, <1>3, <1>4, <1>5, <1>6, <1>7, <1>8, <1>9, <1>10, <1>11, <1>12, <1>13,
     <1>14, <1>15, <1>16, <1>17, <1>18, <1>19, <1>20, <1>21, <1>22, <1>23, <1>24, <1>25,
     <1>26, <1>27, <1>28, <1>29, <1>30, <1>31, <1>32, <1>33, <1>34, <1>35, <1>36, <1>37,
     <1>38, <1>39, <1>40, <1>41, <1>42, <1>43, <1>44, <1>45, <1>46, <1>47, <1>48, <1>49,
     <1>50, <1>51, <1>52, <1>53, <1>54, <1>55, <1>56, <1>57, <1>58, <1>59, <1>60
       DEF Next, Start, Lock, Run

(* What is called and what the kernel may refuse never changes. *)
LEMMA EnvironmentKept == [Next]_vars => UNCHANGED env
<1>1. ASSUME NEW t \in Threads, Start(t) PROVE UNCHANGED env
  BY <1>1
     DEF Start, Goto, Begin, WriteBegin, OutStandbyBegin, OutSetParameters, ReadBegin,
         InStandbyBegin, InSetParameters, SetModeBegin, SetMicMute, OpenOutputStream,
         CloseOutputStream, OpenInputStream, CloseInputStream, AudioEffect
<1>2. ASSUME NEW t \in Threads, Lock(t) PROVE UNCHANGED env
  BY <1>2
     DEF Lock, Goto, DoStandbyReturn, CallDoStandby, WriteLock, WriteLockHw, LockInput,
         WriteRecheck, LockOutput, OutStandbyHw, OutSetParametersHw, DoStandbyRelease,
         InStandbyHw, InSetSource, InSetDevice, ReadLock, ReadLockHw, ReadReopenOutput,
         LockHw, SetModeRecheckOut, SetModeRecheckIn
<1>3. ASSUME NEW t \in Threads, Run(t) PROVE UNCHANGED env
  BY <1>3
     DEF Run, Goto, DoStandbyReturn, CallDoStandby, LookForInput, WriteLook, WriteOpen,
         WriteReopenInput, WriteOpened, WritePcm, DoStandby, InStandbyDone,
         InSetParametersDone, ReadLook, ReadOpen, ReadPcm, SetModeLookOut, SetModeLookIn,
         SetModeBody, SetModeEnter, SetModeLeave, SetModeEnd, DropInput, DropOutput, Return
<1> QED BY <1>1, <1>2, <1>3 DEF Next, vars

(* With plain calls the strengthening holds: the first state has nobody
   anywhere. *)
THEOREM PlainInvariant == Spec => [](PlainCalls => PlainInv)
<1>1. Init => PlainInv
  BY AudioAssumption
     DEF Init, PlainInv, AudioHardwareInit, Doing, Mutexes
<1>2. TypeOK /\ (PlainCalls => PlainInv) /\ [Next]_vars => (PlainCalls => PlainInv)'
  <2> SUFFICES ASSUME TypeOK, PlainCalls => PlainInv, [Next]_vars, PlainCalls' PROVE PlainInv'
    OBVIOUS
  <2>1. UNCHANGED env BY EnvironmentKept
  <2>2. PlainCalls BY <2>1 DEF PlainCalls
  <2> QED BY <2>2, PlainStep
<1> QED BY <1>1, <1>2, TypeCorrect, PTL DEF Spec

(* "Mutex acquisition order is always out -> in -> hw", AudioHardware.cpp:345,
   for plain calls and any number of threads. *)
THEOREM OrderKept == Spec => []LocksInOrder
<1>1. TypeOK /\ (PlainCalls => PlainInv) => LocksInOrder
  BY DEF TypeOK, PlainInv, LocksInOrder, AcquisitionOrder, Held, Mutexes, Doing, Labels,
         WaitsForOut, WaitsForIn, WaitsForHw, WithOut, WithIn, WithHw, WithAll
<1> QED BY <1>1, TypeCorrect, PlainInvariant, PTL

(* The callers of the HAL never all wait for each other: the owner of the last
   mutex in the order that is held can go on. *)
THEOREM NeverAllWait == Spec => []NoDeadlock
<1>1. TypeOK /\ (PlainCalls => PlainInv) => NoDeadlock
  <2> SUFFICES ASSUME TypeOK, PlainInv,
                      NEW s \in Threads, pc[s] # "idle"
               PROVE  \E t \in Threads : pc[t] # "idle" /\ CanGo(t)
    BY DEF NoDeadlock
  <2>1. \A x \in Mutexes : owner[x] # NoThread => owner[x] \in Threads
    BY DEF TypeOK
  <2>2. CASE owner["hw"] # NoThread
    <3>1. owner["hw"] \in Threads /\ Doing(owner["hw"]) \in WithHw
      BY <2>1, <2>2 DEF PlainInv, Mutexes
    <3>2. pc[owner["hw"]] # "idle" /\ CanGo(owner["hw"])
      BY <3>1 DEF Doing, CanGo, WithHw, WithAll, WaitsForOut, WaitsForIn, WaitsForHw
    <3> QED BY <3>1, <3>2
  <2>3. CASE owner["hw"] = NoThread /\ owner["in"] # NoThread
    <3>1. owner["in"] \in Threads /\ Doing(owner["in"]) \in WithIn
      BY <2>1, <2>3 DEF PlainInv, Mutexes
    <3>2. pc[owner["in"]] # "idle" /\ CanGo(owner["in"])
      BY <3>1, <2>3 DEF Doing, CanGo, WithIn, WithAll, WaitsForOut, WaitsForIn, WaitsForHw
    <3> QED BY <3>1, <3>2
  <2>4. CASE owner["hw"] = NoThread /\ owner["in"] = NoThread /\ owner["out"] # NoThread
    <3>1. owner["out"] \in Threads /\ Doing(owner["out"]) \in WithOut
      BY <2>1, <2>4 DEF PlainInv, Mutexes
    <3>2. pc[owner["out"]] # "idle" /\ CanGo(owner["out"])
      BY <3>1, <2>4 DEF Doing, CanGo, WithOut, WithAll, WaitsForOut, WaitsForIn, WaitsForHw
    <3> QED BY <3>1, <3>2
  <2>5. CASE \A x \in Mutexes : owner[x] = NoThread
    BY <2>5 DEF CanGo, Mutexes
  <2> QED BY <2>2, <2>3, <2>4, <2>5 DEF Mutexes
<1> QED BY <1>1, TypeCorrect, PlainInvariant, PTL
-----------------------------------------------------------------------------
(* What the "_l" functions do to the parts of the record, and how the counts
   follow their users: the output, the input's mixer and the call. *)

SameCall(a, b) == /\ b.mMode = a.mMode /\ b.mInCallAudioMode = a.mInCallAudioMode
                  /\ b.mMicMute = a.mMicMute
SameOutLife(a, b) == b.outListed = a.outListed /\ b.outAlive = a.outAlive /\ b.outEcho = a.outEcho
SameInLife(a, b) == b.inListed = a.inListed /\ b.inAlive = a.inAlive
SameOut(a, b) == /\ SameOutLife(a, b) /\ b.outStandby = a.outStandby
                 /\ b.outPcm = a.outPcm /\ b.outMixer = a.outMixer
SameIn(a, b) == /\ SameInLife(a, b) /\ b.inEcho = a.inEcho /\ b.inStandby = a.inStandby
                /\ b.inMixer = a.inMixer /\ b.inRoute = a.inRoute
Same(a, b) == SameCall(a, b) /\ SameOut(a, b) /\ SameIn(a, b)

One(b) == IF b THEN 1 ELSE 0
Backed(a) == /\ a.mPcm <=> a.mPcmOpenCnt > 0
             /\ a.mMixer <=> a.mMixerOpenCnt > 0
Counted(a, call) ==
  /\ a.mPcmOpenCnt = One(a.outPcm) + One(call)
  /\ a.mMixerOpenCnt = One(a.outMixer) + One(a.inMixer) + One(call)
  /\ Backed(a)

LEMMA PcmEffect ==
  ASSUME NEW a \in Audio
  PROVE  /\ LET b == closePcmOut_l(a)
            IN  /\ Same(a, b) /\ b.mMixerOpenCnt = a.mMixerOpenCnt
                /\ Backed(a) /\ a.mPcmOpenCnt > 0
                     => Backed(b) /\ b.mPcmOpenCnt = a.mPcmOpenCnt - 1
         /\ \A ok \in BOOLEAN :
              LET b == openPcmOut_l(a, ok)
              IN  /\ Same(a, b) /\ b.mMixerOpenCnt = a.mMixerOpenCnt
                  /\ ok /\ Backed(a) => Backed(b) /\ b.mPcmOpenCnt = a.mPcmOpenCnt + 1
  BY DEF Audio, closePcmOut_l, openPcmOut_l, Same, SameCall, SameOut, SameIn, SameOutLife,
         SameInLife, Backed

LEMMA MixerEffect ==
  ASSUME NEW a \in Audio
  PROVE  /\ LET b == closeMixer_l(a)
            IN  /\ Same(a, b) /\ b.mPcmOpenCnt = a.mPcmOpenCnt
                /\ Backed(a) /\ a.mMixerOpenCnt > 0
                     => Backed(b) /\ b.mMixerOpenCnt = a.mMixerOpenCnt - 1
         /\ \A ok \in BOOLEAN :
              LET b == openMixer_l(a, ok)
              IN  /\ Same(a, b) /\ b.mPcmOpenCnt = a.mPcmOpenCnt
                  /\ ok /\ Backed(a) => Backed(b) /\ b.mMixerOpenCnt = a.mMixerOpenCnt + 1
  BY DEF Audio, closeMixer_l, openMixer_l, Same, SameCall, SameOut, SameIn, SameOutLife,
         SameInLife, Backed

(* The output is closed: it gives back what it has. *)
LEMMA OutCloseEffect ==
  ASSUME NEW a \in Audio, NEW call \in BOOLEAN
  PROVE  LET b == OutClose_l(a)
         IN  /\ SameCall(a, b) /\ SameIn(a, b) /\ SameOutLife(a, b)
             /\ b.outStandby = a.outStandby /\ ~b.outPcm /\ ~b.outMixer
             /\ Counted(a, call) => Counted(b, call)
<1> DEFINE c == closeMixer_l(a)
           m == IF a.outMixer THEN [c EXCEPT !.outMixer = FALSE] ELSE a
           d == closePcmOut_l(m)
           b == IF m.outPcm THEN [d EXCEPT !.outPcm = FALSE] ELSE m
<1>1. c \in Audio BY closeMixerType
<1>2. /\ Same(a, c) /\ c.mPcmOpenCnt = a.mPcmOpenCnt
      /\ Backed(a) /\ a.mMixerOpenCnt > 0 => Backed(c) /\ c.mMixerOpenCnt = a.mMixerOpenCnt - 1
  BY MixerEffect
<1> HIDE DEF c
<1>3. m \in Audio BY <1>1, Fields
<1>4. /\ SameCall(a, m) /\ SameIn(a, m) /\ SameOutLife(a, m)
      /\ m.outStandby = a.outStandby /\ m.outPcm = a.outPcm /\ ~m.outMixer
  BY <1>1, <1>2 DEF Same, SameCall, SameIn, SameInLife, SameOut, SameOutLife, Audio
<1>5. Counted(a, call) => Counted(m, call)
  <2>1. Same(a, c) => c.inMixer = a.inMixer /\ c.outPcm = a.outPcm
    BY DEF Same, SameIn, SameOut
  <2> QED BY <1>1, <1>2, <2>1 DEF Counted, Backed, One, Audio
<1> HIDE DEF m
<1>6. d \in Audio BY <1>3, closePcmType
<1>7. /\ Same(m, d) /\ d.mMixerOpenCnt = m.mMixerOpenCnt
      /\ Backed(m) /\ m.mPcmOpenCnt > 0 => Backed(d) /\ d.mPcmOpenCnt = m.mPcmOpenCnt - 1
  BY <1>3, PcmEffect
<1> HIDE DEF d
<1>8. /\ SameCall(a, b) /\ SameIn(a, b) /\ SameOutLife(a, b)
      /\ b.outStandby = a.outStandby /\ ~b.outPcm /\ ~b.outMixer
  BY <1>3, <1>4, <1>6, <1>7
     DEF Same, SameCall, SameIn, SameInLife, SameOut, SameOutLife, Audio
<1>9. Counted(m, call) => Counted(b, call)
  <2>1. d.inMixer = m.inMixer /\ d.outMixer = m.outMixer
    BY <1>7 DEF Same, SameIn, SameOut
  <2> QED BY <1>3, <1>6, <1>7, <2>1 DEF Counted, Backed, One, Audio
<1> HIDE DEF b
<1>10. /\ SameCall(a, b) /\ SameIn(a, b) /\ SameOutLife(a, b)
       /\ b.outStandby = a.outStandby /\ ~b.outPcm /\ ~b.outMixer
       /\ Counted(a, call) => Counted(b, call)
  BY <1>5, <1>8, <1>9
<1> QED BY <1>10 DEF OutClose_l, b, d, m, c

(* The output is opened: it has the devices it got, and no kernel that
   refuses nothing leaves the counts wrong. *)
LEMMA OutOpenEffect ==
  ASSUME NEW a \in Audio, NEW call \in BOOLEAN, NEW pOk \in BOOLEAN, NEW mOk \in BOOLEAN
  PROVE  LET b == OutOpen_l(a, pOk, mOk)
         IN  /\ SameCall(a, b) /\ SameIn(a, b) /\ SameOutLife(a, b)
             /\ b.outStandby = a.outStandby
             /\ ~a.outMixer /\ ~b.outPcm => ~b.outMixer
             /\ pOk /\ mOk /\ ~a.outPcm /\ ~a.outMixer /\ Counted(a, call) => Counted(b, call)
<1> DEFINE p == openPcmOut_l(a, pOk)
           m == openMixer_l(p, mOk)
           g == GotMixer(p, m)
           w == GotPcm(a, p)
           b == IF w THEN [m EXCEPT !.outPcm = TRUE, !.outMixer = g]
                     ELSE [p EXCEPT !.outPcm = FALSE]
<1>1. p \in Audio BY openPcmType
<1>2. /\ Same(a, p) /\ p.mMixerOpenCnt = a.mMixerOpenCnt
      /\ pOk /\ Backed(a) => Backed(p) /\ p.mPcmOpenCnt = a.mPcmOpenCnt + 1
  BY PcmEffect
<1>3. w <=> (p.mPcm /\ p.mPcmOpenCnt > a.mPcmOpenCnt) BY DEF GotPcm
<1> HIDE DEF w, p
<1>4. m \in Audio BY <1>1, openMixerType
<1>5. /\ Same(p, m) /\ m.mPcmOpenCnt = p.mPcmOpenCnt
      /\ mOk /\ Backed(p) => Backed(m) /\ m.mMixerOpenCnt = p.mMixerOpenCnt + 1
  BY <1>1, MixerEffect
<1>6. g <=> (m.mMixer /\ m.mMixerOpenCnt > p.mMixerOpenCnt) BY DEF GotMixer
<1> HIDE DEF g, m
<1>7. /\ SameCall(a, b) /\ SameIn(a, b) /\ SameOutLife(a, b)
      /\ b.outStandby = a.outStandby
  BY <1>1, <1>2, <1>4, <1>5
     DEF Same, SameCall, SameIn, SameInLife, SameOut, SameOutLife, Audio
<1>8. ~a.outMixer /\ ~b.outPcm => ~b.outMixer
  BY <1>1, <1>2, <1>4 DEF Same, SameOut, Audio
<1>9. pOk /\ mOk /\ ~a.outPcm /\ ~a.outMixer /\ Counted(a, call) => Counted(b, call)
  <2> SUFFICES ASSUME pOk, mOk, ~a.outPcm, ~a.outMixer, Counted(a, call)
               PROVE  Counted(b, call)
    OBVIOUS
  <2>1. /\ a.mPcmOpenCnt \in Nat /\ a.mMixerOpenCnt \in Nat
        /\ p.mPcmOpenCnt \in Nat /\ p.mMixerOpenCnt \in Nat
    BY <1>1 DEF Audio
  <2>2. Backed(p) /\ p.mPcmOpenCnt = a.mPcmOpenCnt + 1 /\ w
    BY <1>2, <1>3, <2>1 DEF Counted, Backed
  <2>3. Backed(m) /\ m.mMixerOpenCnt = p.mMixerOpenCnt + 1 /\ g
    BY <1>5, <1>6, <2>1, <2>2 DEF Backed
  <2>4. m.inMixer = a.inMixer BY <1>2, <1>5 DEF Same, SameIn
  <2>5. b = [m EXCEPT !.outPcm = TRUE, !.outMixer = TRUE] BY <2>2, <2>3
  <2>6. /\ b.mPcmOpenCnt = m.mPcmOpenCnt /\ b.mMixerOpenCnt = m.mMixerOpenCnt
        /\ b.mPcm = m.mPcm /\ b.mMixer = m.mMixer /\ b.inMixer = m.inMixer
        /\ b.outPcm = TRUE /\ b.outMixer = TRUE
    BY <1>4, <2>5 DEF Audio
  <2> HIDE DEF b
  <2> QED BY <1>2, <1>5, <2>1, <2>2, <2>3, <2>4, <2>6 DEF Counted, Backed, One
<1> HIDE DEF b
<1> QED BY <1>7, <1>8, <1>9 DEF OutOpen_l, b, m, g, w, p

LEMMA OutStandbyEffect ==
  ASSUME NEW a \in Audio, NEW call \in BOOLEAN
  PROVE  LET b == OutDoStandby_l(a)
         IN  /\ SameCall(a, b) /\ SameIn(a, b) /\ SameOutLife(a, b)
             /\ b.outStandby /\ ~b.outPcm /\ ~b.outMixer
             /\ Counted(a, call) => Counted(b, call)
<1> DEFINE s == [a EXCEPT !.outSeen = {}, !.outStandby = TRUE]
<1>1. s \in Audio BY DEF Audio
<1>2. SameCall(a, s) /\ SameIn(a, s) /\ SameOutLife(a, s) /\ s.outStandby
  BY DEF SameCall, SameIn, SameInLife, SameOutLife, Audio
<1>3. Counted(a, call) => Counted(s, call) BY DEF Counted, Backed, Audio
<1> HIDE DEF s
<1>4. OutDoStandby_l(a) = OutClose_l(s) BY DEF OutDoStandby_l, s
<1> QED BY <1>1, <1>2, <1>3, <1>4, OutCloseEffect
        DEF SameCall, SameIn, SameInLife, SameOutLife

(* A reference the hardware lets go of is no listed output's any more. *)
LEMMA ReleaseEffect ==
  ASSUME NEW a \in Audio, NEW ref \in Echo
  PROVE  LET b == releaseEchoReference(a, ref)
         IN  /\ SameCall(a, b) /\ SameInLife(a, b)
             /\ b.outListed = a.outListed /\ b.outAlive = a.outAlive
             /\ b.outStandby = a.outStandby /\ b.outPcm = a.outPcm /\ b.outMixer = a.outMixer
             /\ b.inStandby = a.inStandby /\ b.inMixer = a.inMixer /\ b.inRoute = a.inRoute
             /\ a.outListed /\ a.outEcho # "stale" => b.outEcho # "stale"
             /\ a.outEcho = "none" => b.outEcho = "none"
             /\ \A call \in BOOLEAN : Counted(a, call) => Counted(b, call)
<1>1. CASE ~(a.mEchoReference /\ ref = "live")
  BY <1>1 DEF releaseEchoReference, SameCall, SameInLife
<1>2. CASE a.mEchoReference /\ ref = "live"
  <2> DEFINE Now(x) == IF x = "live" THEN "stale" ELSE x
             o == IF a.outListed /\ a.outEcho = "live" THEN "none" ELSE Now(a.outEcho)
             i == Now(a.inEcho)
             b == [a EXCEPT !.mEchoReference = FALSE, !.outEcho = o, !.inEcho = i]
  <2>1. releaseEchoReference(a, ref) = b BY <1>2 DEF releaseEchoReference
  <2>2. b.outEcho = o BY DEF Audio
  <2>3. /\ a.outListed /\ a.outEcho # "stale" => o # "stale"
        /\ a.outEcho = "none" => o = "none"
    OBVIOUS
  <2> HIDE DEF o, i
  <2>4. \A call \in BOOLEAN : Counted(a, call) => Counted(b, call)
    BY DEF Counted, Backed, Audio
  <2>5. /\ SameCall(a, b) /\ SameInLife(a, b)
        /\ b.outListed = a.outListed /\ b.outAlive = a.outAlive
        /\ b.outStandby = a.outStandby /\ b.outPcm = a.outPcm /\ b.outMixer = a.outMixer
        /\ b.inStandby = a.inStandby /\ b.inMixer = a.inMixer /\ b.inRoute = a.inRoute
    BY DEF Audio, SameCall, SameInLife
  <2> HIDE DEF b
  <2> QED BY <2>1, <2>2, <2>3, <2>4, <2>5
<1> QED BY <1>1, <1>2

LEMMA GetEffect ==
  ASSUME NEW a \in Audio, NEW ok \in BOOLEAN
  PROVE  LET b == getEchoReference(a, ok)
         IN  /\ SameCall(a, b) /\ SameInLife(a, b)
             /\ b.outListed = a.outListed /\ b.outAlive = a.outAlive
             /\ b.outStandby = a.outStandby /\ b.outPcm = a.outPcm /\ b.outMixer = a.outMixer
             /\ b.inStandby = a.inStandby /\ b.inMixer = a.inMixer /\ b.inRoute = a.inRoute
             /\ b.inEcho # "stale"
             /\ a.outListed /\ a.outEcho # "stale" => b.outEcho # "stale"
             /\ ~a.outListed /\ a.outEcho = "none" => b.outEcho = "none"
             /\ \A call \in BOOLEAN : Counted(a, call) => Counted(b, call)
<1> DEFINE r == releaseEchoReference(a, "live")
           made == r.outListed /\ ok
           o == IF made /\ r.outEcho = "none" THEN "live" ELSE r.outEcho
           i == IF made THEN "live" ELSE "none"
           b == [r EXCEPT !.mEchoReference = made, !.outEcho = o, !.inEcho = i]
<1>1. r \in Audio BY releaseType
<1>2. /\ SameCall(a, r) /\ SameInLife(a, r)
      /\ r.outListed = a.outListed /\ r.outAlive = a.outAlive
      /\ r.outStandby = a.outStandby /\ r.outPcm = a.outPcm /\ r.outMixer = a.outMixer
      /\ r.inStandby = a.inStandby /\ r.inMixer = a.inMixer /\ r.inRoute = a.inRoute
      /\ a.outListed /\ a.outEcho # "stale" => r.outEcho # "stale"
      /\ a.outEcho = "none" => r.outEcho = "none"
      /\ \A call \in BOOLEAN : Counted(a, call) => Counted(r, call)
  BY ReleaseEffect
<1> HIDE DEF r
<1>3. b.outEcho = o /\ b.inEcho = i BY <1>1 DEF Audio
<1>4. /\ i # "stale"
      /\ a.outListed /\ a.outEcho # "stale" => o # "stale"
      /\ ~a.outListed /\ a.outEcho = "none" => o = "none"
  BY <1>2
<1> HIDE DEF o, i, made
<1>5. \A call \in BOOLEAN : Counted(r, call) => Counted(b, call)
  BY <1>1 DEF Counted, Backed, Audio
<1>6. /\ SameCall(r, b) /\ SameInLife(r, b)
      /\ b.outListed = r.outListed /\ b.outAlive = r.outAlive
      /\ b.outStandby = r.outStandby /\ b.outPcm = r.outPcm /\ b.outMixer = r.outMixer
      /\ b.inStandby = r.inStandby /\ b.inMixer = r.inMixer /\ b.inRoute = r.inRoute
  BY <1>1 DEF Audio, SameCall, SameInLife
<1> HIDE DEF b
<1>7. getEchoReference(a, ok) = b BY DEF getEchoReference, b, o, i, made, r
<1> QED BY <1>2, <1>3, <1>4, <1>5, <1>6, <1>7 DEF SameCall, SameInLife

LEMMA InCloseEffect ==
  ASSUME NEW a \in Audio, NEW call \in BOOLEAN
  PROVE  LET b == InClose_l(a)
         IN  /\ SameCall(a, b) /\ SameOut(a, b) /\ SameInLife(a, b)
             /\ b.inStandby = a.inStandby /\ b.inEcho = a.inEcho /\ b.inRoute = a.inRoute
             /\ ~b.inMixer
             /\ Counted(a, call) => Counted(b, call)
<1> DEFINE c == closeMixer_l(a)
           m == IF a.inMixer THEN [c EXCEPT !.inMixer = FALSE] ELSE a
           b == [m EXCEPT !.inPcm = FALSE]
<1>1. c \in Audio BY closeMixerType
<1>2. /\ Same(a, c) /\ c.mPcmOpenCnt = a.mPcmOpenCnt
      /\ Backed(a) /\ a.mMixerOpenCnt > 0 => Backed(c) /\ c.mMixerOpenCnt = a.mMixerOpenCnt - 1
  BY MixerEffect
<1> HIDE DEF c
<1>3. m \in Audio BY <1>1, Fields
<1>4. /\ SameCall(a, m) /\ SameOut(a, m) /\ SameInLife(a, m)
      /\ m.inStandby = a.inStandby /\ m.inEcho = a.inEcho /\ m.inRoute = a.inRoute
      /\ ~m.inMixer
  BY <1>1, <1>2 DEF Same, SameCall, SameIn, SameInLife, SameOut, SameOutLife, Audio
<1>5. Counted(a, call) => Counted(m, call)
  <2>1. c.outMixer = a.outMixer /\ c.outPcm = a.outPcm
    BY <1>2 DEF Same, SameOut
  <2> QED BY <1>1, <1>2, <2>1 DEF Counted, Backed, One, Audio
<1> HIDE DEF m
<1>6. /\ SameCall(m, b) /\ SameOut(m, b) /\ SameInLife(m, b)
      /\ b.inStandby = m.inStandby /\ b.inEcho = m.inEcho /\ b.inRoute = m.inRoute
      /\ b.inMixer = m.inMixer
      /\ Counted(m, call) => Counted(b, call)
  BY <1>3 DEF SameCall, SameInLife, SameOut, SameOutLife, Audio, Counted, Backed
<1> HIDE DEF b
<1>7. InClose_l(a) = b BY DEF InClose_l, b, m, c
<1> QED BY <1>4, <1>5, <1>6, <1>7 DEF SameCall, SameInLife, SameOut, SameOutLife

(* An input that is opened gets the route the mode and the mute ask for. *)
LEMMA InOpenEffect ==
  ASSUME NEW a \in Audio, NEW call \in BOOLEAN, NEW pOk \in BOOLEAN, NEW mOk \in BOOLEAN
  PROVE  LET b == InOpen_l(a, pOk, mOk)
         IN  /\ SameCall(a, b) /\ SameOut(a, b) /\ SameInLife(a, b)
             /\ b.inStandby = a.inStandby /\ b.inEcho = a.inEcho
             /\ ~pOk => b.inMixer = a.inMixer
             /\ pOk /\ b.inMixer /\ a.mMode # "in_call"
                  => b.inRoute = IF a.mMicMute THEN "off" ELSE "mic"
             /\ mOk /\ ~a.inMixer /\ Counted(a, call) => Counted(b, call)
<1> DEFINE m == openMixer_l(a, mOk)
           g == GotMixer(a, m)
           route == IF a.mMode = "in_call" \/ ~g THEN "unset"
                    ELSE IF a.mMicMute THEN "off" ELSE "mic"
           b == IF pOk THEN [m EXCEPT !.inPcm = TRUE, !.inMixer = g, !.inRoute = route]
                ELSE [a EXCEPT !.inPcm = FALSE]
<1>1. m \in Audio BY openMixerType
<1>2. /\ Same(a, m) /\ m.mPcmOpenCnt = a.mPcmOpenCnt
      /\ mOk /\ Backed(a) => Backed(m) /\ m.mMixerOpenCnt = a.mMixerOpenCnt + 1
  BY MixerEffect
<1>3. g <=> (m.mMixer /\ m.mMixerOpenCnt > a.mMixerOpenCnt) BY DEF GotMixer
<1> HIDE DEF g, m
<1>4. g /\ a.mMode # "in_call" => route = IF a.mMicMute THEN "off" ELSE "mic" OBVIOUS
<1> HIDE DEF route
<1>5. pOk => b.inMixer = g /\ b.inRoute = route BY <1>1 DEF Audio
<1>6. ~pOk => b.inMixer = a.inMixer BY DEF Audio
<1>7. /\ SameCall(a, b) /\ SameOut(a, b) /\ SameInLife(a, b)
      /\ b.inStandby = a.inStandby /\ b.inEcho = a.inEcho
  BY <1>1, <1>2 DEF Same, SameCall, SameIn, SameInLife, SameOut, SameOutLife, Audio
<1>8. mOk /\ ~a.inMixer /\ Counted(a, call) => Counted(b, call)
  <2> SUFFICES ASSUME mOk, ~a.inMixer, Counted(a, call) PROVE Counted(b, call)
    OBVIOUS
  <2>1. CASE ~pOk
    BY <2>1 DEF Counted, Backed, Audio
  <2>2. CASE pOk
    <3>1. a.mMixerOpenCnt \in Nat BY DEF Audio
    <3>2. Backed(m) /\ m.mMixerOpenCnt = a.mMixerOpenCnt + 1 /\ g
      BY <1>2, <1>3, <3>1 DEF Counted, Backed
    <3>3. m.outMixer = a.outMixer /\ m.outPcm = a.outPcm BY <1>2 DEF Same, SameOut
    <3>4. /\ b.mPcmOpenCnt = m.mPcmOpenCnt /\ b.mMixerOpenCnt = m.mMixerOpenCnt
          /\ b.mPcm = m.mPcm /\ b.mMixer = m.mMixer /\ b.outMixer = m.outMixer
          /\ b.outPcm = m.outPcm /\ b.inMixer = g
      BY <1>1, <2>2 DEF Audio
    <3> HIDE DEF b
    <3> QED BY <1>2, <3>1, <3>2, <3>3, <3>4 DEF Counted, Backed, One
  <2> QED BY <2>1, <2>2
<1> HIDE DEF b
<1>9. InOpen_l(a, pOk, mOk) = b BY DEF InOpen_l, b, route, g, m
<1> QED BY <1>4, <1>5, <1>6, <1>7, <1>8, <1>9

LEMMA InEndEffect ==
  ASSUME NEW a \in Audio, NEW call \in BOOLEAN, NEW wasActive \in BOOLEAN
  PROVE  LET b == InEndStandby_l(a, wasActive)
         IN  /\ SameCall(a, b) /\ SameOut(a, b) /\ SameInLife(a, b)
             /\ wasActive => b.inEcho = "none" /\ b.inStandby
             /\ ~wasActive => b.inEcho = a.inEcho /\ b.inStandby = a.inStandby
             /\ ~b.inMixer
             /\ Counted(a, call) => Counted(b, call)
<1> DEFINE s == IF wasActive THEN [a EXCEPT !.inEcho = "none", !.inStandby = TRUE] ELSE a
<1>1. s \in Audio
  <2>1. [a EXCEPT !.inEcho = "none", !.inStandby = TRUE] \in Audio BY DEF Audio
  <2> QED BY <2>1
<1>2. /\ SameCall(a, s) /\ SameOut(a, s) /\ SameInLife(a, s)
      /\ wasActive => s.inEcho = "none" /\ s.inStandby
      /\ ~wasActive => s.inEcho = a.inEcho /\ s.inStandby = a.inStandby
      /\ Counted(a, call) => Counted(s, call)
  BY DEF SameCall, SameInLife, SameOut, SameOutLife, Audio, Counted, Backed
<1> HIDE DEF s
<1>3. InEndStandby_l(a, wasActive) = InClose_l(s) BY DEF InEndStandby_l, s
<1> QED BY <1>1, <1>2, <1>3, InCloseEffect DEF SameCall, SameInLife, SameOut, SameOutLife

(* What the longer actions do to the record. *)
LEMMA ForgetEffect ==
  ASSUME audio \in Audio, NEW t \in Threads
  PROVE  /\ Same(audio, Forget(t))
         /\ \A call \in BOOLEAN : Counted(audio, call) => Counted(Forget(t), call)
  BY DEF Forget, Same, SameCall, SameIn, SameInLife, SameOut, SameOutLife, Audio, Counted,
         Backed

LEMMA SourceEffect ==
  ASSUME NEW a \in Audio, NEW call \in BOOLEAN, NEW ok \in BOOLEAN
  PROVE  LET b == closeMixer_l(openMixer_l(a, ok))
         IN  Same(a, b) /\ (ok /\ Counted(a, call) => Counted(b, call))
<1> DEFINE o == openMixer_l(a, ok)
           b == closeMixer_l(o)
<1>1. o \in Audio BY openMixerType
<1>2. /\ Same(a, o) /\ o.mPcmOpenCnt = a.mPcmOpenCnt
      /\ ok /\ Backed(a) => Backed(o) /\ o.mMixerOpenCnt = a.mMixerOpenCnt + 1
  BY MixerEffect
<1> HIDE DEF o
<1>3. b \in Audio BY <1>1, closeMixerType
<1>4. /\ Same(o, b) /\ b.mPcmOpenCnt = o.mPcmOpenCnt
      /\ Backed(o) /\ o.mMixerOpenCnt > 0 => Backed(b) /\ b.mMixerOpenCnt = o.mMixerOpenCnt - 1
  BY <1>1, MixerEffect
<1> HIDE DEF b
<1>5. Same(a, b)
  BY <1>2, <1>4 DEF Same, SameCall, SameIn, SameInLife, SameOut, SameOutLife
<1>6. ok /\ Counted(a, call) => Counted(b, call)
  <2>1. /\ b.outPcm = a.outPcm /\ b.outMixer = a.outMixer /\ b.inMixer = a.inMixer
        /\ a.mMixerOpenCnt \in Nat /\ o.mMixerOpenCnt \in Nat
    BY <1>1, <1>5 DEF Same, SameOut, SameIn, Audio
  <2> QED BY <1>2, <1>4, <2>1 DEF Counted
<1> QED BY <1>5, <1>6 DEF b, o

(* read() with the output active closes and opens it, and makes the echo
   reference. *)
Reopened(a, p, m, e) ==
  LET opened == OutOpen_l(OutClose_l(a), p, m)
      o == IF a.outStandby THEN a
           ELSE IF opened.outPcm THEN opened ELSE OutDoStandby_l(opened)
  IN  IF o.inNeedEcho /\ o.inEcho = "none" THEN getEchoReference(o, e) ELSE o

LEMMA ReopenEffect ==
  ASSUME NEW a \in Audio, NEW call \in BOOLEAN,
         NEW p \in BOOLEAN, NEW m \in BOOLEAN, NEW e \in BOOLEAN
  PROVE  LET b == Reopened(a, p, m, e)
         IN  /\ SameCall(a, b) /\ SameInLife(a, b)
             /\ b.outListed = a.outListed /\ b.outAlive = a.outAlive
             /\ b.inStandby = a.inStandby /\ b.inMixer = a.inMixer /\ b.inRoute = a.inRoute
             /\ a.inEcho # "stale" => b.inEcho # "stale"
             /\ a.outListed /\ a.outEcho # "stale" => b.outEcho # "stale"
             /\ a.outStandby => /\ b.outStandby
                                /\ b.outPcm = a.outPcm /\ b.outMixer = a.outMixer
             /\ ~a.outStandby /\ b.outStandby => ~b.outPcm /\ ~b.outMixer
             /\ p /\ m /\ Counted(a, call) => Counted(b, call)
<1> DEFINE closed == OutClose_l(a)
           opened == OutOpen_l(closed, p, m)
           stopped == OutDoStandby_l(opened)
           o == IF a.outStandby THEN a ELSE IF opened.outPcm THEN opened ELSE stopped
           b == IF o.inNeedEcho /\ o.inEcho = "none" THEN getEchoReference(o, e) ELSE o
<1>1. /\ closed \in Audio
      /\ SameCall(a, closed) /\ SameIn(a, closed) /\ SameOutLife(a, closed)
      /\ closed.outStandby = a.outStandby /\ ~closed.outPcm /\ ~closed.outMixer
      /\ Counted(a, call) => Counted(closed, call)
  BY OutCloseType, OutCloseEffect
<1> HIDE DEF closed
<1>2. /\ opened \in Audio
      /\ SameCall(closed, opened) /\ SameIn(closed, opened) /\ SameOutLife(closed, opened)
      /\ opened.outStandby = closed.outStandby
      /\ p /\ m /\ Counted(a, call) => Counted(opened, call)
  BY <1>1, OutOpenType, OutOpenEffect
<1> HIDE DEF opened
<1>3. /\ stopped \in Audio
      /\ SameCall(opened, stopped) /\ SameIn(opened, stopped) /\ SameOutLife(opened, stopped)
      /\ stopped.outStandby /\ ~stopped.outPcm /\ ~stopped.outMixer
      /\ Counted(opened, call) => Counted(stopped, call)
  BY <1>2, OutStandbyType, OutStandbyEffect
<1> HIDE DEF stopped
<1>4. /\ o \in Audio /\ SameCall(a, o) /\ SameIn(a, o) /\ SameOutLife(a, o)
      /\ a.outStandby => o.outStandby /\ o.outPcm = a.outPcm /\ o.outMixer = a.outMixer
      /\ ~a.outStandby /\ o.outStandby => ~o.outPcm /\ ~o.outMixer
      /\ p /\ m /\ Counted(a, call) => Counted(o, call)
  BY <1>1, <1>2, <1>3 DEF SameCall, SameIn, SameInLife, SameOutLife
<1> HIDE DEF o
<1>5. CASE b = o
  BY <1>4, <1>5 DEF SameCall, SameIn, SameInLife, SameOutLife, Reopened, b, o, stopped, opened,
                    closed
<1>6. CASE b # o
  <2> DEFINE g == getEchoReference(o, e)
  <2>1. b = g BY <1>6
  <2>2. /\ SameCall(o, g) /\ SameInLife(o, g)
        /\ g.outListed = o.outListed /\ g.outAlive = o.outAlive
        /\ g.outStandby = o.outStandby /\ g.outPcm = o.outPcm /\ g.outMixer = o.outMixer
        /\ g.inStandby = o.inStandby /\ g.inMixer = o.inMixer /\ g.inRoute = o.inRoute
        /\ g.inEcho # "stale"
        /\ o.outListed /\ o.outEcho # "stale" => g.outEcho # "stale"
        /\ Counted(o, call) => Counted(g, call)
    BY <1>4, GetEffect
  <2> HIDE DEF g
  <2>3. Reopened(a, p, m, e) = g BY <2>1 DEF Reopened, o, stopped, opened, closed
  <2> HIDE DEF b
  <2> QED BY <1>4, <2>2, <2>3 DEF SameCall, SameIn, SameInLife, SameOutLife
<1> QED BY <1>5, <1>6

(* The call gives its devices back before the mode's streams do. *)
LEMMA BodyEffect ==
  ASSUME NEW a \in Audio, NEW mode \in Modes
  PROVE  LET set == [a EXCEPT !.mMode = mode]
             freed == closePcmOut_l(closeMixer_l(set))
         IN  /\ set \in Audio /\ freed \in Audio
             /\ set.mMode = mode /\ set.mInCallAudioMode = a.mInCallAudioMode
             /\ set.mMicMute = a.mMicMute /\ SameOut(a, set) /\ SameIn(a, set)
             /\ Same(set, freed)
             /\ \A call \in BOOLEAN : Counted(a, call) => Counted(set, call)
             /\ Counted(a, TRUE) => Counted(freed, FALSE)
<1> DEFINE set == [a EXCEPT !.mMode = mode]
           c == closeMixer_l(set)
           freed == closePcmOut_l(c)
<1>1. /\ set \in Audio /\ set.mMode = mode /\ set.mInCallAudioMode = a.mInCallAudioMode
      /\ set.mMicMute = a.mMicMute /\ SameOut(a, set) /\ SameIn(a, set)
      /\ \A call \in BOOLEAN : Counted(a, call) => Counted(set, call)
  BY DEF Audio, SameOut, SameOutLife, SameIn, SameInLife, Counted, Backed
<1> HIDE DEF set
<1>2. /\ c \in Audio /\ Same(set, c) /\ c.mPcmOpenCnt = set.mPcmOpenCnt
      /\ Backed(set) /\ set.mMixerOpenCnt > 0
           => Backed(c) /\ c.mMixerOpenCnt = set.mMixerOpenCnt - 1
  BY <1>1, closeMixerType, MixerEffect
<1> HIDE DEF c
<1>3. /\ freed \in Audio /\ Same(c, freed) /\ freed.mMixerOpenCnt = c.mMixerOpenCnt
      /\ Backed(c) /\ c.mPcmOpenCnt > 0 => Backed(freed) /\ freed.mPcmOpenCnt = c.mPcmOpenCnt - 1
  BY <1>2, closePcmType, PcmEffect
<1> HIDE DEF freed
<1>4. Same(set, freed)
  BY <1>2, <1>3 DEF Same, SameCall, SameIn, SameInLife, SameOut, SameOutLife
<1>5. Counted(set, TRUE) => Counted(freed, FALSE)
  <2>1. /\ freed.outPcm = set.outPcm /\ freed.outMixer = set.outMixer
        /\ freed.inMixer = set.inMixer
    BY <1>4 DEF Same, SameOut, SameIn
  <2> SUFFICES ASSUME Counted(set, TRUE) PROVE Counted(freed, FALSE)
    OBVIOUS
  <2>2. set.mMixerOpenCnt > 0 /\ set.mPcmOpenCnt > 0 /\ Backed(set)
    BY DEF Counted, One
  <2>3. /\ Backed(freed) /\ freed.mPcmOpenCnt = set.mPcmOpenCnt - 1
        /\ freed.mMixerOpenCnt = set.mMixerOpenCnt - 1
    BY <1>2, <1>3, <2>2
  <2> QED BY <2>1, <2>3 DEF Counted, One
<1> QED BY <1>1, <1>3, <1>4, <1>5 DEF freed, c, set

LEMMA EnterEffect ==
  ASSUME NEW a \in Audio, NEW p \in BOOLEAN, NEW m \in BOOLEAN
  PROVE  LET b == [openMixer_l(openPcmOut_l(a, p), m) EXCEPT !.mInCallAudioMode = TRUE]
         IN  /\ b.mMode = a.mMode /\ b.mInCallAudioMode /\ b.mMicMute = a.mMicMute
             /\ SameOut(a, b) /\ SameIn(a, b)
             /\ p /\ m /\ Counted(a, FALSE) => Counted(b, TRUE)
<1> DEFINE o == openPcmOut_l(a, p)
           q == openMixer_l(o, m)
           b == [q EXCEPT !.mInCallAudioMode = TRUE]
<1>1. /\ o \in Audio /\ Same(a, o) /\ o.mMixerOpenCnt = a.mMixerOpenCnt
      /\ p /\ Backed(a) => Backed(o) /\ o.mPcmOpenCnt = a.mPcmOpenCnt + 1
  BY openPcmType, PcmEffect
<1> HIDE DEF o
<1>2. /\ q \in Audio /\ Same(o, q) /\ q.mPcmOpenCnt = o.mPcmOpenCnt
      /\ m /\ Backed(o) => Backed(q) /\ q.mMixerOpenCnt = o.mMixerOpenCnt + 1
  BY <1>1, openMixerType, MixerEffect
<1> HIDE DEF q
<1>3. /\ b.mMode = q.mMode /\ b.mInCallAudioMode /\ b.mMicMute = q.mMicMute
      /\ SameOut(q, b) /\ SameIn(q, b)
      /\ Counted(q, TRUE) => Counted(b, TRUE)
  BY <1>2 DEF Audio, SameOut, SameOutLife, SameIn, SameInLife, Counted, Backed
<1> HIDE DEF b
<1>4. p /\ m /\ Counted(a, FALSE) => Counted(q, TRUE)
  <2>1. q.outPcm = a.outPcm /\ q.outMixer = a.outMixer /\ q.inMixer = a.inMixer
    BY <1>1, <1>2 DEF Same, SameOut, SameIn
  <2>2. a.mPcmOpenCnt \in Nat /\ a.mMixerOpenCnt \in Nat BY DEF Audio
  <2> QED BY <1>1, <1>2, <2>1, <2>2 DEF Counted, One
<1>5. /\ b.mMode = a.mMode /\ b.mMicMute = a.mMicMute /\ SameOut(a, b) /\ SameIn(a, b)
  BY <1>1, <1>2, <1>3 DEF Same, SameCall, SameIn, SameInLife, SameOut, SameOutLife
<1> QED BY <1>3, <1>4, <1>5 DEF b, q, o

-----------------------------------------------------------------------------
(* The record across a step: what a call of the HAL changes, what it leaves. *)
KeepsCount == \A call \in BOOLEAN : Counted(audio, call) => Counted(audio', call)

(* No open of the playback device and the mixer is refused. *)
Granted == env.refused \cap {"pcm_out", "mixer"} = {}

LEMMA GrantedOutcome ==
  \A what \in {"pcm_out", "mixer"} : \A ok \in Outcome(what) : Granted => ok = TRUE
  BY DEF Granted, Outcome

LEMMA LookStep ==
  ASSUME audio \in Audio, NEW t \in Threads,
         WriteLook(t) \/ SetModeLookIn(t) \/ SetModeLookOut(t)
           \/ SetModeRecheckOut(t) \/ SetModeRecheckIn(t)
  PROVE  Same(audio, audio') /\ KeepsCount
<1>1. \/ audio' = audio \/ audio' = Forget(t)
      \/ audio' = [audio EXCEPT !.inSeen = @ \cup {t}]
      \/ audio' = [audio EXCEPT !.outSeen = @ \cup {t}]
  BY DEF WriteLook, SetModeLookIn, SetModeLookOut, LookForInput, SetModeRecheckOut,
         SetModeRecheckIn
<1> QED BY <1>1, ForgetEffect
        DEF Same, SameCall, SameIn, SameInLife, SameOut, SameOutLife, Audio, KeepsCount,
            Counted, Backed

LEMMA RecheckStep ==
  ASSUME audio \in Audio, NEW t \in Threads, WriteRecheck(t)
  PROVE  /\ SameCall(audio, audio') /\ SameOut(audio, audio') /\ SameInLife(audio, audio')
         /\ audio'.inStandby = audio.inStandby /\ audio'.inEcho = audio.inEcho
         /\ audio'.inRoute = audio.inRoute
         /\ IF getActiveInput_l(audio) /\ t \in audio.inSeen THEN ~audio'.inMixer
            ELSE audio'.inMixer = audio.inMixer
         /\ KeepsCount
<1>1. /\ Forget(t) \in Audio /\ Same(audio, Forget(t))
      /\ \A call \in BOOLEAN : Counted(audio, call) => Counted(Forget(t), call)
  BY ForgetType, ForgetEffect
<1>2. CASE getActiveInput_l(audio) /\ t \in audio.inSeen
  <2>1. audio' = InClose_l(Forget(t)) BY <1>2 DEF WriteRecheck
  <2> QED BY <1>1, <1>2, <2>1, InCloseEffect
          DEF Same, SameCall, SameIn, SameInLife, SameOut, SameOutLife, KeepsCount
<1>3. CASE ~(getActiveInput_l(audio) /\ t \in audio.inSeen)
  <2>1. audio' = Forget(t) BY <1>3 DEF WriteRecheck
  <2> QED BY <1>1, <1>3, <2>1 DEF Same, SameIn, KeepsCount
<1> QED BY <1>2, <1>3

LEMMA OutStandbyStep ==
  ASSUME audio \in Audio, NEW t \in Threads, OutStandbyHw(t)
  PROVE  /\ SameCall(audio, audio') /\ SameIn(audio, audio')
         /\ audio'.outListed = audio.outListed
         /\ audio'.outStandby /\ ~audio'.outPcm /\ ~audio'.outMixer
         /\ audio'.outAlive <=> audio.outListed \/ spOut # {}
         /\ audio'.outEcho = IF audio.outListed \/ spOut # {} THEN audio.outEcho ELSE "none"
         /\ KeepsCount
<1> DEFINE o == OutDoStandby_l(audio)
           b == audio.outListed \/ spOut # {}
<1>1. /\ o \in Audio /\ SameCall(audio, o) /\ SameIn(audio, o) /\ SameOutLife(audio, o)
      /\ o.outStandby /\ ~o.outPcm /\ ~o.outMixer
      /\ \A call \in BOOLEAN : Counted(audio, call) => Counted(o, call)
  BY OutStandbyType, OutStandbyEffect
<1>2. audio' = [o EXCEPT !.outAlive = b, !.outEcho = IF b THEN @ ELSE "none"]
  BY DEF OutStandbyHw
<1>3. b \in BOOLEAN BY DEF Audio
<1> HIDE DEF o, b
<1>4. /\ SameCall(o, audio') /\ SameIn(o, audio') /\ audio'.outListed = o.outListed
      /\ audio'.outStandby = o.outStandby /\ audio'.outPcm = o.outPcm
      /\ audio'.outMixer = o.outMixer
      /\ audio'.outAlive = b /\ audio'.outEcho = IF b THEN o.outEcho ELSE "none"
      /\ \A call \in BOOLEAN : Counted(o, call) => Counted(audio', call)
  BY <1>1, <1>2, <1>3 DEF Audio, SameCall, SameIn, SameInLife, Counted, Backed
<1> QED BY <1>1, <1>4 DEF b, SameCall, SameIn, SameInLife, SameOutLife, KeepsCount

LEMMA OutParametersStep ==
  ASSUME audio \in Audio, NEW t \in Threads, OutSetParametersHw(t)
  PROVE  /\ SameCall(audio, audio') /\ SameIn(audio, audio') /\ SameOutLife(audio, audio')
         /\ \/ SameOut(audio, audio')
            \/ audio'.outStandby /\ ~audio'.outPcm /\ ~audio'.outMixer
         /\ KeepsCount
<1>1. audio' = audio \/ audio' = OutDoStandby_l(audio) BY DEF OutSetParametersHw
<1> QED BY <1>1, OutStandbyEffect
        DEF SameCall, SameIn, SameInLife, SameOut, SameOutLife, KeepsCount

HandsOver == ~audio.inStandby /\ audio.inEcho # "none" /\ audio.outListed

LEMMA DoStandbyStep ==
  ASSUME audio \in Audio, NEW t \in Threads, DoStandby(t)
  PROVE  /\ SameCall(audio, audio') /\ SameOut(audio, audio') /\ SameInLife(audio, audio')
         /\ audio'.inEcho \in {audio.inEcho, "none"}
         /\ IF HandsOver THEN SameIn(audio, audio') ELSE audio'.inStandby /\ ~audio'.inMixer
         /\ KeepsCount
<1> DEFINE s == [audio EXCEPT !.inSeen = {}]
           w == ~audio.inStandby
<1>1. /\ s \in Audio /\ Same(audio, s)
      /\ \A call \in BOOLEAN : Counted(audio, call) => Counted(s, call)
  BY DEF Same, SameCall, SameIn, SameInLife, SameOut, SameOutLife, Audio, Counted, Backed
<1>2. audio' = IF HandsOver THEN s ELSE InEndStandby_l(s, w) BY DEF DoStandby, HandsOver
<1>3. w \in BOOLEAN /\ (w <=> ~audio.inStandby) BY DEF Audio
<1> HIDE DEF s, w
<1>4. CASE HandsOver
  BY <1>1, <1>2, <1>4 DEF Same, SameIn, KeepsCount
<1>5. CASE ~HandsOver
  <2>1. audio' = InEndStandby_l(s, w) BY <1>2, <1>5
  <2>2. /\ SameCall(s, audio') /\ SameOut(s, audio') /\ SameInLife(s, audio')
        /\ w => audio'.inEcho = "none" /\ audio'.inStandby
        /\ ~w => audio'.inEcho = s.inEcho /\ audio'.inStandby = s.inStandby
        /\ ~audio'.inMixer
        /\ \A call \in BOOLEAN : Counted(s, call) => Counted(audio', call)
    BY <1>1, <1>3, <2>1, InEndEffect
  <2> QED BY <1>1, <1>3, <1>5, <2>2
          DEF Same, SameCall, SameIn, SameInLife, SameOut, SameOutLife, KeepsCount
<1> QED BY <1>4, <1>5

LEMMA ReleaseStep ==
  ASSUME audio \in Audio, NEW t \in Threads, DoStandbyRelease(t)
  PROVE  /\ SameCall(audio, audio') /\ SameInLife(audio, audio')
         /\ audio'.outListed = audio.outListed /\ audio'.outAlive = audio.outAlive
         /\ audio'.outStandby = audio.outStandby /\ audio'.outPcm = audio.outPcm
         /\ audio'.outMixer = audio.outMixer
         /\ audio.outListed /\ audio.outEcho # "stale" => audio'.outEcho # "stale"
         /\ audio.outEcho = "none" => audio'.outEcho = "none"
         /\ audio'.inEcho = "none" /\ audio'.inStandby /\ ~audio'.inMixer
         /\ KeepsCount
<1> DEFINE r == releaseEchoReference(audio, audio.inEcho)
<1>1. audio.inEcho \in Echo BY DEF Audio
<1>2. /\ r \in Audio /\ SameCall(audio, r) /\ SameInLife(audio, r)
      /\ r.outListed = audio.outListed /\ r.outAlive = audio.outAlive
      /\ r.outStandby = audio.outStandby /\ r.outPcm = audio.outPcm
      /\ r.outMixer = audio.outMixer
      /\ audio.outListed /\ audio.outEcho # "stale" => r.outEcho # "stale"
      /\ audio.outEcho = "none" => r.outEcho = "none"
      /\ \A call \in BOOLEAN : Counted(audio, call) => Counted(r, call)
  BY <1>1, releaseType, ReleaseEffect
<1>3. audio' = InEndStandby_l(r, TRUE) BY DEF DoStandbyRelease
<1> HIDE DEF r
<1>4. /\ SameCall(r, audio') /\ SameOut(r, audio') /\ SameInLife(r, audio')
      /\ audio'.inEcho = "none" /\ audio'.inStandby /\ ~audio'.inMixer
      /\ \A call \in BOOLEAN : Counted(r, call) => Counted(audio', call)
  BY <1>2, <1>3, InEndEffect
<1> QED BY <1>2, <1>4 DEF SameCall, SameInLife, SameOut, SameOutLife, KeepsCount

LEMMA StandbyDoneStep ==
  ASSUME audio \in Audio, NEW t \in Threads, InStandbyDone(t)
  PROVE  /\ SameCall(audio, audio') /\ SameOut(audio, audio')
         /\ audio'.inListed = audio.inListed /\ audio'.inStandby = audio.inStandby
         /\ audio'.inMixer = audio.inMixer /\ audio'.inRoute = audio.inRoute
         /\ audio'.inAlive <=> audio.inListed \/ spIn # {}
         /\ audio'.inEcho \in {audio.inEcho, "none"}
         /\ KeepsCount
  BY DEF InStandbyDone, Audio, SameCall, SameOut, SameOutLife, KeepsCount, Counted, Backed

LEMMA SourceStep ==
  ASSUME audio \in Audio, NEW t \in Threads, InSetSource(t)
  PROVE  Same(audio, audio') /\ (Granted => KeepsCount)
<1>1. PICK ok \in Outcome("mixer") : audio' = closeMixer_l(openMixer_l(audio, ok))
  BY DEF InSetSource
<1>2. ok \in BOOLEAN /\ (Granted => ok = TRUE) BY <1>1, OutcomeType, GrantedOutcome
<1> QED BY <1>1, <1>2, SourceEffect DEF KeepsCount

LEMMA ReopenStep ==
  ASSUME audio \in Audio, NEW t \in Threads, ReadReopenOutput(t)
  PROVE  /\ SameCall(audio, audio') /\ SameInLife(audio, audio')
         /\ audio'.outListed = audio.outListed /\ audio'.outAlive = audio.outAlive
         /\ audio'.inStandby = audio.inStandby /\ audio'.inMixer = audio.inMixer
         /\ audio'.inRoute = audio.inRoute
         /\ audio.inEcho # "stale" => audio'.inEcho # "stale"
         /\ audio.outListed /\ audio.outEcho # "stale" => audio'.outEcho # "stale"
         /\ ~audio.outListed => UNCHANGED audio
         /\ audio.outStandby => /\ audio'.outStandby
                                /\ audio'.outPcm = audio.outPcm
                                /\ audio'.outMixer = audio.outMixer
         /\ ~audio.outStandby /\ audio'.outStandby => ~audio'.outPcm /\ ~audio'.outMixer
         /\ Granted => KeepsCount
<1>1. CASE ~audio.outListed
  <2>1. audio' = audio BY <1>1 DEF ReadReopenOutput
  <2> QED BY <1>1, <2>1 DEF SameCall, SameInLife, KeepsCount
<1>2. CASE audio.outListed
  <2>1. PICK p \in Outcome("pcm_out"), m \in Outcome("mixer"), e \in Outcome("echo") :
          audio' = Reopened(audio, p, m, e)
    BY <1>2 DEF ReadReopenOutput, Reopened
  <2>2. /\ p \in BOOLEAN /\ m \in BOOLEAN /\ e \in BOOLEAN
        /\ Granted => p = TRUE /\ m = TRUE
    <3>1. p \in BOOLEAN /\ m \in BOOLEAN /\ e \in BOOLEAN BY OutcomeType
    <3>2. Granted => p = TRUE /\ m = TRUE BY GrantedOutcome
    <3> QED BY <3>1, <3>2
  <2> DEFINE b == Reopened(audio, p, m, e)
  <2>3. /\ SameCall(audio, b) /\ SameInLife(audio, b)
        /\ b.outListed = audio.outListed /\ b.outAlive = audio.outAlive
        /\ b.inStandby = audio.inStandby /\ b.inMixer = audio.inMixer
        /\ b.inRoute = audio.inRoute
        /\ audio.inEcho # "stale" => b.inEcho # "stale"
        /\ audio.outListed /\ audio.outEcho # "stale" => b.outEcho # "stale"
        /\ audio.outStandby => /\ b.outStandby
                               /\ b.outPcm = audio.outPcm /\ b.outMixer = audio.outMixer
        /\ ~audio.outStandby /\ b.outStandby => ~b.outPcm /\ ~b.outMixer
    BY <2>2, ReopenEffect
  <2>4. p /\ m => \A call \in BOOLEAN : Counted(audio, call) => Counted(b, call)
    BY <2>2, ReopenEffect
  <2>5. audio' = b BY <2>1
  <2> HIDE DEF b
  <2>6. Granted => KeepsCount BY <2>2, <2>4, <2>5 DEF KeepsCount
  <2> QED BY <1>2, <2>3, <2>5, <2>6
<1> QED BY <1>1, <1>2

LEMMA OpenStep ==
  ASSUME audio \in Audio, NEW t \in Threads, WriteOpen(t)
  PROVE  /\ SameCall(audio, audio') /\ SameIn(audio, audio') /\ SameOutLife(audio, audio')
         /\ audio'.outStandby = audio.outStandby
         /\ ~audio.outMixer /\ ~audio'.outPcm => ~audio'.outMixer
         /\ Granted /\ ~audio.outPcm /\ ~audio.outMixer => KeepsCount
<1>1. PICK p \in Outcome("pcm_out"), m \in Outcome("mixer") : audio' = OutOpen_l(audio, p, m)
  BY DEF WriteOpen
<1>2. p \in BOOLEAN /\ m \in BOOLEAN /\ (Granted => p = TRUE /\ m = TRUE)
  BY <1>1, OutcomeType, GrantedOutcome
<1> QED BY <1>1, <1>2, OutOpenEffect DEF KeepsCount

RouteAsked(a) == a.inRoute = IF a.mMicMute THEN "off" ELSE "mic"

LEMMA ReopenInputStep ==
  ASSUME TypeOK, NEW t \in Threads, WriteReopenInput(t)
  PROVE  /\ SameCall(audio, audio') /\ SameOut(audio, audio') /\ SameInLife(audio, audio')
         /\ audio'.inStandby = audio.inStandby /\ audio'.inEcho = audio.inEcho
         /\ pc'[t] # "w_opened" => audio'.inMixer = audio.inMixer
         /\ pc'[t] = "w_opened" /\ audio'.inMixer /\ audio.mMode # "in_call"
              => RouteAsked(audio')
         /\ Granted /\ ~audio.inMixer => KeepsCount
<1>1. PICK p \in Outcome("pcm_in"), m \in Outcome("mixer") :
        /\ audio' = InOpen_l(audio, p, m)
        /\ IF p THEN Goto(t, "w_opened") ELSE Goto(t, "ds")
  BY DEF WriteReopenInput, CallDoStandby
<1>2. p \in BOOLEAN /\ m \in BOOLEAN /\ (Granted => m = TRUE)
  BY <1>1, OutcomeType, GrantedOutcome
<1>3. p <=> pc'[t] = "w_opened" BY <1>1, <1>2 DEF Goto, TypeOK
<1> HIDE DEF TypeOK
<1>4. audio \in Audio BY DEF TypeOK
<1>5. /\ SameCall(audio, audio') /\ SameOut(audio, audio') /\ SameInLife(audio, audio')
      /\ audio'.inStandby = audio.inStandby /\ audio'.inEcho = audio.inEcho
      /\ ~p => audio'.inMixer = audio.inMixer
      /\ p /\ audio'.inMixer /\ audio.mMode # "in_call"
           => audio'.inRoute = IF audio.mMicMute THEN "off" ELSE "mic"
      /\ \A call \in BOOLEAN :
           m /\ ~audio.inMixer /\ Counted(audio, call) => Counted(audio', call)
  BY <1>1, <1>2, <1>4, InOpenEffect
<1> QED BY <1>2, <1>3, <1>5 DEF KeepsCount, RouteAsked, SameCall

LEMMA ReadOpenStep ==
  ASSUME TypeOK, NEW t \in Threads, ReadOpen(t)
  PROVE  /\ SameCall(audio, audio') /\ SameOut(audio, audio') /\ SameInLife(audio, audio')
         /\ audio'.inEcho = audio.inEcho
         /\ IF pc'[t] = "r_pcm"
            THEN /\ ~audio'.inStandby
                 /\ audio'.inMixer /\ audio.mMode # "in_call" => RouteAsked(audio')
            ELSE audio'.inMixer = audio.inMixer /\ audio'.inStandby = audio.inStandby
         /\ Granted /\ ~audio.inMixer => KeepsCount
<1>1. PICK p \in Outcome("pcm_in"), m \in Outcome("mixer") :
        /\ audio' = [InOpen_l(audio, p, m) EXCEPT !.inStandby = ~p /\ audio.inStandby]
        /\ IF p THEN Goto(t, "r_pcm") ELSE Goto(t, "si_in")
  BY DEF ReadOpen
<1>2. p \in BOOLEAN /\ m \in BOOLEAN /\ (Granted => m = TRUE)
  BY <1>1, OutcomeType, GrantedOutcome
<1>3. p <=> pc'[t] = "r_pcm" BY <1>1, <1>2 DEF Goto, TypeOK
<1>4. audio \in Audio BY DEF TypeOK
<1> DEFINE o == InOpen_l(audio, p, m)
<1>5. /\ SameCall(audio, o) /\ SameOut(audio, o) /\ SameInLife(audio, o)
      /\ o.inStandby = audio.inStandby /\ o.inEcho = audio.inEcho
      /\ ~p => o.inMixer = audio.inMixer
      /\ p /\ o.inMixer /\ audio.mMode # "in_call"
           => o.inRoute = IF audio.mMicMute THEN "off" ELSE "mic"
      /\ \A call \in BOOLEAN :
           m /\ ~audio.inMixer /\ Counted(audio, call) => Counted(o, call)
  BY <1>2, <1>4, InOpenEffect
<1>6. o \in Audio BY <1>2, <1>4, InOpenType
<1>7. audio' = [o EXCEPT !.inStandby = ~p /\ audio.inStandby] BY <1>1
<1> HIDE DEF o
<1>8. /\ SameCall(o, audio') /\ SameOut(o, audio') /\ SameInLife(o, audio')
      /\ audio'.inEcho = o.inEcho /\ audio'.inMixer = o.inMixer /\ audio'.inRoute = o.inRoute
      /\ audio'.inStandby = (~p /\ audio.inStandby)
      /\ \A call \in BOOLEAN : Counted(o, call) => Counted(audio', call)
  BY <1>6, <1>7 DEF Audio, SameCall, SameOut, SameOutLife, SameInLife, Counted, Backed
<1>9. audio.inStandby \in BOOLEAN BY <1>4 DEF Audio
<1> HIDE DEF TypeOK
<1> QED BY <1>2, <1>3, <1>5, <1>8, <1>9
        DEF KeepsCount, RouteAsked, SameCall, SameInLife, SameOut, SameOutLife

LEMMA BodyStep ==
  ASSUME audio \in Audio, NEW t \in Threads, NEW mode \in Modes, SetModeBody(t, mode)
  PROVE  LET entering == mode = "in_call" /\ ~audio.mInCallAudioMode
             leaving == mode # "in_call" /\ audio.mInCallAudioMode
             change == mode # audio.mMode /\ (entering \/ leaving)
         IN  /\ audio'.mMode = mode /\ audio'.mInCallAudioMode = audio.mInCallAudioMode
             /\ audio'.mMicMute = audio.mMicMute
             /\ SameIn(audio, audio') /\ SameOutLife(audio, audio')
             /\ \/ SameOut(audio, audio')
                \/ audio'.outStandby /\ ~audio'.outPcm /\ ~audio'.outMixer
             /\ IF change /\ leaving THEN Counted(audio, TRUE) => Counted(audio', FALSE)
                ELSE KeepsCount
<1> DEFINE entering == mode = "in_call" /\ ~audio.mInCallAudioMode
           leaving == mode # "in_call" /\ audio.mInCallAudioMode
           change == mode # audio.mMode /\ (entering \/ leaving)
           set == [audio EXCEPT !.mMode = mode]
           freed == closePcmOut_l(closeMixer_l(set))
           f == IF leaving THEN freed ELSE set
           Done(c) == IF change /\ leaving THEN Counted(audio, TRUE) => Counted(c, FALSE)
                      ELSE \A call \in BOOLEAN : Counted(audio, call) => Counted(c, call)
<1>1. /\ set \in Audio /\ freed \in Audio
      /\ set.mMode = mode /\ set.mInCallAudioMode = audio.mInCallAudioMode
      /\ set.mMicMute = audio.mMicMute /\ SameOut(audio, set) /\ SameIn(audio, set)
      /\ Same(set, freed)
      /\ \A call \in BOOLEAN : Counted(audio, call) => Counted(set, call)
      /\ Counted(audio, TRUE) => Counted(freed, FALSE)
  BY BodyEffect
<1>2. \/ audio' = set /\ ~change
      \/ change /\ audio' = f
      \/ change /\ audio' = OutDoStandby_l(f)
  <2>1. CASE change
    <3>1. audio' = IF t \in spOut THEN OutDoStandby_l(f) ELSE f
      BY <2>1, Zenon DEF SetModeBody
    <3> QED BY <2>1, <3>1
  <2>2. CASE ~change
    BY <2>2 DEF SetModeBody
  <2> QED BY <2>1, <2>2
<1> HIDE DEF set, freed
<1>3. /\ f \in Audio /\ f.mMode = mode /\ f.mInCallAudioMode = audio.mInCallAudioMode
      /\ f.mMicMute = audio.mMicMute /\ SameOut(audio, f) /\ SameIn(audio, f)
      /\ change => Done(f)
  BY <1>1 DEF Same, SameCall, SameIn, SameInLife, SameOut, SameOutLife
<1>4. ~change => Done(set) BY <1>1
<1> HIDE DEF f
<1> DEFINE s == OutDoStandby_l(f)
<1>5. /\ SameCall(f, s) /\ SameIn(f, s) /\ SameOutLife(f, s)
      /\ s.outStandby /\ ~s.outPcm /\ ~s.outMixer
      /\ \A call \in BOOLEAN : Counted(f, call) => Counted(s, call)
  BY <1>3, OutStandbyEffect
<1>6. change => Done(s) BY <1>3, <1>5
<1>7. Done(audio') <=> IF change /\ leaving THEN Counted(audio, TRUE) => Counted(audio', FALSE)
                       ELSE KeepsCount
  BY DEF KeepsCount
<1> HIDE DEF s, Done
<1>8. Done(audio') BY <1>2, <1>3, <1>4, <1>6 DEF s
<1>9. /\ audio'.mMode = mode /\ audio'.mInCallAudioMode = audio.mInCallAudioMode
      /\ audio'.mMicMute = audio.mMicMute
      /\ SameIn(audio, audio') /\ SameOutLife(audio, audio')
      /\ \/ SameOut(audio, audio')
         \/ audio'.outStandby /\ ~audio'.outPcm /\ ~audio'.outMixer
  BY <1>1, <1>2, <1>3, <1>5
     DEF s, SameCall, SameIn, SameInLife, SameOut, SameOutLife
<1> QED BY <1>7, <1>8, <1>9

LEMMA EnterStep ==
  ASSUME audio \in Audio, NEW t \in Threads, SetModeEnter(t)
  PROVE  /\ audio'.mMode = audio.mMode /\ audio'.mInCallAudioMode
         /\ audio'.mMicMute = audio.mMicMute
         /\ SameOut(audio, audio') /\ SameIn(audio, audio')
         /\ Granted /\ Counted(audio, FALSE) => Counted(audio', TRUE)
<1>1. PICK p \in Outcome("pcm_out"), m \in Outcome("mixer") :
        audio' = [openMixer_l(openPcmOut_l(audio, p), m) EXCEPT !.mInCallAudioMode = TRUE]
  BY DEF SetModeEnter
<1>2. p \in BOOLEAN /\ m \in BOOLEAN /\ (Granted => p = TRUE /\ m = TRUE)
  BY <1>1, OutcomeType, GrantedOutcome
<1> QED BY <1>1, <1>2, EnterEffect

-----------------------------------------------------------------------------
(* All calls, with echo cancellers and streams that come and go. *)

(* The mutexes a thread surely holds at each point of its code. *)
KeepsOut == {"w_hw", "w_look", "w_in", "w_inhw", "w_open", "w_reopen", "w_opened", "w_pcm",
             "so_hw", "po_hw", "ds_in", "ds_hw", "r_in2", "r_hw2", "m_hw2"}
KeepsIn == {"w_inhw", "w_reopen", "si_hw", "ds", "ds_hw", "si_done", "pi_hw", "pi_route",
            "pi_done", "r_hw", "r_look", "r_hw2", "r_open", "r_pcm", "m_hw3"}
KeepsHw == {"w_look", "w_open", "w_reopen", "w_opened", "ds", "si_done", "pi_done", "r_look",
            "r_open", "m_look", "m_lookin", "m_body", "m_enter", "m_leave", "m_end"}

DoStandbyLabels == {"ds", "ds_out", "ds_in", "ds_hw"}
PlayerLabels == {"w_out", "w_hw", "w_look", "w_in", "w_inhw", "w_open", "w_reopen", "w_opened",
                 "w_pcm"}
RecorderLabels == {"r_in", "r_hw", "r_look", "r_out", "r_in2", "r_hw2", "r_open", "r_pcm"}

(* Whoever runs doStandby_l on the way knows where it came from; a destructor
   that runs there waits for the hardware's mutex, which the thread has. *)
LockInv == \A t \in Threads :
  /\ pc[t] \in KeepsOut \/ after[t] = "w_opened" => owner["out"] = t
  /\ pc[t] \in KeepsIn => owner["in"] = t
  /\ pc[t] \in KeepsHw => owner["hw"] = t
  /\ pc[t] \in {"m_lookin", "m_in", "m_hw3", "m_body"} /\ t \in spOut => owner["out"] = t
  /\ pc[t] \in {"w_open", "m_body"} /\ t \in spIn => owner["in"] = t
  /\ pc[t] \in DoStandbyLabels =>
       after[t] \in {"si_done", "pi_done", "w_opened", "m_enter", "m_leave"}
  /\ pc[t] \in {"ds_in", "ds_hw"} => after[t] # "w_opened"
  /\ after[t] # "idle" => \/ pc[t] \in DoStandbyLabels
                          \/ pc[t] \in {"so_out", "so_hw"} /\ owner["hw"] = t
  /\ pc[t] \in PlayerLabels \/ after[t] = "w_opened" => t = Player
  /\ pc[t] \in RecorderLabels => t = Recorder

(* A stream with a call of its own thread under way is listed; one that is
   gone is in standby and without an echo reference. *)
StreamInv ==
  /\ audio.inEcho # "stale"
  /\ audio.outListed => audio.outAlive /\ audio.outEcho # "stale"
  /\ audio.inListed => audio.inAlive
  /\ pc[Player] # "idle" => audio.outListed
  /\ pc[Recorder] # "idle" => audio.inListed
  /\ ~audio.outAlive => audio.outEcho = "none"

(* A stream in standby has no device, except the output while write() opens
   it; an input that write() has closed is active all the while. *)
Opening == pc[Player] \in {"w_reopen", "w_opened"} \/ after[Player] = "w_opened"
Closed == pc[Player] = "w_reopen" \/ (pc[Player] = "w_open" /\ Player \in spIn)
StandbyInv ==
  /\ pc[Player] \in {"w_hw", "w_look", "w_in", "w_inhw", "w_open"} => audio.outStandby
  /\ audio.outStandby /\ ~Opening => ~audio.outPcm /\ ~audio.outMixer
  /\ Opening /\ audio.outMixer => audio.outPcm
  /\ pc[Recorder] \in {"r_hw", "r_look", "r_out", "r_in2", "r_hw2", "r_open"} => audio.inStandby
  /\ audio.inStandby => ~audio.inMixer
  /\ ~audio.inAlive => audio.inStandby
  /\ \A t \in Threads : pc[t] = "si_done" => audio.inStandby
  /\ Closed => ~audio.inStandby /\ ~audio.inMixer

InSetMode(t) == \/ pc[t] \in {"m_hw", "m_look", "m_out", "m_hw2", "m_lookin", "m_in", "m_hw3",
                              "m_body", "m_enter", "m_leave", "m_end"}
                \/ after[t] \in {"m_enter", "m_leave"}
(* The service changes the mode with a lock of its own held. *)
OneSetMode == \A s, t \in Threads : InSetMode(s) /\ InSetMode(t) => s = t

Entering(t) == "m_enter" \in {pc[t], after[t]}
Leaving(t) == "m_leave" \in {pc[t], after[t]}

ModeInv ==
  /\ \A t \in Threads : /\ Entering(t) => ~audio.mInCallAudioMode /\ audio.mMode = "in_call"
                        /\ Leaving(t) => audio.mMode # "in_call"
  /\ (audio.mInCallAudioMode <=> audio.mMode = "in_call")
       \/ \E t \in Threads : Entering(t) \/ Leaving(t)

StandbySteps == {"si_in", "si_hw", "ds", "ds_out", "ds_in", "ds_hw"}
RouteInv ==
  /\ \A t \in Threads : pc[t] = "m_body" /\ t \notin spIn => ~getActiveInput_l(audio)
  /\ \A t \in Threads : pc[t] \in {"m_in", "m_hw3"} => t \in spIn
  /\ getActiveInput_l(audio) /\ audio.inMixer /\ audio.mMode # "in_call" =>
       \/ RouteAsked(audio)
       \/ \E t \in spIn : pc[t] \in StandbySteps

InCall == audio.mInCallAudioMode /\ \A t \in Threads : ~Leaving(t)
CountInv == Granted => Counted(audio, InCall)

(* A step leaves every mutex with the thread whose code needs it. *)
LEMMA LockStep == TypeOK /\ LockInv /\ [Next]_vars => LockInv'
<1> SUFFICES ASSUME TypeOK, LockInv, [Next]_vars PROVE LockInv'
  OBVIOUS
<1> USE AudioAssumption
<1> USE DEF Goto, At, Begin, Take, Handover, Release, Held, LastIn, LastOut, CallDoStandby,
            DoStandbyReturn, sps, Servers, LockInput, LockOutput, LockHw, TypeOK, LockInv,
            Mutexes, KeepsOut, KeepsIn, KeepsHw, DoStandbyLabels, PlayerLabels, RecorderLabels
<1>1. ASSUME NEW t \in Threads,
             WriteBegin(t) \/ OutStandbyBegin(t) \/ OutSetParameters(t) \/ ReadBegin(t)
             \/ InStandbyBegin(t)
      PROVE  LockInv'
  BY <1>1 DEF WriteBegin, OutStandbyBegin, OutSetParameters, ReadBegin, InStandbyBegin
<1>2. ASSUME NEW t \in Threads,
             InSetParameters(t) \/ SetModeBegin(t)
      PROVE  LockInv'
  BY <1>2 DEF InSetParameters, SetModeBegin
<1>3. ASSUME NEW t \in Threads, SetMicMute(t) PROVE LockInv'
  BY <1>3 DEF SetMicMute
<1>4. ASSUME NEW t \in Threads, OpenOutputStream(t) PROVE LockInv'
  BY <1>4 DEF OpenOutputStream
<1>5. ASSUME NEW t \in Threads, CloseOutputStream(t) PROVE LockInv'
  BY <1>5 DEF CloseOutputStream
<1>6. ASSUME NEW t \in Threads, OpenInputStream(t) PROVE LockInv'
  BY <1>6 DEF OpenInputStream
<1>7. ASSUME NEW t \in Threads, CloseInputStream(t) PROVE LockInv'
  BY <1>7 DEF CloseInputStream
<1>8. ASSUME NEW t \in Threads, AudioEffect(t) PROVE LockInv'
  BY <1>8 DEF AudioEffect
<1>9. ASSUME NEW t \in Threads,
             WriteLock(t) \/ WriteLockHw(t) \/ LockInput(t, "w_in", "w_inhw")
             \/ WriteRecheck(t) \/ LockOutput(t, "so_out", "so_hw")
      PROVE  LockInv'
  BY <1>9 DEF WriteLock, WriteLockHw, WriteRecheck
<1>10. ASSUME NEW t \in Threads,
              OutStandbyHw(t) \/ LockOutput(t, "po_out", "po_hw") \/ OutSetParametersHw(t)
              \/ LockOutput(t, "ds_out", "ds_in") \/ LockInput(t, "ds_in", "ds_hw")
       PROVE  LockInv'
  BY <1>10 DEF OutStandbyHw, OutSetParametersHw
<1>11. ASSUME NEW t \in Threads, DoStandbyRelease(t) PROVE LockInv'
  BY <1>11 DEF DoStandbyRelease
<1>12. ASSUME NEW t \in Threads,
              LockInput(t, "si_in", "si_hw") \/ InStandbyHw(t)
              \/ LockInput(t, "pi_in", "pi_hw") \/ InSetSource(t) \/ InSetDevice(t)
       PROVE  LockInv'
  BY <1>12 DEF InStandbyHw, InSetSource, InSetDevice
<1>13. ASSUME NEW t \in Threads,
              ReadLock(t) \/ ReadLockHw(t) \/ LockOutput(t, "r_out", "r_in2")
              \/ LockInput(t, "r_in2", "r_hw2") \/ ReadReopenOutput(t)
       PROVE  LockInv'
  BY <1>13 DEF ReadLock, ReadLockHw, ReadReopenOutput
<1>14. ASSUME NEW t \in Threads,
              LockHw(t, "m_hw", "m_look") \/ LockOutput(t, "m_out", "m_hw2")
              \/ SetModeRecheckOut(t) \/ LockInput(t, "m_in", "m_hw3") \/ SetModeRecheckIn(t)
       PROVE  LockInv'
  BY <1>14 DEF SetModeRecheckOut, SetModeRecheckIn
<1>15. ASSUME NEW t \in Threads,
              WriteLook(t) \/ WriteOpen(t) \/ WriteReopenInput(t)
       PROVE  LockInv'
  BY <1>15 DEF WriteLook, LookForInput, WriteOpen, WriteReopenInput
<1>16. ASSUME NEW t \in Threads, WriteOpened(t) PROVE LockInv'
  BY <1>16 DEF WriteOpened
<1>17. ASSUME NEW t \in Threads,
              WritePcm(t) \/ DoStandby(t) \/ InStandbyDone(t) \/ InSetParametersDone(t)
              \/ ReadLook(t)
       PROVE  LockInv'
  BY <1>17 DEF WritePcm, DoStandby, InStandbyDone, InSetParametersDone, ReadLook
<1>18. ASSUME NEW t \in Threads,
              ReadOpen(t) \/ ReadPcm(t) \/ SetModeLookOut(t) \/ SetModeLookIn(t)
              \/ (\E mode \in Modes : SetModeBody(t, mode))
       PROVE  LockInv'
  BY <1>18 DEF ReadOpen, ReadPcm, SetModeLookOut, SetModeLookIn, LookForInput, SetModeBody
<1>19. ASSUME NEW t \in Threads, SetModeEnter(t) PROVE LockInv'
  BY <1>19 DEF SetModeEnter
<1>20. ASSUME NEW t \in Threads, SetModeLeave(t) PROVE LockInv'
  BY <1>20 DEF SetModeLeave
<1>21. ASSUME NEW t \in Threads,
              SetModeEnd(t) \/ DropInput(t) \/ DropOutput(t) \/ Return(t)
       PROVE  LockInv'
  BY <1>21 DEF SetModeEnd, DropInput, DropOutput, Return
<1>22. CASE UNCHANGED vars
  BY <1>22 DEF vars
<1> HIDE DEF TypeOK, LockInv
<1> QED BY <1>1, <1>2, <1>3, <1>4, <1>5, <1>6, <1>7, <1>8, <1>9, <1>10, <1>11, <1>12, <1>13,
           <1>14, <1>15, <1>16, <1>17, <1>18, <1>19, <1>20, <1>21, <1>22
       DEF Next, Start, Lock, Run

(* A step leaves the streams listed, alive and with a reference that is theirs. *)
LEMMA StreamStep ==
  ASSUME TypeOK, LockInv, StreamInv, [Next]_vars PROVE StreamInv'
<1> USE AudioAssumption
<1> USE DEF Goto, At, Begin, Take, Handover, Release, Held, LastIn, LastOut, CallDoStandby,
            DoStandbyReturn, sps, Servers, LockInput, LockOutput, LockHw, TypeOK, LockInv,
            StreamInv, Mutexes, PlayerLabels, RecorderLabels
<1>1. ASSUME NEW t \in Threads,
             WriteBegin(t) \/ OutStandbyBegin(t) \/ OutSetParameters(t) \/ ReadBegin(t)
             \/ InStandbyBegin(t)
      PROVE  StreamInv'
  BY <1>1 DEF WriteBegin, OutStandbyBegin, OutSetParameters, ReadBegin, InStandbyBegin
<1>2. ASSUME NEW t \in Threads,
             InSetParameters(t) \/ SetModeBegin(t)
      PROVE  StreamInv'
  BY <1>2 DEF InSetParameters, SetModeBegin
<1>3. ASSUME NEW t \in Threads, SetMicMute(t) PROVE StreamInv'
  BY <1>3 DEF SetMicMute, Audio
<1>4. ASSUME NEW t \in Threads, OpenOutputStream(t) PROVE StreamInv'
  BY <1>4 DEF OpenOutputStream, Audio
<1>5. ASSUME NEW t \in Threads, CloseOutputStream(t) PROVE StreamInv'
  BY <1>5 DEF CloseOutputStream, Audio
<1>6. ASSUME NEW t \in Threads, OpenInputStream(t) PROVE StreamInv'
  BY <1>6 DEF OpenInputStream, Audio
<1>7. ASSUME NEW t \in Threads, CloseInputStream(t) PROVE StreamInv'
  BY <1>7 DEF CloseInputStream, Audio
<1>8. ASSUME NEW t \in Threads, AudioEffect(t) PROVE StreamInv'
  BY <1>8 DEF AudioEffect, Audio
<1>9. ASSUME NEW t \in Threads,
             WriteLock(t) \/ WriteLockHw(t) \/ LockInput(t, "w_in", "w_inhw")
      PROVE  StreamInv'
  BY <1>9 DEF WriteLock, WriteLockHw
<1>10. ASSUME NEW t \in Threads, WriteRecheck(t) PROVE StreamInv'
  BY <1>10, RecheckStep
     DEF WriteRecheck, Same, SameCall, SameIn, SameInLife, SameOut, SameOutLife
<1>11. ASSUME NEW t \in Threads, LockOutput(t, "so_out", "so_hw") PROVE StreamInv'
  BY <1>11
<1>12. ASSUME NEW t \in Threads, OutStandbyHw(t) PROVE StreamInv'
  <2>1. /\ SameIn(audio, audio') /\ audio'.outListed = audio.outListed
        /\ audio'.outAlive <=> audio.outListed \/ spOut # {}
        /\ audio'.outEcho = IF audio.outListed \/ spOut # {} THEN audio.outEcho ELSE "none"
    BY <1>12, OutStandbyStep
  <2>2. /\ audio'.outListed => audio'.outAlive /\ audio'.outEcho # "stale"
        /\ ~audio'.outAlive => audio'.outEcho = "none"
    BY <2>1
  <2> QED BY <1>12, <2>1, <2>2 DEF OutStandbyHw, SameIn, SameInLife
<1>13. ASSUME NEW t \in Threads, LockOutput(t, "po_out", "po_hw") PROVE StreamInv'
  BY <1>13
<1>14. ASSUME NEW t \in Threads, OutSetParametersHw(t) PROVE StreamInv'
  BY <1>14, OutParametersStep
     DEF OutSetParametersHw, Same, SameCall, SameIn, SameInLife, SameOut, SameOutLife
<1>15. ASSUME NEW t \in Threads,
              LockOutput(t, "ds_out", "ds_in") \/ LockInput(t, "ds_in", "ds_hw")
       PROVE  StreamInv'
  BY <1>15
<1>16. ASSUME NEW t \in Threads, DoStandbyRelease(t) PROVE StreamInv'
  BY <1>16, ReleaseStep
     DEF DoStandbyRelease, Same, SameCall, SameIn, SameInLife, SameOut, SameOutLife
<1>17. ASSUME NEW t \in Threads,
              LockInput(t, "si_in", "si_hw") \/ InStandbyHw(t)
              \/ LockInput(t, "pi_in", "pi_hw")
       PROVE  StreamInv'
  BY <1>17 DEF InStandbyHw
<1>18. ASSUME NEW t \in Threads, InSetSource(t) PROVE StreamInv'
  BY <1>18, SourceStep
     DEF InSetSource, Same, SameCall, SameIn, SameInLife, SameOut, SameOutLife
<1>19. ASSUME NEW t \in Threads,
              InSetDevice(t) \/ ReadLock(t) \/ ReadLockHw(t)
              \/ LockOutput(t, "r_out", "r_in2") \/ LockInput(t, "r_in2", "r_hw2")
       PROVE  StreamInv'
  BY <1>19 DEF InSetDevice, ReadLock, ReadLockHw
<1>20. ASSUME NEW t \in Threads, ReadReopenOutput(t) PROVE StreamInv'
  BY <1>20, ReopenStep
     DEF ReadReopenOutput, Same, SameCall, SameIn, SameInLife, SameOut, SameOutLife
<1>21. ASSUME NEW t \in Threads,
              LockHw(t, "m_hw", "m_look") \/ LockOutput(t, "m_out", "m_hw2")
       PROVE  StreamInv'
  BY <1>21
<1>22. ASSUME NEW t \in Threads, SetModeRecheckOut(t) PROVE StreamInv'
  BY <1>22, LookStep
     DEF SetModeRecheckOut, Same, SameCall, SameIn, SameInLife, SameOut, SameOutLife
<1>23. ASSUME NEW t \in Threads, LockInput(t, "m_in", "m_hw3") PROVE StreamInv'
  BY <1>23
<1>24. ASSUME NEW t \in Threads, SetModeRecheckIn(t) PROVE StreamInv'
  BY <1>24, LookStep
     DEF SetModeRecheckIn, Same, SameCall, SameIn, SameInLife, SameOut, SameOutLife
<1>25. ASSUME NEW t \in Threads, WriteLook(t) PROVE StreamInv'
  BY <1>25, LookStep
     DEF WriteLook, LookForInput, Same, SameCall, SameIn, SameInLife, SameOut, SameOutLife
<1>26. ASSUME NEW t \in Threads, WriteOpen(t) PROVE StreamInv'
  BY <1>26, OpenStep DEF WriteOpen, Same, SameCall, SameIn, SameInLife, SameOut, SameOutLife
<1>27. ASSUME NEW t \in Threads, WriteReopenInput(t) PROVE StreamInv'
  BY <1>27, ReopenInputStep
     DEF WriteReopenInput, Same, SameCall, SameIn, SameInLife, SameOut, SameOutLife
<1>28. ASSUME NEW t \in Threads, WriteOpened(t) PROVE StreamInv'
  BY <1>28 DEF WriteOpened, Audio
<1>29. ASSUME NEW t \in Threads, WritePcm(t) PROVE StreamInv'
  BY <1>29 DEF WritePcm
<1>30. ASSUME NEW t \in Threads, DoStandby(t) PROVE StreamInv'
  BY <1>30, DoStandbyStep
     DEF DoStandby, Same, SameCall, SameIn, SameInLife, SameOut, SameOutLife
<1>31. ASSUME NEW t \in Threads, InStandbyDone(t) PROVE StreamInv'
  BY <1>31, StandbyDoneStep
     DEF InStandbyDone, Same, SameCall, SameIn, SameInLife, SameOut, SameOutLife
<1>32. ASSUME NEW t \in Threads,
              InSetParametersDone(t) \/ ReadLook(t)
       PROVE  StreamInv'
  BY <1>32 DEF InSetParametersDone, ReadLook
<1>33. ASSUME NEW t \in Threads, ReadOpen(t) PROVE StreamInv'
  BY <1>33, ReadOpenStep
     DEF ReadOpen, Same, SameCall, SameIn, SameInLife, SameOut, SameOutLife
<1>34. ASSUME NEW t \in Threads, ReadPcm(t) PROVE StreamInv'
  BY <1>34 DEF ReadPcm
<1>35. ASSUME NEW t \in Threads, SetModeLookOut(t) PROVE StreamInv'
  BY <1>35, LookStep
     DEF SetModeLookOut, Same, SameCall, SameIn, SameInLife, SameOut, SameOutLife
<1>36. ASSUME NEW t \in Threads, SetModeLookIn(t) PROVE StreamInv'
  BY <1>36, LookStep
     DEF SetModeLookIn, LookForInput, Same, SameCall, SameIn, SameInLife, SameOut, SameOutLife
<1>37. ASSUME NEW t \in Threads, NEW mode \in Modes, SetModeBody(t, mode) PROVE StreamInv'
  <2>1. SameIn(audio, audio') /\ SameOutLife(audio, audio')
    <3>1. audio \in Audio OBVIOUS
    <3> QED BY ONLY <3>1, <1>37, BodyStep, mode \in Modes, t \in Threads
  <2> QED BY <1>37, <2>1 DEF SetModeBody, SameIn, SameInLife, SameOutLife
<1>38. ASSUME NEW t \in Threads, SetModeEnter(t) PROVE StreamInv'
  BY <1>38, EnterStep
     DEF SetModeEnter, Same, SameCall, SameIn, SameInLife, SameOut, SameOutLife
<1>39. ASSUME NEW t \in Threads, SetModeLeave(t) PROVE StreamInv'
  BY <1>39 DEF SetModeLeave, Audio
<1>40. ASSUME NEW t \in Threads,
              SetModeEnd(t) \/ DropInput(t) \/ DropOutput(t) \/ Return(t)
       PROVE  StreamInv'
  BY <1>40 DEF SetModeEnd, DropInput, DropOutput, Return
<1>41. CASE UNCHANGED vars
  BY <1>41 DEF vars
<1> HIDE DEF TypeOK, LockInv, StreamInv
<1> QED BY <1>1, <1>2, <1>3, <1>4, <1>5, <1>6, <1>7, <1>8, <1>9, <1>10, <1>11, <1>12, <1>13,
           <1>14, <1>15, <1>16, <1>17, <1>18, <1>19, <1>20, <1>21, <1>22, <1>23, <1>24, <1>25,
           <1>26, <1>27, <1>28, <1>29, <1>30, <1>31, <1>32, <1>33, <1>34, <1>35, <1>36, <1>37,
           <1>38, <1>39, <1>40, <1>41
       DEF Next, Start, Lock, Run

(* A step leaves a stream in standby without its devices. *)
LEMMA StandbyStep ==
  ASSUME TypeOK, LockInv, StreamInv, StandbyInv, [Next]_vars PROVE StandbyInv'
<1> USE AudioAssumption
<1> USE DEF Goto, At, Begin, Take, Handover, Release, Held, LastIn, LastOut, CallDoStandby,
            DoStandbyReturn, sps, Servers, LockInput, LockOutput, LockHw, TypeOK, LockInv,
            StreamInv, StandbyInv, Opening, Closed, Mutexes, KeepsOut, KeepsIn, KeepsHw,
            DoStandbyLabels, PlayerLabels, RecorderLabels
<1>1. ASSUME NEW t \in Threads,
             WriteBegin(t) \/ OutStandbyBegin(t) \/ OutSetParameters(t) \/ ReadBegin(t)
             \/ InStandbyBegin(t)
      PROVE  StandbyInv'
  BY <1>1 DEF WriteBegin, OutStandbyBegin, OutSetParameters, ReadBegin, InStandbyBegin
<1>2. ASSUME NEW t \in Threads,
             InSetParameters(t) \/ SetModeBegin(t)
      PROVE  StandbyInv'
  BY <1>2 DEF InSetParameters, SetModeBegin
<1>3. ASSUME NEW t \in Threads, SetMicMute(t) PROVE StandbyInv'
  BY <1>3 DEF SetMicMute, Audio
<1>4. ASSUME NEW t \in Threads, OpenOutputStream(t) PROVE StandbyInv'
  BY <1>4 DEF OpenOutputStream, Audio
<1>5. ASSUME NEW t \in Threads, CloseOutputStream(t) PROVE StandbyInv'
  BY <1>5 DEF CloseOutputStream, Audio
<1>6. ASSUME NEW t \in Threads, OpenInputStream(t) PROVE StandbyInv'
  BY <1>6 DEF OpenInputStream, Audio
<1>7. ASSUME NEW t \in Threads, CloseInputStream(t) PROVE StandbyInv'
  BY <1>7 DEF CloseInputStream, Audio
<1>8. ASSUME NEW t \in Threads, AudioEffect(t) PROVE StandbyInv'
  BY <1>8 DEF AudioEffect, Audio
<1>9. ASSUME NEW t \in Threads,
             WriteLock(t) \/ WriteLockHw(t) \/ LockInput(t, "w_in", "w_inhw")
      PROVE  StandbyInv'
  BY <1>9 DEF WriteLock, WriteLockHw
<1>10. ASSUME NEW t \in Threads, WriteRecheck(t) PROVE StandbyInv'
  BY <1>10, RecheckStep
     DEF WriteRecheck, Same, SameCall, SameIn, SameInLife, SameOut, SameOutLife,
         getActiveInput_l
<1>11. ASSUME NEW t \in Threads, LockOutput(t, "so_out", "so_hw") PROVE StandbyInv'
  BY <1>11
<1>12. ASSUME NEW t \in Threads, OutStandbyHw(t) PROVE StandbyInv'
  <2>1. /\ SameIn(audio, audio') /\ audio'.outStandby
        /\ ~audio'.outPcm /\ ~audio'.outMixer
    BY <1>12, OutStandbyStep
  <2> QED BY <1>12, <2>1 DEF OutStandbyHw, SameIn, SameInLife
<1>13. ASSUME NEW t \in Threads, LockOutput(t, "po_out", "po_hw") PROVE StandbyInv'
  BY <1>13
<1>14. ASSUME NEW t \in Threads, OutSetParametersHw(t) PROVE StandbyInv'
  <2>1. /\ SameIn(audio, audio')
        /\ \/ SameOut(audio, audio')
           \/ audio'.outStandby /\ ~audio'.outPcm /\ ~audio'.outMixer
    BY <1>14, OutParametersStep
  <2> QED BY <1>14, <2>1 DEF OutSetParametersHw, SameIn, SameInLife, SameOut, SameOutLife
<1>15. ASSUME NEW t \in Threads,
              LockOutput(t, "ds_out", "ds_in") \/ LockInput(t, "ds_in", "ds_hw")
       PROVE  StandbyInv'
  BY <1>15
<1>16. ASSUME NEW t \in Threads, DoStandbyRelease(t) PROVE StandbyInv'
  <2>1. /\ SameInLife(audio, audio') /\ audio'.inStandby /\ ~audio'.inMixer
        /\ audio'.outStandby = audio.outStandby /\ audio'.outPcm = audio.outPcm
        /\ audio'.outMixer = audio.outMixer
    BY <1>16, ReleaseStep
  <2>2. /\ pc[t] = "ds_hw" /\ owner["hw"] = NoThread /\ spIn' = spIn
        /\ after[t] \in {"si_done", "pi_done", "m_enter", "m_leave"}
        /\ pc' = [pc EXCEPT ![t] = IF LastOut(t) THEN "so_out" ELSE after[t]]
        /\ after' = IF LastOut(t) THEN after ELSE [after EXCEPT ![t] = "idle"]
    BY <1>16 DEF DoStandbyRelease, Goto, At, Handover, DoStandbyReturn
  <2>3. pc[Player] \notin {"w_open", "w_reopen"} BY <2>2
  <2>4. ~Closed' BY <2>2, <2>3
  <2>5. Opening' <=> Opening BY <2>2
  <2> QED BY <2>1, <2>2, <2>4, <2>5 DEF SameInLife
<1>17. ASSUME NEW t \in Threads,
              LockInput(t, "si_in", "si_hw") \/ InStandbyHw(t)
              \/ LockInput(t, "pi_in", "pi_hw")
       PROVE  StandbyInv'
  BY <1>17 DEF InStandbyHw
<1>18. ASSUME NEW t \in Threads, InSetSource(t) PROVE StandbyInv'
  <2>1. SameIn(audio, audio') /\ SameOut(audio, audio')
    BY <1>18, SourceStep DEF Same
  <2> QED BY <1>18, <2>1 DEF InSetSource, SameIn, SameInLife, SameOut, SameOutLife
<1>19. ASSUME NEW t \in Threads,
              InSetDevice(t) \/ ReadLock(t) \/ ReadLockHw(t)
              \/ LockOutput(t, "r_out", "r_in2") \/ LockInput(t, "r_in2", "r_hw2")
       PROVE  StandbyInv'
  BY <1>19 DEF InSetDevice, ReadLock, ReadLockHw
<1>20. ASSUME NEW t \in Threads, ReadReopenOutput(t) PROVE StandbyInv'
  BY <1>20, ReopenStep
     DEF ReadReopenOutput, Same, SameCall, SameIn, SameInLife, SameOut, SameOutLife
<1>21. ASSUME NEW t \in Threads,
              LockHw(t, "m_hw", "m_look") \/ LockOutput(t, "m_out", "m_hw2")
       PROVE  StandbyInv'
  BY <1>21
<1>22. ASSUME NEW t \in Threads, SetModeRecheckOut(t) PROVE StandbyInv'
  BY <1>22, LookStep
     DEF SetModeRecheckOut, Same, SameCall, SameIn, SameInLife, SameOut, SameOutLife
<1>23. ASSUME NEW t \in Threads, LockInput(t, "m_in", "m_hw3") PROVE StandbyInv'
  BY <1>23
<1>24. ASSUME NEW t \in Threads, SetModeRecheckIn(t) PROVE StandbyInv'
  BY <1>24, LookStep
     DEF SetModeRecheckIn, Same, SameCall, SameIn, SameInLife, SameOut, SameOutLife
<1>25. ASSUME NEW t \in Threads, WriteLook(t) PROVE StandbyInv'
  BY <1>25, LookStep
     DEF WriteLook, LookForInput, Same, SameCall, SameIn, SameInLife, SameOut, SameOutLife,
         getActiveInput_l
<1>26. ASSUME NEW t \in Threads, WriteOpen(t) PROVE StandbyInv'
  <2>1. /\ SameIn(audio, audio') /\ audio'.outStandby = audio.outStandby
        /\ ~audio.outMixer /\ ~audio'.outPcm => ~audio'.outMixer
    BY <1>26, OpenStep
  <2> QED BY <1>26, <2>1 DEF WriteOpen, SameIn, SameInLife
<1>27. ASSUME NEW t \in Threads, WriteReopenInput(t) PROVE StandbyInv'
  BY <1>27, ReopenInputStep
     DEF WriteReopenInput, Same, SameCall, SameIn, SameInLife, SameOut, SameOutLife
<1>28. ASSUME NEW t \in Threads, WriteOpened(t) PROVE StandbyInv'
  BY <1>28 DEF WriteOpened, Audio
<1>29. ASSUME NEW t \in Threads, WritePcm(t) PROVE StandbyInv'
  BY <1>29 DEF WritePcm
<1>30. ASSUME NEW t \in Threads, DoStandby(t) PROVE StandbyInv'
  <2>1. /\ SameOut(audio, audio') /\ SameInLife(audio, audio')
        /\ IF HandsOver THEN SameIn(audio, audio') ELSE audio'.inStandby /\ ~audio'.inMixer
    BY <1>30, DoStandbyStep
  <2> QED BY <1>30, <2>1 DEF DoStandby, HandsOver, SameIn, SameInLife, SameOut, SameOutLife
<1>31. ASSUME NEW t \in Threads, InStandbyDone(t) PROVE StandbyInv'
  BY <1>31, StandbyDoneStep
     DEF InStandbyDone, Same, SameCall, SameIn, SameInLife, SameOut, SameOutLife
<1>32. ASSUME NEW t \in Threads,
              InSetParametersDone(t) \/ ReadLook(t)
       PROVE  StandbyInv'
  BY <1>32 DEF InSetParametersDone, ReadLook
<1>33. ASSUME NEW t \in Threads, ReadOpen(t) PROVE StandbyInv'
  BY <1>33, ReadOpenStep
     DEF ReadOpen, Same, SameCall, SameIn, SameInLife, SameOut, SameOutLife
<1>34. ASSUME NEW t \in Threads, ReadPcm(t) PROVE StandbyInv'
  BY <1>34 DEF ReadPcm
<1>35. ASSUME NEW t \in Threads, SetModeLookOut(t) PROVE StandbyInv'
  BY <1>35, LookStep
     DEF SetModeLookOut, Same, SameCall, SameIn, SameInLife, SameOut, SameOutLife
<1>36. ASSUME NEW t \in Threads, SetModeLookIn(t) PROVE StandbyInv'
  BY <1>36, LookStep
     DEF SetModeLookIn, LookForInput, Same, SameCall, SameIn, SameInLife, SameOut, SameOutLife
<1>37. ASSUME NEW t \in Threads, NEW mode \in Modes, SetModeBody(t, mode) PROVE StandbyInv'
  <2>1. /\ SameIn(audio, audio') /\ SameOutLife(audio, audio')
        /\ \/ SameOut(audio, audio')
           \/ audio'.outStandby /\ ~audio'.outPcm /\ ~audio'.outMixer
    <3>1. audio \in Audio OBVIOUS
    <3> QED BY ONLY <3>1, <1>37, BodyStep, mode \in Modes, t \in Threads
  <2> QED BY <1>37, <2>1 DEF SetModeBody, SameIn, SameInLife, SameOut, SameOutLife
<1>38. ASSUME NEW t \in Threads, SetModeEnter(t) PROVE StandbyInv'
  <2>1. SameIn(audio, audio') /\ SameOut(audio, audio')
    BY <1>38, EnterStep
  <2> QED BY <1>38, <2>1 DEF SetModeEnter, SameIn, SameInLife, SameOut, SameOutLife
<1>39. ASSUME NEW t \in Threads, SetModeLeave(t) PROVE StandbyInv'
  BY <1>39 DEF SetModeLeave, Audio
<1>40. ASSUME NEW t \in Threads,
              SetModeEnd(t) \/ DropInput(t) \/ DropOutput(t) \/ Return(t)
       PROVE  StandbyInv'
  BY <1>40 DEF SetModeEnd, DropInput, DropOutput, Return
<1>41. CASE UNCHANGED vars
  BY <1>41 DEF vars
<1> HIDE DEF TypeOK, LockInv, StreamInv, StandbyInv
<1> QED BY <1>1, <1>2, <1>3, <1>4, <1>5, <1>6, <1>7, <1>8, <1>9, <1>10, <1>11, <1>12, <1>13,
           <1>14, <1>15, <1>16, <1>17, <1>18, <1>19, <1>20, <1>21, <1>22, <1>23, <1>24, <1>25,
           <1>26, <1>27, <1>28, <1>29, <1>30, <1>31, <1>32, <1>33, <1>34, <1>35, <1>36, <1>37,
           <1>38, <1>39, <1>40, <1>41
       DEF Next, Start, Lock, Run

(* Nobody but setMode changes the mode or enters or leaves the call, and the
   counts follow the users. *)
Elsewhere ==
  /\ audio'.mMode = audio.mMode /\ audio'.mInCallAudioMode = audio.mInCallAudioMode
  /\ \A s \in Threads : (Entering(s)' <=> Entering(s)) /\ (Leaving(s)' <=> Leaving(s))
  /\ Granted => KeepsCount
SetModeAlone ==
  \E t \in Threads :
    (\E mode \in Modes : SetModeBody(t, mode)) \/ SetModeEnter(t) \/ SetModeLeave(t)

(* A step that is not one of setMode's three is elsewhere. *)
LEMMA ElsewhereStep ==
  ASSUME TypeOK, LockInv, StandbyInv, [Next]_vars PROVE Elsewhere \/ SetModeAlone
<1> USE AudioAssumption
<1> USE DEF Goto, At, Begin, Take, Handover, Release, Held, LastIn, LastOut, CallDoStandby,
            DoStandbyReturn, sps, Servers, LockInput, LockOutput, LockHw, TypeOK, LockInv,
            Mutexes, Labels, WaitsForOut, WaitsForIn, WaitsForHw, DoStandbyLabels,
            PlayerLabels, RecorderLabels, Entering, Leaving, Elsewhere
<1>1. ASSUME NEW t \in Threads,
             WriteBegin(t) \/ OutStandbyBegin(t) \/ OutSetParameters(t) \/ ReadBegin(t)
             \/ InStandbyBegin(t)
      PROVE  Elsewhere \/ SetModeAlone
  BY <1>1
     DEF WriteBegin, OutStandbyBegin, OutSetParameters, ReadBegin, InStandbyBegin, KeepsCount
<1>2. ASSUME NEW t \in Threads,
             InSetParameters(t) \/ SetModeBegin(t)
      PROVE  Elsewhere \/ SetModeAlone
  BY <1>2 DEF InSetParameters, SetModeBegin, KeepsCount
<1>3. ASSUME NEW t \in Threads, SetMicMute(t) PROVE Elsewhere \/ SetModeAlone
  <2>1. /\ audio'.mMode = audio.mMode /\ audio'.mInCallAudioMode = audio.mInCallAudioMode
        /\ KeepsCount
    BY <1>3 DEF SetMicMute, Audio, KeepsCount, Counted, Backed
  <2> QED BY <1>3, <2>1 DEF SetMicMute
<1>4. ASSUME NEW t \in Threads, OpenOutputStream(t) PROVE Elsewhere \/ SetModeAlone
  <2>1. /\ audio'.mMode = audio.mMode /\ audio'.mInCallAudioMode = audio.mInCallAudioMode
        /\ KeepsCount
    BY <1>4 DEF OpenOutputStream, Audio, KeepsCount, Counted, Backed
  <2> QED BY <1>4, <2>1 DEF OpenOutputStream
<1>5. ASSUME NEW t \in Threads, CloseOutputStream(t) PROVE Elsewhere \/ SetModeAlone
  <2>1. /\ audio'.mMode = audio.mMode /\ audio'.mInCallAudioMode = audio.mInCallAudioMode
        /\ KeepsCount
    BY <1>5 DEF CloseOutputStream, Audio, KeepsCount, Counted, Backed
  <2> QED BY <1>5, <2>1 DEF CloseOutputStream
<1>6. ASSUME NEW t \in Threads, OpenInputStream(t) PROVE Elsewhere \/ SetModeAlone
  <2>1. /\ audio'.mMode = audio.mMode /\ audio'.mInCallAudioMode = audio.mInCallAudioMode
        /\ KeepsCount
    BY <1>6 DEF OpenInputStream, Audio, KeepsCount, Counted, Backed
  <2> QED BY <1>6, <2>1 DEF OpenInputStream
<1>7. ASSUME NEW t \in Threads, CloseInputStream(t) PROVE Elsewhere \/ SetModeAlone
  <2>1. /\ audio'.mMode = audio.mMode /\ audio'.mInCallAudioMode = audio.mInCallAudioMode
        /\ KeepsCount
    BY <1>7 DEF CloseInputStream, Audio, KeepsCount, Counted, Backed
  <2> QED BY <1>7, <2>1 DEF CloseInputStream
<1>8. ASSUME NEW t \in Threads, AudioEffect(t) PROVE Elsewhere \/ SetModeAlone
  <2>1. /\ audio'.mMode = audio.mMode /\ audio'.mInCallAudioMode = audio.mInCallAudioMode
        /\ KeepsCount
    BY <1>8 DEF AudioEffect, Audio, KeepsCount, Counted, Backed
  <2> QED BY <1>8, <2>1 DEF AudioEffect
<1>9. ASSUME NEW t \in Threads,
             WriteLock(t) \/ WriteLockHw(t) \/ LockInput(t, "w_in", "w_inhw")
      PROVE  Elsewhere \/ SetModeAlone
  BY <1>9 DEF WriteLock, WriteLockHw, KeepsCount
<1>10. ASSUME NEW t \in Threads, WriteRecheck(t) PROVE Elsewhere \/ SetModeAlone
  <2>1. SameCall(audio, audio') /\ KeepsCount
    BY <1>10, RecheckStep
  <2> QED BY <1>10, <2>1 DEF WriteRecheck, SameCall
<1>11. ASSUME NEW t \in Threads, LockOutput(t, "so_out", "so_hw") PROVE Elsewhere \/ SetModeAlone
  BY <1>11 DEF KeepsCount
<1>12. ASSUME NEW t \in Threads, OutStandbyHw(t) PROVE Elsewhere \/ SetModeAlone
  <2>1. SameCall(audio, audio') /\ KeepsCount
    BY <1>12, OutStandbyStep
  <2> QED BY <1>12, <2>1 DEF OutStandbyHw, SameCall
<1>13. ASSUME NEW t \in Threads, LockOutput(t, "po_out", "po_hw") PROVE Elsewhere \/ SetModeAlone
  BY <1>13 DEF KeepsCount
<1>14. ASSUME NEW t \in Threads, OutSetParametersHw(t) PROVE Elsewhere \/ SetModeAlone
  <2>1. SameCall(audio, audio') /\ KeepsCount
    BY <1>14, OutParametersStep
  <2> QED BY <1>14, <2>1 DEF OutSetParametersHw, SameCall
<1>15. ASSUME NEW t \in Threads,
              LockOutput(t, "ds_out", "ds_in") \/ LockInput(t, "ds_in", "ds_hw")
       PROVE  Elsewhere \/ SetModeAlone
  BY <1>15 DEF KeepsCount
<1>16. ASSUME NEW t \in Threads, DoStandbyRelease(t) PROVE Elsewhere \/ SetModeAlone
  <2>1. SameCall(audio, audio') /\ KeepsCount
    BY <1>16, ReleaseStep
  <2>2. /\ pc[t] = "ds_hw"
        /\ pc' = [pc EXCEPT ![t] = IF LastOut(t) THEN "so_out" ELSE after[t]]
        /\ after' = IF LastOut(t) THEN after ELSE [after EXCEPT ![t] = "idle"]
    BY <1>16 DEF DoStandbyRelease, Goto, At, DoStandbyReturn
  <2> QED BY <2>1, <2>2 DEF SameCall
<1>17. ASSUME NEW t \in Threads,
              LockInput(t, "si_in", "si_hw") \/ InStandbyHw(t)
              \/ LockInput(t, "pi_in", "pi_hw")
       PROVE  Elsewhere \/ SetModeAlone
  BY <1>17 DEF InStandbyHw, KeepsCount
<1>18. ASSUME NEW t \in Threads, InSetSource(t) PROVE Elsewhere \/ SetModeAlone
  <2>1. SameCall(audio, audio') /\ (Granted => KeepsCount)
    BY <1>18, SourceStep DEF Same
  <2> QED BY <1>18, <2>1 DEF InSetSource, SameCall
<1>19. ASSUME NEW t \in Threads,
              InSetDevice(t) \/ ReadLock(t) \/ ReadLockHw(t)
              \/ LockOutput(t, "r_out", "r_in2") \/ LockInput(t, "r_in2", "r_hw2")
       PROVE  Elsewhere \/ SetModeAlone
  BY <1>19 DEF InSetDevice, ReadLock, ReadLockHw, KeepsCount
<1>20. ASSUME NEW t \in Threads, ReadReopenOutput(t) PROVE Elsewhere \/ SetModeAlone
  <2>1. SameCall(audio, audio') /\ (Granted => KeepsCount)
    BY <1>20, ReopenStep
  <2> QED BY <1>20, <2>1 DEF ReadReopenOutput, SameCall
<1>21. ASSUME NEW t \in Threads,
              LockHw(t, "m_hw", "m_look") \/ LockOutput(t, "m_out", "m_hw2")
       PROVE  Elsewhere \/ SetModeAlone
  BY <1>21 DEF KeepsCount
<1>22. ASSUME NEW t \in Threads, SetModeRecheckOut(t) PROVE Elsewhere \/ SetModeAlone
  <2>1. SameCall(audio, audio') /\ KeepsCount
    BY <1>22, LookStep DEF Same
  <2> QED BY <1>22, <2>1 DEF SetModeRecheckOut, SameCall
<1>23. ASSUME NEW t \in Threads, LockInput(t, "m_in", "m_hw3") PROVE Elsewhere \/ SetModeAlone
  BY <1>23 DEF KeepsCount
<1>24. ASSUME NEW t \in Threads, SetModeRecheckIn(t) PROVE Elsewhere \/ SetModeAlone
  <2>1. SameCall(audio, audio') /\ KeepsCount
    BY <1>24, LookStep DEF Same
  <2> QED BY <1>24, <2>1 DEF SetModeRecheckIn, SameCall
<1>25. ASSUME NEW t \in Threads, WriteLook(t) PROVE Elsewhere \/ SetModeAlone
  <2>1. SameCall(audio, audio') /\ KeepsCount
    BY <1>25, LookStep DEF Same
  <2> QED BY <1>25, <2>1 DEF WriteLook, LookForInput, SameCall
<1>26. ASSUME NEW t \in Threads, WriteOpen(t) PROVE Elsewhere \/ SetModeAlone
  <2>1. SameCall(audio, audio') /\ (Granted => KeepsCount)
    BY <1>26, OpenStep DEF StandbyInv, Opening, At, WriteOpen
  <2> QED BY <1>26, <2>1 DEF WriteOpen, SameCall
<1>27. ASSUME NEW t \in Threads, WriteReopenInput(t) PROVE Elsewhere \/ SetModeAlone
  <2>1. SameCall(audio, audio') /\ (Granted => KeepsCount)
    BY <1>27, ReopenInputStep DEF StandbyInv, Closed, At, WriteReopenInput
  <2> QED BY <1>27, <2>1 DEF WriteReopenInput, SameCall
<1>28. ASSUME NEW t \in Threads, WriteOpened(t) PROVE Elsewhere \/ SetModeAlone
  <2>1. /\ audio'.mMode = audio.mMode /\ audio'.mInCallAudioMode = audio.mInCallAudioMode
        /\ KeepsCount
    BY <1>28 DEF WriteOpened, Audio, KeepsCount, Counted, Backed
  <2> QED BY <1>28, <2>1 DEF WriteOpened
<1>29. ASSUME NEW t \in Threads, WritePcm(t) PROVE Elsewhere \/ SetModeAlone
  BY <1>29 DEF WritePcm, KeepsCount
<1>30. ASSUME NEW t \in Threads, DoStandby(t) PROVE Elsewhere \/ SetModeAlone
  <2>1. SameCall(audio, audio') /\ KeepsCount
    BY <1>30, DoStandbyStep
  <2> QED BY <1>30, <2>1 DEF DoStandby, SameCall
<1>31. ASSUME NEW t \in Threads, InStandbyDone(t) PROVE Elsewhere \/ SetModeAlone
  <2>1. SameCall(audio, audio') /\ KeepsCount
    BY <1>31, StandbyDoneStep
  <2> QED BY <1>31, <2>1 DEF InStandbyDone, SameCall
<1>32. ASSUME NEW t \in Threads,
              InSetParametersDone(t) \/ ReadLook(t)
       PROVE  Elsewhere \/ SetModeAlone
  BY <1>32 DEF InSetParametersDone, ReadLook, KeepsCount
<1>33. ASSUME NEW t \in Threads, ReadOpen(t) PROVE Elsewhere \/ SetModeAlone
  <2>1. SameCall(audio, audio') /\ (Granted => KeepsCount)
    BY <1>33, ReadOpenStep DEF StandbyInv, At, ReadOpen
  <2> QED BY <1>33, <2>1 DEF ReadOpen, SameCall
<1>34. ASSUME NEW t \in Threads, ReadPcm(t) PROVE Elsewhere \/ SetModeAlone
  BY <1>34 DEF ReadPcm, KeepsCount
<1>35. ASSUME NEW t \in Threads, SetModeLookOut(t) PROVE Elsewhere \/ SetModeAlone
  <2>1. SameCall(audio, audio') /\ KeepsCount
    BY <1>35, LookStep DEF Same
  <2> QED BY <1>35, <2>1 DEF SetModeLookOut, SameCall
<1>36. ASSUME NEW t \in Threads, SetModeLookIn(t) PROVE Elsewhere \/ SetModeAlone
  <2>1. SameCall(audio, audio') /\ KeepsCount
    BY <1>36, LookStep DEF Same
  <2> QED BY <1>36, <2>1 DEF SetModeLookIn, LookForInput, SameCall
<1>37. ASSUME NEW t \in Threads, NEW mode \in Modes, SetModeBody(t, mode)
      PROVE  Elsewhere \/ SetModeAlone
  BY <1>37 DEF SetModeAlone
<1>38. ASSUME NEW t \in Threads, SetModeEnter(t) PROVE Elsewhere \/ SetModeAlone
  BY <1>38 DEF SetModeAlone
<1>39. ASSUME NEW t \in Threads, SetModeLeave(t) PROVE Elsewhere \/ SetModeAlone
  BY <1>39 DEF SetModeAlone
<1>40. ASSUME NEW t \in Threads,
              SetModeEnd(t) \/ DropInput(t) \/ DropOutput(t) \/ Return(t)
       PROVE  Elsewhere \/ SetModeAlone
  BY <1>40 DEF SetModeEnd, DropInput, DropOutput, Return, KeepsCount
<1>41. CASE UNCHANGED vars
  BY <1>41 DEF vars, KeepsCount
<1> HIDE DEF TypeOK, LockInv, Elsewhere
<1> QED BY <1>1, <1>2, <1>3, <1>4, <1>5, <1>6, <1>7, <1>8, <1>9, <1>10, <1>11, <1>12, <1>13,
           <1>14, <1>15, <1>16, <1>17, <1>18, <1>19, <1>20, <1>21, <1>22, <1>23, <1>24, <1>25,
           <1>26, <1>27, <1>28, <1>29, <1>30, <1>31, <1>32, <1>33, <1>34, <1>35, <1>36, <1>37,
           <1>38, <1>39, <1>40, <1>41
       DEF Next, Start, Lock, Run

(* With one setMode at a time nobody else is anywhere in one. *)
LEMMA NobodyElse ==
  ASSUME OneSetMode, NEW t \in Threads, InSetMode(t)
  PROVE  \A s \in Threads : s # t => ~InSetMode(s) /\ ~Entering(s) /\ ~Leaving(s)
  BY DEF OneSetMode, InSetMode, Entering, Leaving

(* setMode's body enters the call, leaves it, or does neither. *)
LEMMA BodyWhere ==
  ASSUME TypeOK, LockInv, OneSetMode, NEW t \in Threads, NEW mode \in Modes, SetModeBody(t, mode)
  PROVE  LET entering == mode = "in_call" /\ ~audio.mInCallAudioMode
             leaving == mode # "in_call" /\ audio.mInCallAudioMode
             change == mode # audio.mMode /\ (entering \/ leaving)
         IN  /\ \A s \in Threads : ~Entering(s) /\ ~Leaving(s)
             /\ \A s \in Threads : s # t => ~Entering(s)' /\ ~Leaving(s)'
             /\ Entering(t)' <=> change /\ entering
             /\ Leaving(t)' <=> change /\ leaving
<1> DEFINE entering == mode = "in_call" /\ ~audio.mInCallAudioMode
           leaving == mode # "in_call" /\ audio.mInCallAudioMode
           change == mode # audio.mMode /\ (entering \/ leaving)
           next == IF entering THEN "m_enter" ELSE "m_leave"
<1>1. pc[t] = "m_body" /\ after[t] = "idle" /\ InSetMode(t)
  BY DEF SetModeBody, At, LockInv, DoStandbyLabels, InSetMode
<1>2. \A s \in Threads : ~Entering(s) /\ ~Leaving(s)
  BY <1>1, NobodyElse DEF Entering, Leaving
<1>3. \/ ~change /\ pc' = [pc EXCEPT ![t] = "m_end"] /\ after' = after
      \/ change /\ pc' = [pc EXCEPT ![t] = "ds"] /\ after' = [after EXCEPT ![t] = next]
      \/ change /\ pc' = [pc EXCEPT ![t] = next] /\ after' = after
  <2>1. CASE change
    BY <2>1 DEF SetModeBody, CallDoStandby, Goto
  <2>2. CASE ~change
    BY <2>2 DEF SetModeBody, Goto
  <2> QED BY <2>1, <2>2
<1>4. change => (next = "m_enter" <=> entering) /\ (next = "m_leave" <=> leaving)
  OBVIOUS
<1>5. change => next \in {"m_enter", "m_leave"} OBVIOUS
<1> HIDE DEF change, next, entering, leaving
<1>6. \A s \in Threads : s # t => pc'[s] = pc[s] /\ after'[s] = after[s]
  BY <1>3 DEF TypeOK
<1>7. \A s \in Threads : s # t => ~Entering(s)' /\ ~Leaving(s)'
  BY <1>2, <1>6 DEF Entering, Leaving
<1>8. (Entering(t)' <=> change /\ entering) /\ (Leaving(t)' <=> change /\ leaving)
  BY <1>1, <1>3, <1>4, <1>5 DEF TypeOK, Entering, Leaving
<1> QED BY <1>2, <1>7, <1>8 DEF change, entering, leaving

(* The other two steps of setMode end the entering or the leaving. *)
LEMMA EndWhere ==
  ASSUME TypeOK, LockInv, OneSetMode, NEW t \in Threads, SetModeEnter(t) \/ SetModeLeave(t)
  PROVE  /\ \A s \in Threads : ~Entering(s)' /\ ~Leaving(s)'
         /\ SetModeEnter(t) => Entering(t) /\ \A s \in Threads : ~Leaving(s)
         /\ SetModeLeave(t) => Leaving(t) /\ \A s \in Threads : ~Entering(s)
<1>1. pc[t] \in {"m_enter", "m_leave"} /\ after[t] = "idle" /\ InSetMode(t)
  BY DEF SetModeEnter, SetModeLeave, At, LockInv, DoStandbyLabels, InSetMode
<1>2. pc' = [pc EXCEPT ![t] = "m_end"] /\ after' = after
  BY DEF SetModeEnter, SetModeLeave, Goto
<1>3. \A s \in Threads : s # t => ~Entering(s) /\ ~Leaving(s)
  BY <1>1, NobodyElse
<1>4. \A s \in Threads : ~Entering(s)' /\ ~Leaving(s)'
  BY <1>1, <1>2, <1>3 DEF TypeOK, Entering, Leaving
<1>5. SetModeEnter(t) => pc[t] = "m_enter" BY DEF SetModeEnter, At
<1>6. SetModeLeave(t) => pc[t] = "m_leave" BY DEF SetModeLeave, At
<1>7. /\ SetModeEnter(t) => Entering(t) /\ ~Leaving(t)
      /\ SetModeLeave(t) => Leaving(t) /\ ~Entering(t)
  BY <1>1, <1>5, <1>6 DEF Entering, Leaving
<1> QED BY <1>3, <1>4, <1>7

LEMMA ModeStep ==
  ASSUME TypeOK, LockInv, StandbyInv, ModeInv, OneSetMode, [Next]_vars PROVE ModeInv'
<1>1. CASE Elsewhere
  BY <1>1 DEF Elsewhere, ModeInv
<1>2. ASSUME NEW t \in Threads, NEW mode \in Modes, SetModeBody(t, mode) PROVE ModeInv'
  <2> DEFINE entering == mode = "in_call" /\ ~audio.mInCallAudioMode
             leaving == mode # "in_call" /\ audio.mInCallAudioMode
             change == mode # audio.mMode /\ (entering \/ leaving)
  <2>1. /\ \A s \in Threads : ~Entering(s) /\ ~Leaving(s)
        /\ \A s \in Threads : s # t => ~Entering(s)' /\ ~Leaving(s)'
        /\ Entering(t)' <=> change /\ entering
        /\ Leaving(t)' <=> change /\ leaving
    BY <1>2, BodyWhere
  <2>2. audio'.mMode = mode /\ audio'.mInCallAudioMode = audio.mInCallAudioMode
    <3>1. audio \in Audio BY DEF TypeOK
    <3> QED BY ONLY <3>1, <1>2, BodyStep, mode \in Modes, t \in Threads
  <2>3. audio.mInCallAudioMode <=> audio.mMode = "in_call" BY <2>1 DEF ModeInv
  <2> QED BY <2>1, <2>2, <2>3 DEF ModeInv
<1>3. ASSUME NEW t \in Threads, SetModeEnter(t) PROVE ModeInv'
  <2>1. audio'.mMode = audio.mMode /\ audio'.mInCallAudioMode
    BY <1>3, EnterStep DEF TypeOK
  <2> QED BY <1>3, <2>1, EndWhere DEF ModeInv
<1>4. ASSUME NEW t \in Threads, SetModeLeave(t) PROVE ModeInv'
  <2>1. audio'.mMode = audio.mMode /\ ~audio'.mInCallAudioMode
    BY <1>4 DEF SetModeLeave, TypeOK, Audio
  <2> QED BY <1>4, <2>1, EndWhere DEF ModeInv
<1> QED BY <1>1, <1>2, <1>3, <1>4, ElsewhereStep DEF SetModeAlone

LEMMA CountStep ==
  ASSUME TypeOK, LockInv, StandbyInv, ModeInv, CountInv, OneSetMode, [Next]_vars, UNCHANGED env
  PROVE  CountInv'
<1> SUFFICES ASSUME Granted PROVE Counted(audio', InCall')
  BY DEF CountInv, Granted
<1>0. Counted(audio, InCall) /\ audio \in Audio /\ audio.mInCallAudioMode \in BOOLEAN
  BY DEF CountInv, TypeOK, Audio
<1>1. CASE Elsewhere
  <2>1. InCall' <=> InCall BY <1>1 DEF Elsewhere, InCall
  <2>2. InCall \in BOOLEAN /\ InCall' \in BOOLEAN BY DEF InCall
  <2>3. KeepsCount BY <1>1 DEF Elsewhere
  <2> QED BY <1>0, <2>1, <2>2, <2>3 DEF KeepsCount
<1>2. ASSUME NEW t \in Threads, NEW mode \in Modes, SetModeBody(t, mode)
      PROVE  Counted(audio', InCall')
  <2> DEFINE entering == mode = "in_call" /\ ~audio.mInCallAudioMode
             leaving == mode # "in_call" /\ audio.mInCallAudioMode
             change == mode # audio.mMode /\ (entering \/ leaving)
  <2>1. /\ \A s \in Threads : ~Entering(s) /\ ~Leaving(s)
        /\ \A s \in Threads : s # t => ~Entering(s)' /\ ~Leaving(s)'
        /\ Entering(t)' <=> change /\ entering
        /\ Leaving(t)' <=> change /\ leaving
    BY <1>2, BodyWhere
  <2>2. /\ audio'.mInCallAudioMode = audio.mInCallAudioMode
        /\ IF change /\ leaving THEN Counted(audio, TRUE) => Counted(audio', FALSE)
           ELSE KeepsCount
    BY ONLY <1>0, <1>2, BodyStep, mode \in Modes, t \in Threads
  <2> HIDE DEF entering
  <2>3. CASE change /\ leaving
    <3>1. InCall = TRUE BY <2>1, <2>3 DEF InCall
    <3>2. InCall' = FALSE BY <2>1, <2>3 DEF InCall
    <3> QED BY <1>0, <2>2, <2>3, <3>1, <3>2
  <2>4. CASE ~(change /\ leaving)
    <3> HIDE DEF change, leaving
    <3>1. InCall = audio.mInCallAudioMode BY <1>0, <2>1 DEF InCall
    <3>2. InCall' = audio.mInCallAudioMode BY <1>0, <2>1, <2>2, <2>4 DEF InCall
    <3>3. KeepsCount BY <2>2, <2>4
    <3> QED BY <1>0, <3>1, <3>2, <3>3 DEF KeepsCount
  <2> QED BY <2>3, <2>4
<1>3. ASSUME NEW t \in Threads, SetModeEnter(t) PROVE Counted(audio', InCall')
  <2>1. /\ audio'.mInCallAudioMode
        /\ Granted /\ Counted(audio, FALSE) => Counted(audio', TRUE)
    BY <1>0, <1>3, EnterStep
  <2>2. InCall = FALSE BY <1>3, EndWhere DEF ModeInv, InCall
  <2>3. InCall' = TRUE BY <1>3, <2>1, EndWhere DEF InCall
  <2> QED BY <1>0, <2>1, <2>2, <2>3
<1>4. ASSUME NEW t \in Threads, SetModeLeave(t) PROVE Counted(audio', InCall')
  <2>1. /\ ~audio'.mInCallAudioMode
        /\ Counted(audio, FALSE) => Counted(audio', FALSE)
    BY <1>0, <1>4 DEF SetModeLeave, Audio, Counted, Backed
  <2>2. InCall = FALSE BY <1>4, EndWhere DEF InCall
  <2>3. InCall' = FALSE BY <2>1 DEF InCall
  <2> QED BY <1>0, <2>1, <2>2, <2>3
<1> QED BY <1>1, <1>2, <1>3, <1>4, ElsewhereStep DEF SetModeAlone

(* What the input's route depends on. *)
SameRoute(a, b) == /\ b.inListed = a.inListed /\ b.inStandby = a.inStandby
                   /\ b.inMixer = a.inMixer /\ b.inRoute = a.inRoute
                   /\ b.mMode = a.mMode /\ b.mMicMute = a.mMicMute

(* A step leaves the active input with the route the mute asks for, or with a
   thread on its way to put it in standby. *)
LEMMA RouteStep ==
  ASSUME TypeOK, LockInv, StreamInv, StandbyInv, ModeInv, RouteInv, OneSetMode, [Next]_vars
  PROVE  RouteInv'
<1> USE AudioAssumption
<1> USE DEF Goto, At, Begin, Take, Handover, Release, Held, LastIn, LastOut, CallDoStandby,
            DoStandbyReturn, sps, Servers, LockInput, LockOutput, LockHw, TypeOK, LockInv,
            KeepsHw, RouteInv, StandbySteps, getActiveInput_l, RouteAsked, Mutexes
<1>1. ASSUME NEW t \in Threads,
             WriteBegin(t) \/ OutStandbyBegin(t) \/ OutSetParameters(t) \/ ReadBegin(t)
             \/ InStandbyBegin(t)
      PROVE  RouteInv'
  BY <1>1 DEF WriteBegin, OutStandbyBegin, OutSetParameters, ReadBegin, InStandbyBegin
<1>2. ASSUME NEW t \in Threads,
             InSetParameters(t) \/ SetModeBegin(t)
      PROVE  RouteInv'
  BY <1>2 DEF InSetParameters, SetModeBegin
<1>3. ASSUME NEW t \in Threads, SetMicMute(t) PROVE RouteInv'
  BY <1>3 DEF SetMicMute, Audio
<1>4. ASSUME NEW t \in Threads, OpenOutputStream(t) PROVE RouteInv'
  BY <1>4 DEF OpenOutputStream, Audio
<1>5. ASSUME NEW t \in Threads, CloseOutputStream(t) PROVE RouteInv'
  <2>1. SameRoute(audio, audio')
    BY <1>5, audio \in Audio DEF CloseOutputStream, Audio, SameRoute
  <2> QED BY <1>5, <2>1 DEF CloseOutputStream, SameRoute
<1>6. ASSUME NEW t \in Threads, OpenInputStream(t) PROVE RouteInv'
  BY <1>6 DEF OpenInputStream, Audio, StandbyInv
<1>7. ASSUME NEW t \in Threads, CloseInputStream(t) PROVE RouteInv'
  BY <1>7 DEF CloseInputStream, Audio
<1>8. ASSUME NEW t \in Threads, AudioEffect(t) PROVE RouteInv'
  <2>1. SameRoute(audio, audio')
    BY <1>8, audio \in Audio DEF AudioEffect, Audio, SameRoute
  <2> QED BY <1>8, <2>1 DEF AudioEffect, SameRoute
<1>9. ASSUME NEW t \in Threads,
             WriteLock(t) \/ WriteLockHw(t) \/ LockInput(t, "w_in", "w_inhw")
      PROVE  RouteInv'
  BY <1>9 DEF WriteLock, WriteLockHw
<1>10. ASSUME NEW t \in Threads, WriteRecheck(t) PROVE RouteInv'
  <2>1. /\ audio'.inMixer => SameRoute(audio, audio')
        /\ audio'.inListed = audio.inListed /\ audio'.inStandby = audio.inStandby
    BY <1>10, RecheckStep DEF SameCall, SameIn, SameInLife, Same, SameRoute
  <2> QED BY <1>10, <2>1 DEF WriteRecheck, SameRoute
<1>11. ASSUME NEW t \in Threads, LockOutput(t, "so_out", "so_hw") PROVE RouteInv'
  BY <1>11
<1>12. ASSUME NEW t \in Threads, OutStandbyHw(t) PROVE RouteInv'
  <2>1. SameRoute(audio, audio')
    BY <1>12, OutStandbyStep DEF SameCall, SameIn, SameInLife, Same, SameRoute
  <2> QED BY <1>12, <2>1 DEF OutStandbyHw, SameRoute
<1>13. ASSUME NEW t \in Threads, LockOutput(t, "po_out", "po_hw") PROVE RouteInv'
  BY <1>13
<1>14. ASSUME NEW t \in Threads, OutSetParametersHw(t) PROVE RouteInv'
  <2>1. SameRoute(audio, audio')
    BY <1>14, OutParametersStep DEF SameCall, SameIn, SameInLife, Same, SameRoute
  <2> QED BY <1>14, <2>1 DEF OutSetParametersHw, SameRoute
<1>15. ASSUME NEW t \in Threads,
              LockOutput(t, "ds_out", "ds_in") \/ LockInput(t, "ds_in", "ds_hw")
       PROVE  RouteInv'
  BY <1>15
<1>16. ASSUME NEW t \in Threads, DoStandbyRelease(t) PROVE RouteInv'
  <2>1. audio'.inStandby
    BY <1>16, ReleaseStep
  <2>2. /\ pc[t] = "ds_hw" /\ spIn' = spIn
        /\ after[t] \in {"si_done", "pi_done", "w_opened", "m_enter", "m_leave"}
        /\ pc' = [pc EXCEPT ![t] = IF LastOut(t) THEN "so_out" ELSE after[t]]
    BY <1>16 DEF DoStandbyRelease, Goto, At, DoStandbyReturn, DoStandbyLabels
  <2> QED BY <2>1, <2>2
<1>17. ASSUME NEW t \in Threads,
              LockInput(t, "si_in", "si_hw") \/ InStandbyHw(t)
              \/ LockInput(t, "pi_in", "pi_hw")
       PROVE  RouteInv'
  BY <1>17 DEF InStandbyHw
<1>18. ASSUME NEW t \in Threads, InSetSource(t) PROVE RouteInv'
  <2>1. SameRoute(audio, audio')
    BY <1>18, SourceStep DEF SameCall, SameIn, SameInLife, Same, SameRoute
  <2> QED BY <1>18, <2>1 DEF InSetSource, SameRoute
<1>19. ASSUME NEW t \in Threads,
              InSetDevice(t) \/ ReadLock(t) \/ ReadLockHw(t)
              \/ LockOutput(t, "r_out", "r_in2") \/ LockInput(t, "r_in2", "r_hw2")
       PROVE  RouteInv'
  BY <1>19 DEF InSetDevice, ReadLock, ReadLockHw
<1>20. ASSUME NEW t \in Threads, ReadReopenOutput(t) PROVE RouteInv'
  <2>1. SameRoute(audio, audio')
    BY <1>20, ReopenStep DEF SameCall, SameIn, SameInLife, Same, SameRoute
  <2> QED BY <1>20, <2>1 DEF ReadReopenOutput, SameRoute
<1>21. ASSUME NEW t \in Threads,
              LockHw(t, "m_hw", "m_look") \/ LockOutput(t, "m_out", "m_hw2")
       PROVE  RouteInv'
  BY <1>21
<1>22. ASSUME NEW t \in Threads, SetModeRecheckOut(t) PROVE RouteInv'
  <2>1. SameRoute(audio, audio')
    BY <1>22, LookStep DEF SameCall, SameIn, SameInLife, Same, SameRoute
  <2> QED BY <1>22, <2>1 DEF SetModeRecheckOut, SameRoute
<1>23. ASSUME NEW t \in Threads, LockInput(t, "m_in", "m_hw3") PROVE RouteInv'
  BY <1>23
<1>24. ASSUME NEW t \in Threads, SetModeRecheckIn(t) PROVE RouteInv'
  <2>1. SameRoute(audio, audio')
    BY <1>24, LookStep DEF SameCall, SameIn, SameInLife, Same, SameRoute
  <2> QED BY <1>24, <2>1 DEF SetModeRecheckIn, SameRoute
<1>25. ASSUME NEW t \in Threads, WriteLook(t) PROVE RouteInv'
  <2>1. SameRoute(audio, audio')
    BY <1>25, LookStep DEF SameCall, SameIn, SameInLife, Same, SameRoute
  <2> QED BY <1>25, <2>1 DEF WriteLook, LookForInput, SameRoute
<1>26. ASSUME NEW t \in Threads, WriteOpen(t) PROVE RouteInv'
  <2>1. SameRoute(audio, audio')
    BY <1>26, OpenStep DEF SameCall, SameIn, SameInLife, Same, SameRoute
  <2> QED BY <1>26, <2>1 DEF WriteOpen, SameRoute
<1>27. ASSUME NEW t \in Threads, WriteReopenInput(t) PROVE RouteInv'
  <2>1. ~audio.inMixer BY <1>27 DEF WriteReopenInput, At, StandbyInv, Closed, PlayerLabels
  <2>2. /\ SameInLife(audio, audio') /\ audio'.inStandby = audio.inStandby
        /\ audio'.mMode = audio.mMode
        /\ audio'.inMixer /\ audio.mMode # "in_call" => RouteAsked(audio')
    BY <1>27, <2>1, ReopenInputStep DEF SameCall
  <2> QED BY <1>27, <2>2 DEF WriteReopenInput, SameInLife
<1>28. ASSUME NEW t \in Threads, WriteOpened(t) PROVE RouteInv'
  <2>1. SameRoute(audio, audio')
    BY <1>28, audio \in Audio DEF WriteOpened, Audio, SameRoute
  <2> QED BY <1>28, <2>1 DEF WriteOpened, SameRoute
<1>29. ASSUME NEW t \in Threads, WritePcm(t) PROVE RouteInv'
  BY <1>29 DEF WritePcm
<1>30. ASSUME NEW t \in Threads, DoStandby(t) PROVE RouteInv'
  <2>1. IF HandsOver THEN SameRoute(audio, audio') ELSE audio'.inStandby
    BY <1>30, DoStandbyStep DEF SameCall, SameIn, SameInLife, Same, SameRoute
  <2> QED BY <1>30, <2>1 DEF DoStandby, SameRoute, HandsOver
<1>31. ASSUME NEW t \in Threads, InStandbyDone(t) PROVE RouteInv'
  <2>1. SameRoute(audio, audio')
    BY <1>31, StandbyDoneStep DEF SameCall, SameIn, SameInLife, Same, SameRoute
  <2> QED BY <1>31, <2>1 DEF InStandbyDone, SameRoute
<1>32. ASSUME NEW t \in Threads,
              InSetParametersDone(t) \/ ReadLook(t)
       PROVE  RouteInv'
  BY <1>32 DEF InSetParametersDone, ReadLook
<1>33. ASSUME NEW t \in Threads, ReadOpen(t) PROVE RouteInv'
  <2>1. pc[t] = "r_open" /\ owner["hw"] = t BY <1>33 DEF ReadOpen, At
  <2>2. audio.inStandby /\ ~audio.inMixer /\ t = Recorder
    BY <2>1 DEF StandbyInv, LockInv, RecorderLabels
  <2>3. /\ SameInLife(audio, audio') /\ audio'.mMode = audio.mMode
        /\ ~audio'.inStandby /\ audio'.inMixer /\ audio.mMode # "in_call" => RouteAsked(audio')
    BY <1>33, <2>2, ReadOpenStep DEF SameCall
  <2> QED BY <1>33, <2>1, <2>2, <2>3 DEF ReadOpen, SameInLife
<1>34. ASSUME NEW t \in Threads, ReadPcm(t) PROVE RouteInv'
  BY <1>34 DEF ReadPcm
<1>35. ASSUME NEW t \in Threads, SetModeLookOut(t) PROVE RouteInv'
  <2>1. SameRoute(audio, audio')
    BY <1>35, LookStep DEF SameCall, SameIn, SameInLife, Same, SameRoute
  <2> QED BY <1>35, <2>1 DEF SetModeLookOut, SameRoute
<1>36. ASSUME NEW t \in Threads, SetModeLookIn(t) PROVE RouteInv'
  <2>1. SameRoute(audio, audio')
    BY <1>36, LookStep DEF SameCall, SameIn, SameInLife, Same, SameRoute
  <2> QED BY <1>36, <2>1 DEF SetModeLookIn, LookForInput, SameRoute
<1>37. ASSUME NEW t \in Threads, NEW mode \in Modes, SetModeBody(t, mode) PROVE RouteInv'
  <2> DEFINE entering == mode = "in_call" /\ ~audio.mInCallAudioMode
             leaving == mode # "in_call" /\ audio.mInCallAudioMode
             change == mode # audio.mMode /\ (entering \/ leaving)
  <2>1. /\ audio'.mMode = mode /\ SameIn(audio, audio') /\ audio'.mMicMute = audio.mMicMute
    <3>1. audio \in Audio OBVIOUS
    <3> QED BY ONLY <3>1, <1>37, BodyStep, mode \in Modes, t \in Threads
  <2>2. audio.mInCallAudioMode <=> audio.mMode = "in_call"
    BY <1>37, BodyWhere DEF ModeInv
  <2>3. /\ pc[t] = "m_body" /\ spIn' = spIn
        /\ \E label \in {"ds", "m_end", "m_enter", "m_leave"} : pc' = [pc EXCEPT ![t] = label]
        /\ change /\ t \in spIn => pc' = [pc EXCEPT ![t] = "ds"]
    BY <1>37, Zenon DEF SetModeBody, At, Goto, CallDoStandby, sps
  <2>4. audio.mMode = "in_call" /\ mode # "in_call" => change BY <2>2
  <2> HIDE DEF entering, leaving, change
  <2> QED BY <2>1, <2>3, <2>4 DEF SameIn, SameInLife
<1>38. ASSUME NEW t \in Threads, SetModeEnter(t) PROVE RouteInv'
  <2>1. SameRoute(audio, audio')
    BY <1>38, EnterStep DEF SameCall, SameIn, SameInLife, Same, SameRoute
  <2> QED BY <1>38, <2>1 DEF SetModeEnter, SameRoute
<1>39. ASSUME NEW t \in Threads, SetModeLeave(t) PROVE RouteInv'
  <2>1. SameRoute(audio, audio')
    BY <1>39, audio \in Audio DEF SetModeLeave, Audio, SameRoute
  <2> QED BY <1>39, <2>1 DEF SetModeLeave, SameRoute
<1>40. ASSUME NEW t \in Threads,
              SetModeEnd(t) \/ DropInput(t) \/ DropOutput(t) \/ Return(t)
       PROVE  RouteInv'
  BY <1>40 DEF SetModeEnd, DropInput, DropOutput, Return
<1>41. CASE UNCHANGED vars
  BY <1>41 DEF vars
<1> HIDE DEF TypeOK, LockInv, RouteInv
<1> QED BY <1>1, <1>2, <1>3, <1>4, <1>5, <1>6, <1>7, <1>8, <1>9, <1>10, <1>11, <1>12, <1>13,
           <1>14, <1>15, <1>16, <1>17, <1>18, <1>19, <1>20, <1>21, <1>22, <1>23, <1>24, <1>25,
           <1>26, <1>27, <1>28, <1>29, <1>30, <1>31, <1>32, <1>33, <1>34, <1>35, <1>36, <1>37,
           <1>38, <1>39, <1>40, <1>41
       DEF Next, Start, Lock, Run

(* The mutexes are held where the code needs them, and the streams live and
   sleep as it expects, whatever is called. *)
THEOREM StreamsInvariant == Spec => [](LockInv /\ StreamInv /\ StandbyInv)
<1> DEFINE I == LockInv /\ StreamInv /\ StandbyInv
<1>1. Init => I
  <2> SUFFICES ASSUME Init PROVE I
    OBVIOUS
  <2>1. LockInv
    BY AudioAssumption
       DEF Init, LockInv, KeepsOut, KeepsIn, KeepsHw, DoStandbyLabels, PlayerLabels,
           RecorderLabels
  <2>2. StreamInv
    BY AudioAssumption DEF Init, StreamInv, AudioHardwareInit
  <2>3. StandbyInv
    BY AudioAssumption DEF Init, StandbyInv, Opening, Closed, AudioHardwareInit
  <2> QED BY <2>1, <2>2, <2>3
<1>2. TypeOK /\ I /\ [Next]_vars => I'
  BY LockStep, StreamStep, StandbyStep
<1> QED BY <1>1, <1>2, TypeCorrect, PTL DEF Spec

(* No stream feeds or reads an echo reference the hardware has let go of,
   although it uses its own under its own mutex only. *)
THEOREM EchoNeverStale == Spec => []EchoReferenceInUse
<1>1. LockInv /\ StreamInv => EchoReferenceInUse
  BY DEF LockInv, StreamInv, EchoReferenceInUse, PlayerLabels, RecorderLabels
<1> QED BY <1>1, StreamsInvariant, PTL

(* With one setMode at a time the mode and the call agree, the input's route
   is the one asked for, and the counts are those of the users. *)
THEOREM CallInvariant == Spec /\ []OneSetMode => [](ModeInv /\ RouteInv /\ CountInv)
<1> DEFINE I == ModeInv /\ RouteInv /\ CountInv
<1>1. Init => I
  <2> SUFFICES ASSUME Init PROVE I
    OBVIOUS
  <2>1. ModeInv
    BY DEF Init, ModeInv, Entering, Leaving, AudioHardwareInit
  <2>2. RouteInv
    BY DEF Init, RouteInv, getActiveInput_l, AudioHardwareInit
  <2>3. CountInv
    BY DEF Init, CountInv, InCall, Counted, Backed, One, AudioHardwareInit
  <2> QED BY <2>1, <2>2, <2>3
<1>2. TypeOK /\ LockInv /\ StreamInv /\ StandbyInv /\ OneSetMode /\ I /\ [Next]_vars => I'
  BY ModeStep, RouteStep, CountStep, EnvironmentKept
<1> QED BY <1>1, <1>2, TypeCorrect, StreamsInvariant, PTL DEF Spec

(* An input that records outside a call has the route the microphone's mute
   asks for. *)
THEOREM MuteReachesInput == Spec /\ []OneSetMode => []MuteIsHeard
<1>1. RouteInv => MuteIsHeard
  BY DEF RouteInv, MuteIsHeard, RouteAsked, StandbySteps, InStandbyLabels
<1> QED BY <1>1, CallInvariant, PTL

(* Who uses the playback device or the mixer finds it open. *)
THEOREM DevicesMatchUsers == Spec /\ []OneSetMode => []DevicesOfUsers
<1>1. TypeOK /\ CountInv => DevicesOfUsers
  <2> SUFFICES ASSUME TypeOK, CountInv, Granted
               PROVE  /\ audio.outPcm => audio.mPcm
                      /\ audio.outMixer \/ audio.inMixer => audio.mMixer
    BY DEF DevicesOfUsers, Granted
  <2> QED BY DEF TypeOK, CountInv, Counted, Backed, One, Audio
<1> QED BY <1>1, CallInvariant, TypeCorrect, PTL
=============================================================================
