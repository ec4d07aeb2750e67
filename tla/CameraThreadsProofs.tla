------------------------ MODULE CameraThreadsProofs ------------------------
(***************************************************************************)
(* Proofs about CameraThreads, for every set of windows: the type           *)
(* invariant, that a capture is flagged, and that the picture thread has the *)
(* camera to itself.                                                        *)
(***************************************************************************)
EXTENDS CameraThreads, TLAPS

-----------------------------------------------------------------------------
(* The objects as init() leaves them. *)
LEMMA InitTyped == Init => TypeOK
<1> SUFFICES ASSUME Init  PROVE TypeOK
  OBVIOUS
<1>1. {mPreviewRunning, mPreviewStartDeferred, mExitPreviewThread, m_flag_camera_start,
       mCaptureInProgress, mCaptureCancel, mExitAutoFocusThread} \subseteq BOOLEAN
  <2>1. {mPreviewRunning, mPreviewStartDeferred, mExitPreviewThread, m_flag_camera_start,
         mCaptureInProgress, mCaptureCancel, mExitAutoFocusThread} = {FALSE}
    BY Zenon DEF Init
  <2>2. QED
    BY <2>1, Zenon
<1>2. mWindow \in Windows \cup {NULL} /\ mCaptureMode \in {"SNAPSHOT", "BURST"}
  BY DEF Init
<1>3. call = "setParameters" /\ result = "ok"
  BY DEF Init
<1>4. pc = [client |-> "idle", preview |-> "start", focus |-> "loop", picture |-> "none"]
  BY DEF Init
<1>5. QED
  BY <1>1, <1>2, <1>3, <1>4 DEF TypeOK, CallAtItsPlace, Calls

(* Every step keeps the type invariant. *)
LEMMA TypeStep ==
  ASSUME TypeOK, [Next]_vars
  PROVE  TypeOK'
<1> USE DEF TypeOK, CallAtItsPlace, Calls
<1>1. ASSUME NEW w \in Windows \cup {NULL}, SetPreviewWindow(w)  PROVE TypeOK'
  BY <1>1 DEF SetPreviewWindow, captureVars, Goto, Return, Calling,
      PreviewLockFree
<1>2. ASSUME NEW w \in Windows, SetPreviewWindowStops(w)  PROVE TypeOK'
  BY <1>2 DEF SetPreviewWindowStops, captureVars, Calling, PreviewLockFree,
      Woken, Started, StopPreview_l
<1>3. ASSUME NEW w \in Windows, SetPreviewWindowStarts(w)  PROVE TypeOK'
  BY <1>3 DEF SetPreviewWindowStarts, captureVars, Goto, Return, Calling,
      PreviewLockFree, Woken, StartDevice, StartPreview_l
<1>4. ASSUME NEW c \in Calls, StopPreview(c)  PROVE TypeOK'
  BY <1>4 DEF StopPreview, captureVars, Calling, PreviewLockFree, Woken,
      Started, StopPreview_l
<1>5. ASSUME NEW c \in Calls, StopPreviewNotStarted(c)  PROVE TypeOK'
  BY <1>5 DEF StopPreviewNotStarted, Goto, Return, Calling, PreviewLockFree,
      Started, WaitForCapture, AfterStop
<1>6. ASSUME NEW c \in Calls, CallAfterCapture(c)  PROVE TypeOK'
  BY <1>6 DEF CallAfterCapture, previewVars, Goto, Calling, WaitForCapture
<1>7. CASE AutoFocus
  BY <1>7 DEF AutoFocus, previewVars, captureVars, Calling, Woken
<1>8. CASE CancelPicture
  BY <1>8 DEF CancelPicture, previewVars, captureVars, Goto, Calling
<1>9. CASE Release
  BY <1>9 DEF Release, captureVars, Calling, Woken
<1>10. CASE PreviewStopped
  BY <1>10 DEF PreviewStopped, previewVars, Goto, Return, PreviewLockFree,
      WaitForCapture, AfterStop
<1>11. CASE CaptureCompleted
  BY <1>11 DEF CaptureCompleted, previewVars, captureVars, Goto
<1>12. CASE CaptureTimedOut
  BY <1>12 DEF CaptureTimedOut, previewVars, captureVars, Goto, Return
<1>13. CASE StartPreview
  <2>1. CASE mPreviewRunning
    BY <1>13, <2>1 DEF StartPreview, captureVars, Goto, Return
  <2>2. CASE ~mPreviewRunning /\ mWindow = NULL
    <3>1. mPreviewStartDeferred' = TRUE
      BY <1>13, <2>2 DEF StartPreview
    <3>2. QED
      BY <1>13, <2>2, <3>1 DEF StartPreview, captureVars, Goto, Return
  <2>3. CASE ~mPreviewRunning /\ mWindow # NULL
    <3>1. mPreviewStartDeferred' = FALSE
      BY <1>13, <2>3 DEF StartPreview
    <3>2. QED
      BY <1>13, <2>3, <3>1 DEF StartPreview, captureVars, Woken, StartDevice,
          StartPreview_l
  <2>4. QED
    BY <2>1, <2>2, <2>3
<1>14. CASE SetParameters
  BY <1>14 DEF SetParameters, previewVars, Goto, Return, PreviewLockFree
<1>15. CASE RunPictureThread
  BY <1>15 DEF RunPictureThread, previewVars, captureVars, Goto, Return
<1>16. CASE PictureStarted
  BY <1>16 DEF PictureStarted, previewVars, Goto, Return
<1>17. CASE PreviewJoined
  BY <1>17 DEF PreviewJoined, previewVars, captureVars, Woken
<1>18. CASE FocusJoined
  BY <1>18 DEF FocusJoined, previewVars, captureVars, Goto
<1>19. CASE PictureJoined
  BY <1>19 DEF PictureJoined, previewVars, captureVars, Goto, Return
<1>20. CASE PreviewThreadStarts
  BY <1>20 DEF PreviewThreadStarts, previewVars, captureVars, Goto
<1>21. CASE PreviewParks
  BY <1>21 DEF PreviewParks, previewVars, captureVars, StopDevice, MustPark
<1>22. CASE PreviewLeaves
  BY <1>22 DEF PreviewLeaves, previewVars, captureVars, Goto
<1>23. CASE PreviewSleeps
  BY <1>23 DEF PreviewSleeps, previewVars, captureVars, Goto
<1>24. CASE PreviewRuns
  BY <1>24 DEF PreviewRuns, previewVars, captureVars, Goto, MustPark
<1>25. CASE GetPreview
  BY <1>25 DEF GetPreview, previewVars, captureVars, Goto, StopDevice
<1>26. CASE ResetDevice
  BY <1>26 DEF ResetDevice, previewVars, captureVars, Goto, StartDevice
<1>27. CASE FocusLoop
  BY <1>27 DEF FocusLoop, previewVars, captureVars, Goto
<1>28. CASE FocusWoken
  BY <1>28 DEF FocusWoken, previewVars, captureVars, Goto
<1>29. CASE FocusDone
  BY <1>29 DEF FocusDone, previewVars, captureVars, Goto
<1>30. CASE BeginSnapshot
  BY <1>30 DEF BeginSnapshot, previewVars, captureVars, Goto, StopDevice
<1>31. CASE PictureSkipped
  BY <1>31 DEF PictureSkipped, previewVars, captureVars, Goto
<1>32. CASE TakePicture
  BY <1>32 DEF TakePicture, previewVars, captureVars, Goto
<1>33. CASE NextPicture
  BY <1>33 DEF NextPicture, previewVars, captureVars, Goto
<1>34. CASE EndSnapshot
  BY <1>34 DEF EndSnapshot, previewVars, captureVars, Goto
<1>35. CASE CaptureEnds
  BY <1>35 DEF CaptureEnds, previewVars, Goto
<1>36. CASE PictureThreadEnds
  BY <1>36 DEF PictureThreadEnds, previewVars, captureVars, Goto
<1>37. CASE UNCHANGED vars
  BY <1>37 DEF vars, previewVars, captureVars
<1>38. QED
  BY <1>1, <1>2, <1>3, <1>4, <1>5, <1>6, <1>7, <1>8, <1>9, <1>10, <1>11, <1>12,
      <1>13, <1>14, <1>15, <1>16, <1>17, <1>18, <1>19, <1>20, <1>21, <1>22,
      <1>23, <1>24, <1>25, <1>26, <1>27, <1>28, <1>29, <1>30, <1>31, <1>32,
      <1>33, <1>34, <1>35, <1>36, <1>37
     DEF Next, CallBegins, CallGoesOn, Preview, Focus, Picture

(* Every variable keeps its type, and every thread and every call of the
   service stays within its own code (SecCameraHWInterface.cpp). *)
THEOREM TypeCorrect == Spec => []TypeOK
<1>1. Init => TypeOK
  BY InitTyped
<1>2. TypeOK /\ [Next]_vars => TypeOK'
  BY TypeStep
<1>3. QED
  BY <1>1, <1>2, PTL DEF Spec

-----------------------------------------------------------------------------
(* takePicture after its stopPreview, and the picture it has started. *)
Quiet == \/ Capturing
         \/ call = "takePicture" /\ pc.client \in {"capture", "captured", "run"}

AtFrame == pc.preview \in {"frame", "reset"}

(* A thread at a frame is one that mPreviewRunning has let in; a stop takes the
   flag away and waits for the thread. *)
FramesRunning == AtFrame => mPreviewRunning \/ mPreviewStartDeferred \/ pc.client = "stopping"
StopHolds == /\ pc.client \in {"stopping", "stopped"} => ~mPreviewRunning
             /\ pc.client = "stopped" => ~AtFrame

(* Only release, which is the last call, sets mExitPreviewThread. *)
ExitIsLast == mExitPreviewThread => pc.client # "idle" /\ call = "release"

(* The waiting for a capture has found none. *)
NoneCaptured == pc.client = "captured" => ~Capturing

(* While it is quiet the preview thread finds itself told to park, and has
   parked unless the preview was a deferred one. *)
QuietParks == Quiet => MustPark /\ (AtFrame => mPreviewStartDeferred)

IInv == /\ CaptureGuards /\ FramesRunning /\ StopHolds
        /\ ExitIsLast /\ NoneCaptured /\ QuietParks

(* Every step keeps the inductive invariant. *)
LEMMA InvStep ==
  ASSUME TypeOK, IInv, [Next]_vars
  PROVE  IInv'
<1> USE DEF TypeOK, CallAtItsPlace, IInv, CaptureGuards, FramesRunning,
             StopHolds, ExitIsLast, NoneCaptured, QuietParks, Quiet, AtFrame,
             Capturing, MustPark
<1>1. ASSUME NEW w \in Windows \cup {NULL}, SetPreviewWindow(w)  PROVE IInv'
  BY <1>1 DEF SetPreviewWindow, captureVars, Goto, Return, Calling,
      PreviewLockFree
<1>2. ASSUME NEW w \in Windows, SetPreviewWindowStops(w)  PROVE IInv'
  BY <1>2 DEF SetPreviewWindowStops, captureVars, Calling, PreviewLockFree,
      Woken, Started, StopPreview_l
<1>3. ASSUME NEW w \in Windows, SetPreviewWindowStarts(w)  PROVE IInv'
  BY <1>3 DEF SetPreviewWindowStarts, captureVars, Goto, Return, Calling,
      PreviewLockFree, Woken, StartDevice, StartPreview_l
<1>4. ASSUME NEW c \in Calls, StopPreview(c)  PROVE IInv'
  BY <1>4 DEF StopPreview, captureVars, Calling, PreviewLockFree, Woken,
      Started, StopPreview_l
<1>5. ASSUME NEW c \in Calls, StopPreviewNotStarted(c)  PROVE IInv'
  BY <1>5 DEF StopPreviewNotStarted, Goto, Return, Calling, PreviewLockFree,
      Started, WaitForCapture, AfterStop
<1>6. ASSUME NEW c \in Calls, CallAfterCapture(c)  PROVE IInv'
  BY <1>6 DEF CallAfterCapture, previewVars, Goto, Calling, WaitForCapture
<1>7. CASE AutoFocus
  BY <1>7 DEF AutoFocus, previewVars, captureVars, Calling, Woken
<1>8. CASE CancelPicture
  BY <1>8 DEF CancelPicture, previewVars, captureVars, Goto, Calling
<1>9. CASE Release
  BY <1>9 DEF Release, captureVars, Calling, Woken
<1>10. CASE PreviewStopped
  BY <1>10 DEF PreviewStopped, previewVars, Goto, Return, PreviewLockFree,
      WaitForCapture, AfterStop
<1>11. CASE CaptureCompleted
  BY <1>11 DEF CaptureCompleted, previewVars, captureVars, Goto
<1>12. CASE CaptureTimedOut
  BY <1>12 DEF CaptureTimedOut, previewVars, captureVars, Goto, Return
<1>13. CASE StartPreview
  BY <1>13 DEF StartPreview, captureVars, Goto, Return, PreviewLockFree, Woken,
      StartDevice, StartPreview_l
<1>14. CASE SetParameters
  BY <1>14 DEF SetParameters, previewVars, Goto, Return, PreviewLockFree
<1>15. CASE RunPictureThread
  BY <1>15 DEF RunPictureThread, previewVars, captureVars, Goto, Return
<1>16. CASE PictureStarted
  BY <1>16 DEF PictureStarted, previewVars, Goto, Return
<1>17. CASE PreviewJoined
  BY <1>17 DEF PreviewJoined, previewVars, captureVars, Woken
<1>18. CASE FocusJoined
  BY <1>18 DEF FocusJoined, previewVars, captureVars, Goto
<1>19. CASE PictureJoined
  BY <1>19 DEF PictureJoined, previewVars, captureVars, Goto, Return
<1>20. CASE PreviewThreadStarts
  BY <1>20 DEF PreviewThreadStarts, previewVars, captureVars, Goto
<1>21. CASE PreviewParks
  BY <1>21 DEF PreviewParks, previewVars, captureVars, StopDevice, MustPark
<1>22. CASE PreviewLeaves
  BY <1>22 DEF PreviewLeaves, previewVars, captureVars, Goto
<1>23. CASE PreviewSleeps
  BY <1>23 DEF PreviewSleeps, previewVars, captureVars, Goto
<1>24. CASE PreviewRuns
  BY <1>24 DEF PreviewRuns, previewVars, captureVars, Goto, MustPark
<1>25. CASE GetPreview
  BY <1>25 DEF GetPreview, previewVars, captureVars, Goto, StopDevice
<1>26. CASE ResetDevice
  BY <1>26 DEF ResetDevice, previewVars, captureVars, Goto, StartDevice
<1>27. CASE FocusLoop
  BY <1>27 DEF FocusLoop, previewVars, captureVars, Goto
<1>28. CASE FocusWoken
  BY <1>28 DEF FocusWoken, previewVars, captureVars, Goto
<1>29. CASE FocusDone
  BY <1>29 DEF FocusDone, previewVars, captureVars, Goto
<1>30. CASE BeginSnapshot
  BY <1>30 DEF BeginSnapshot, previewVars, captureVars, Goto, StopDevice
<1>31. CASE PictureSkipped
  BY <1>31 DEF PictureSkipped, previewVars, captureVars, Goto
<1>32. CASE TakePicture
  BY <1>32 DEF TakePicture, previewVars, captureVars, Goto
<1>33. CASE NextPicture
  BY <1>33 DEF NextPicture, previewVars, captureVars, Goto
<1>34. CASE EndSnapshot
  BY <1>34 DEF EndSnapshot, previewVars, captureVars, Goto
<1>35. CASE CaptureEnds
  BY <1>35 DEF CaptureEnds, previewVars, Goto
<1>36. CASE PictureThreadEnds
  BY <1>36 DEF PictureThreadEnds, previewVars, captureVars, Goto
<1>37. CASE UNCHANGED vars
  BY <1>37 DEF vars, previewVars, captureVars
<1>38. QED
  BY <1>1, <1>2, <1>3, <1>4, <1>5, <1>6, <1>7, <1>8, <1>9, <1>10, <1>11, <1>12,
      <1>13, <1>14, <1>15, <1>16, <1>17, <1>18, <1>19, <1>20, <1>21, <1>22,
      <1>23, <1>24, <1>25, <1>26, <1>27, <1>28, <1>29, <1>30, <1>31, <1>32,
      <1>33, <1>34, <1>35, <1>36, <1>37
     DEF Next, CallBegins, CallGoesOn, Preview, Focus, Picture

(* The inductive invariant holds of every reachable state. *)
THEOREM Invariance == Spec => [](TypeOK /\ IInv)
<1>1. Init => TypeOK /\ IInv
  <2>1. Init => pc.client = "idle" /\ pc.preview = "start" /\ pc.picture = "none"
    BY DEF Init
  <2>2. Init => ~mExitPreviewThread
    BY Zenon DEF Init
  <2>3. Init => IInv
    BY <2>1, <2>2 DEF IInv, CaptureGuards, FramesRunning,
      StopHolds, ExitIsLast, NoneCaptured,
      QuietParks, Quiet, AtFrame, Capturing, MustPark
  <2>4. QED
    BY <2>3, InitTyped
<1>2. TypeOK /\ IInv /\ [Next]_vars => TypeOK' /\ IInv'
  BY TypeStep, InvStep
<1>3. QED
  BY <1>1, <1>2, PTL DEF Spec

(* Outside takePicture a picture thread at work is always flagged, although
   takePicture sets mCaptureInProgress after it has started the thread. *)
THEOREM CaptureAlwaysGuarded == Spec => []CaptureGuards
<1>1. TypeOK /\ IInv => CaptureGuards
  BY DEF IInv
<1>2. QED
  BY <1>1, Invariance, PTL

(* The preview thread is not at a frame while a picture is taken, unless the
   preview that takePicture stopped was a deferred one. *)
THEOREM SnapshotHasCamera == Spec => []SnapshotAlone
<1>1. TypeOK /\ IInv => SnapshotAlone
  BY DEF IInv, QuietParks, Quiet, AtFrame, SnapshotAlone
<1>2. QED
  BY <1>1, Invariance, PTL
=============================================================================
