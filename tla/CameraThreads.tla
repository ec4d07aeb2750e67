--------------------------- MODULE CameraThreads ---------------------------
(***************************************************************************)
(* CameraHardwareSec of SecCameraHWInterface.cpp: the camera service, which *)
(* makes one call at a time ("client"), and the three threads of the HAL:   *)
(*   - "preview" is previewThreadWrapper, parked on mPreviewCondition;      *)
(*   - "focus" is autoFocusThread, parked on mFocusCondition;               *)
(*   - "picture" is pictureThread, started by takePicture.                  *)
(* A thread asked to exit before its first step does not take that step.    *)
(* Nobody but the preview thread holds mPreviewLock across a step, at       *)
(* "leave" and "sleep".  A signal wakes a thread that waits and is lost     *)
(* otherwise; waits do not end without one.  Frames and pictures are        *)
(* abstract, recording and face detection are left out, and mPreviewPaused  *)
(* is never true in this build.                                             *)
(***************************************************************************)
EXTENDS Naturals

CONSTANTS Windows,  \* preview windows the service may set
          NULL      \* no window

ASSUME CameraThreadsAssumption == NULL \notin Windows

Calls == {"setPreviewWindow", "startPreview", "stopPreview", "autoFocus",
          "takePicture", "cancelPicture", "setParameters", "release"}

VARIABLES
  mPreviewRunning, mPreviewStartDeferred, mExitPreviewThread,
  mWindow,
  m_flag_camera_start,          \* SecCamera: the device streams the preview
  mCaptureMode, mCaptureInProgress, mCaptureCancel,
  mExitAutoFocusThread,
  call, result,                 \* the client's last call, what it returned
  pc                            \* per thread

previewVars == <<mPreviewRunning, mPreviewStartDeferred, mExitPreviewThread, mWindow>>
captureVars == <<mCaptureMode, mCaptureInProgress, mCaptureCancel>>
vars == <<previewVars, m_flag_camera_start, captureVars, mExitAutoFocusThread,
          call, result, pc>>

(* init() has created the objects and started the preview and the focus
   thread, which have not come to their first look at the flags yet. *)
Init ==
  /\ mPreviewRunning = FALSE /\ mPreviewStartDeferred = FALSE
  /\ mExitPreviewThread = FALSE /\ mExitAutoFocusThread = FALSE
  /\ mWindow = NULL
  /\ m_flag_camera_start = FALSE
  /\ mCaptureMode = "SNAPSHOT"
  /\ mCaptureInProgress = FALSE /\ mCaptureCancel = FALSE
  /\ call = "setParameters" /\ result = "ok"
  /\ pc = [client |-> "idle", preview |-> "start", focus |-> "loop", picture |-> "none"]

Goto(t, label) == pc' = [pc EXCEPT ![t] = label]
Return(r) == Goto("client", "idle") /\ result' = r
Calling(c) == pc.client = "idle" /\ call' = c
PreviewLockFree == pc.preview \notin {"leave", "sleep"}
Woken(label) == IF label = "waiting" THEN "woken" ELSE label

-----------------------------------------------------------------------------
(* The device.  SecCamera::startPreview can fail before or after it has set
   m_flag_camera_start; stopping the stream is taken to succeed. *)
StartDevice(ok) == IF ok THEN m_flag_camera_start' = TRUE
                         ELSE m_flag_camera_start' \in {m_flag_camera_start, TRUE}
StopDevice == m_flag_camera_start' = FALSE

(* Deviation for the mutation runs: the preview thread is not signalled. *)
StartPreviewSilent(ok) == StartDevice(ok) /\ Return(IF ok THEN "ok" ELSE "error")
(* startPreview_l and, when it succeeds, the signal. *)
StartPreview_l(ok) ==
  /\ StartDevice(ok)
  /\ result' = IF ok THEN "ok" ELSE "error"
  /\ pc' = [pc EXCEPT !.client = "idle",
                      !.preview = IF ok THEN Woken(pc.preview) ELSE pc.preview]

(* Deviation for the mutation runs: stopPreview_l does not wake the thread. *)
StopPreviewSilent ==
  /\ mPreviewRunning' = FALSE
  /\ Goto("client", "stopping")
  /\ UNCHANGED <<mPreviewStartDeferred, mExitPreviewThread, m_flag_camera_start,
                 captureVars, mExitAutoFocusThread, result>>
(* Deviation for the mutation runs: stopPreview_l does not wait. *)
StopPreviewNoWait ==
  /\ mPreviewRunning' = FALSE
  /\ pc' = [pc EXCEPT !.client = "stopped", !.preview = Woken(pc.preview)]
  /\ UNCHANGED <<mPreviewStartDeferred, mExitPreviewThread, m_flag_camera_start,
                 captureVars, mExitAutoFocusThread, result>>
(* stopPreview_l of a preview that has really been started: the thread is
   signalled, and one signal of mPreviewStoppedCondition is waited for. *)
StopPreview_l ==
  /\ mPreviewRunning' = FALSE
  /\ pc' = [pc EXCEPT !.client = "stopping", !.preview = Woken(pc.preview)]
  /\ UNCHANGED <<mPreviewStartDeferred, mExitPreviewThread, m_flag_camera_start,
                 captureVars, mExitAutoFocusThread, result>>
Started == mPreviewRunning /\ ~mPreviewStartDeferred

(* waitForCaptureCompletion begins. *)
WaitForCapture == mCaptureCancel' = TRUE /\ Goto("client", "capture") /\ UNCHANGED result

-----------------------------------------------------------------------------
(* The client's calls. *)

(* setPreviewWindow, by what it finds: no window, or nothing to do, ... *)
SetPreviewWindow(w) ==
  /\ Calling("setPreviewWindow") /\ PreviewLockFree
  /\ w = NULL \/ ~mPreviewRunning
  /\ mWindow' = w
  /\ \E r \in {"ok", "error"} : (w = NULL => r = "ok") /\ Return(r)
  /\ UNCHANGED <<mPreviewRunning, mPreviewStartDeferred, mExitPreviewThread,
                 m_flag_camera_start, captureVars, mExitAutoFocusThread>>

(* a preview in another window, which is stopped and stays so, ... *)
SetPreviewWindowStops(w) ==
  /\ Calling("setPreviewWindow") /\ PreviewLockFree
  /\ w # NULL /\ Started
  /\ mWindow' = w
  /\ StopPreview_l

(* or a preview that has been waiting for the window. *)
SetPreviewWindowStarts(w) ==
  /\ Calling("setPreviewWindow") /\ PreviewLockFree
  /\ w # NULL /\ mPreviewRunning /\ mPreviewStartDeferred
  /\ mWindow' = w
  /\ \/ /\ Return("error")  \* the window refuses its settings
        /\ UNCHANGED <<m_flag_camera_start, mPreviewStartDeferred>>
     \/ \E ok \in BOOLEAN : StartPreview_l(ok) /\ mPreviewStartDeferred' = ~ok
  /\ UNCHANGED <<mPreviewRunning, mExitPreviewThread, captureVars, mExitAutoFocusThread>>

(* stopPreview, and takePicture, which begins with it. *)
StopPreview(c) ==
  /\ c \in {"stopPreview", "takePicture"} /\ Calling(c) /\ PreviewLockFree
  /\ Started
  /\ StopPreview_l /\ UNCHANGED mWindow

(* What follows the end of stopPreview_l. *)
AfterStop(c) == IF c = "takePicture"
                THEN WaitForCapture
                ELSE /\ \E r \in {"ok", "error"} : (c = "stopPreview" => r = "ok") /\ Return(r)
                     /\ UNCHANGED mCaptureCancel

StopPreviewNotStarted(c) ==
  /\ c \in {"stopPreview", "takePicture"} /\ Calling(c) /\ PreviewLockFree
  /\ ~Started
  /\ mPreviewRunning' = FALSE
  /\ AfterStop(c)
  /\ UNCHANGED <<mPreviewStartDeferred, mExitPreviewThread, mWindow, m_flag_camera_start,
                 mCaptureMode, mCaptureInProgress, mExitAutoFocusThread>>

PreviewStopped ==
  /\ pc.client = "stopped" /\ PreviewLockFree
  /\ AfterStop(call)
  /\ UNCHANGED <<previewVars, m_flag_camera_start, mCaptureMode, mCaptureInProgress,
                 mExitAutoFocusThread, call>>

(* startPreview and setParameters begin with waitForCaptureCompletion. *)
CallAfterCapture(c) ==
  /\ c \in {"startPreview", "setParameters"} /\ Calling(c)
  /\ WaitForCapture
  /\ UNCHANGED <<previewVars, m_flag_camera_start, mCaptureMode, mCaptureInProgress,
                 mExitAutoFocusThread>>

CaptureCompleted ==
  /\ pc.client = "capture" /\ ~mCaptureInProgress
  /\ Goto("client", "captured")
  /\ UNCHANGED <<previewVars, m_flag_camera_start, captureVars, mExitAutoFocusThread,
                 call, result>>

(* TIMED_OUT after five seconds. *)
CaptureTimedOut ==
  /\ pc.client = "capture" /\ mCaptureInProgress
  /\ Return("error")
  /\ UNCHANGED <<previewVars, m_flag_camera_start, captureVars, mExitAutoFocusThread, call>>

(* startPreview: running already, no window yet, or the start of the device. *)
StartPreview ==
  /\ pc.client = "captured" /\ call = "startPreview" /\ PreviewLockFree
  /\ IF mPreviewRunning
     THEN Return("error") /\ UNCHANGED <<mPreviewStartDeferred, m_flag_camera_start>>
     ELSE /\ mPreviewStartDeferred' = (mWindow = NULL)
          /\ IF mWindow = NULL
             THEN Return("ok") /\ UNCHANGED m_flag_camera_start
             ELSE \E ok \in BOOLEAN : StartPreview_l(ok)
  /\ mPreviewRunning' = TRUE
  /\ UNCHANGED <<mExitPreviewThread, mWindow, captureVars, mExitAutoFocusThread, call>>

SetParameters ==
  /\ pc.client = "captured" /\ call = "setParameters" /\ PreviewLockFree
  /\ mCaptureMode' \in {"SNAPSHOT", "BURST"}
  /\ \E r \in {"ok", "error"} : Return(r)
  /\ UNCHANGED <<previewVars, m_flag_camera_start, mCaptureInProgress, mCaptureCancel,
                 mExitAutoFocusThread, call>>

(* takePicture starts the picture thread, unless that fails, ... *)
RunPictureThread ==
  /\ pc.client = "captured" /\ call = "takePicture"
  /\ \/ /\ pc.picture = "none"
        /\ pc' = [pc EXCEPT !.client = "run", !.picture = "begin"]
        /\ UNCHANGED result
     \/ Return("error")
  /\ UNCHANGED <<previewVars, m_flag_camera_start, captureVars, mExitAutoFocusThread, call>>

(* ... and sets the flags after that. *)
PictureStarted ==
  /\ pc.client = "run"
  /\ mCaptureCancel' = FALSE /\ mCaptureInProgress' = TRUE
  /\ Return("ok")
  /\ UNCHANGED <<previewVars, m_flag_camera_start, mCaptureMode, mExitAutoFocusThread, call>>

AutoFocus ==
  /\ Calling("autoFocus")
  /\ pc' = [pc EXCEPT !.focus = Woken(pc.focus)]
  /\ result' = "ok"
  /\ UNCHANGED <<previewVars, m_flag_camera_start, captureVars, mExitAutoFocusThread>>

(* requestExitAndWait of the picture thread, which looks at no such request. *)
CancelPicture ==
  /\ Calling("cancelPicture")
  /\ Goto("client", "join_picture")
  /\ UNCHANGED <<previewVars, m_flag_camera_start, captureVars, mExitAutoFocusThread, result>>

(* release sets the preview thread's flags and signals without mPreviewLock,
   and waits for the thread to end; ... *)
Release ==
  /\ Calling("release")
  /\ mExitPreviewThread' = TRUE /\ mPreviewRunning' = TRUE
  /\ pc' = [pc EXCEPT !.client = "join_preview", !.preview = Woken(pc.preview)]
  /\ UNCHANGED <<mPreviewStartDeferred, mWindow, m_flag_camera_start, captureVars,
                 mExitAutoFocusThread, result>>

(* then the focus thread's, under mFocusLock; ... *)
PreviewJoined ==
  /\ pc.client = "join_preview" /\ pc.preview = "done"
  /\ mExitAutoFocusThread' = TRUE
  /\ pc' = [pc EXCEPT !.client = "join_focus", !.focus = Woken(pc.focus)]
  /\ UNCHANGED <<previewVars, m_flag_camera_start, captureVars, call, result>>

FocusJoined ==
  /\ pc.client = "join_focus" /\ pc.focus = "done"
  /\ Goto("client", "join_picture")
  /\ UNCHANGED <<previewVars, m_flag_camera_start, captureVars, mExitAutoFocusThread, call, result>>

(* then the picture thread; then the device is closed. *)
PictureJoined ==
  /\ pc.client = "join_picture" /\ pc.picture = "none"
  /\ IF call = "release" THEN Goto("client", "released") /\ UNCHANGED result
                         ELSE Return("ok")
  /\ UNCHANGED <<previewVars, m_flag_camera_start, captureVars, mExitAutoFocusThread, call>>

-----------------------------------------------------------------------------
(* previewThreadWrapper and previewThread. *)

PreviewThreadStarts ==
  /\ pc.preview = "start"
  /\ Goto("preview", IF mExitPreviewThread THEN "done" ELSE "loop")
  /\ UNCHANGED <<previewVars, m_flag_camera_start, captureVars, mExitAutoFocusThread,
                 call, result>>

(* The loop's condition, under mPreviewLock. *)
MustPark == ~mPreviewRunning \/ mExitPreviewThread

PreviewParks ==
  /\ pc.preview \in {"loop", "woken"} /\ MustPark
  /\ StopDevice
  /\ pc' = [pc EXCEPT !.preview = "leave",
                      !.client = IF pc.client = "stopping" THEN "stopped" ELSE pc.client]
  /\ UNCHANGED <<previewVars, captureVars, mExitAutoFocusThread, call, result>>

PreviewLeaves ==
  /\ pc.preview = "leave"
  /\ Goto("preview", IF mExitPreviewThread THEN "done" ELSE "sleep")
  /\ UNCHANGED <<previewVars, m_flag_camera_start, captureVars, mExitAutoFocusThread,
                 call, result>>

PreviewSleeps ==
  /\ pc.preview = "sleep"
  /\ Goto("preview", "waiting")
  /\ UNCHANGED <<previewVars, m_flag_camera_start, captureVars, mExitAutoFocusThread,
                 call, result>>

PreviewRuns ==
  /\ pc.preview \in {"loop", "woken"} /\ ~MustPark
  /\ Goto("preview", "frame")
  /\ UNCHANGED <<previewVars, m_flag_camera_start, captureVars, mExitAutoFocusThread,
                 call, result>>

(* getPreview: a frame, or no data for a second, or a device that does not
   stream; the latter two reset the camera: the stream is stopped, ... *)
GetPreview ==
  /\ pc.preview = "frame"
  /\ \/ m_flag_camera_start /\ Goto("preview", "loop") /\ UNCHANGED m_flag_camera_start
     \/ StopDevice /\ Goto("preview", "reset")
  /\ UNCHANGED <<previewVars, captureVars, mExitAutoFocusThread, call, result>>

(* ... and started again. *)
ResetDevice ==
  /\ pc.preview = "reset"
  /\ \E ok \in BOOLEAN : StartDevice(ok)
  /\ Goto("preview", "loop")
  /\ UNCHANGED <<previewVars, captureVars, mExitAutoFocusThread, call, result>>

Preview == PreviewThreadStarts \/ PreviewParks \/ PreviewLeaves \/ PreviewSleeps
           \/ PreviewRuns \/ GetPreview \/ ResetDevice

-----------------------------------------------------------------------------
(* autoFocusThread, run again and again. *)
FocusLoop ==
  /\ pc.focus = "loop"
  /\ Goto("focus", IF mExitAutoFocusThread THEN "done" ELSE "waiting")
  /\ UNCHANGED <<previewVars, m_flag_camera_start, captureVars, mExitAutoFocusThread,
                 call, result>>

FocusWoken ==
  /\ pc.focus = "woken"
  /\ Goto("focus", IF mExitAutoFocusThread THEN "done" ELSE "focusing")
  /\ UNCHANGED <<previewVars, m_flag_camera_start, captureVars, mExitAutoFocusThread,
                 call, result>>

FocusDone ==
  /\ pc.focus = "focusing"
  /\ Goto("focus", "loop")
  /\ UNCHANGED <<previewVars, m_flag_camera_start, captureVars, mExitAutoFocusThread,
                 call, result>>

Focus == FocusLoop \/ FocusWoken \/ FocusDone

-----------------------------------------------------------------------------
(* pictureThread. *)

(* beginSnapshot stops a preview it finds; it may fail. *)
BeginSnapshot ==
  /\ pc.picture = "begin"
  /\ StopDevice
  /\ \E label \in {"take", "end"} : Goto("picture", label)
  /\ UNCHANGED <<previewVars, captureVars, mExitAutoFocusThread, call, result>>

(* The thread has been asked to exit before its first step. *)
PictureSkipped ==
  /\ pc.picture = "begin" /\ pc.client = "join_picture"
  /\ Goto("picture", "exit")
  /\ UNCHANGED <<previewVars, m_flag_camera_start, captureVars, mExitAutoFocusThread,
                 call, result>>

(* A picture is taken, or that fails; ... *)
TakePicture ==
  /\ pc.picture = "take"
  /\ \E label \in {"taken", "end"} : Goto("picture", label)
  /\ UNCHANGED <<previewVars, m_flag_camera_start, captureVars, mExitAutoFocusThread,
                 call, result>>

(* ... a burst that is not cancelled goes on. *)
NextPicture ==
  /\ pc.picture = "taken"
  /\ Goto("picture", IF mCaptureMode = "BURST" /\ ~mCaptureCancel THEN "take" ELSE "end")
  /\ UNCHANGED <<previewVars, m_flag_camera_start, captureVars, mExitAutoFocusThread,
                 call, result>>

EndSnapshot ==
  /\ pc.picture = "end"
  /\ Goto("picture", "clear")
  /\ UNCHANGED <<previewVars, m_flag_camera_start, captureVars, mExitAutoFocusThread,
                 call, result>>

CaptureEnds ==
  /\ pc.picture = "clear"
  /\ mCaptureInProgress' = FALSE
  /\ Goto("picture", "exit")
  /\ UNCHANGED <<previewVars, m_flag_camera_start, mCaptureMode, mCaptureCancel,
                 mExitAutoFocusThread, call, result>>

PictureThreadEnds ==
  /\ pc.picture = "exit"
  /\ Goto("picture", "none")
  /\ UNCHANGED <<previewVars, m_flag_camera_start, captureVars, mExitAutoFocusThread,
                 call, result>>

Picture == BeginSnapshot \/ PictureSkipped \/ TakePicture \/ NextPicture
           \/ EndSnapshot \/ CaptureEnds \/ PictureThreadEnds

-----------------------------------------------------------------------------
CallBegins ==
  \/ \E w \in Windows \cup {NULL} : SetPreviewWindow(w)
  \/ \E w \in Windows : SetPreviewWindowStops(w) \/ SetPreviewWindowStarts(w)
  \/ \E c \in Calls : StopPreview(c) \/ StopPreviewNotStarted(c) \/ CallAfterCapture(c)
  \/ AutoFocus \/ CancelPicture \/ Release

CallGoesOn ==
  \/ PreviewStopped \/ CaptureCompleted \/ CaptureTimedOut
  \/ StartPreview \/ SetParameters \/ RunPictureThread \/ PictureStarted
  \/ PreviewJoined \/ FocusJoined \/ PictureJoined

Next == CallBegins \/ CallGoesOn \/ Preview \/ Focus \/ Picture

Spec == Init /\ [][Next]_vars

(* Threads that can take a step do; the service need not make another call. *)
FairSpec == /\ Spec
            /\ WF_vars(CallGoesOn) /\ WF_vars(Preview) /\ WF_vars(Focus) /\ WF_vars(Picture)

-----------------------------------------------------------------------------
(* Where in its code a call of the service can be. *)
CallAtItsPlace ==
  /\ pc.client \in {"stopping", "stopped"}
       => call \in {"stopPreview", "takePicture", "setPreviewWindow"}
  /\ pc.client \in {"capture", "captured"}
       => call \in {"startPreview", "takePicture", "setParameters"}
  /\ pc.client = "run" => call = "takePicture"
  /\ pc.client \in {"join_preview", "join_focus", "released"} => call = "release"
  /\ pc.client = "join_picture" => call \in {"release", "cancelPicture"}

(* Every variable has its type, every thread is at a place of its own code, and
   the service at a place that its call comes to. *)
TypeOK ==
  /\ {mPreviewRunning, mPreviewStartDeferred, mExitPreviewThread, m_flag_camera_start,
      mCaptureInProgress, mCaptureCancel, mExitAutoFocusThread} \subseteq BOOLEAN
  /\ mWindow \in Windows \cup {NULL}
  /\ mCaptureMode \in {"SNAPSHOT", "BURST"}
  /\ call \in Calls /\ result \in {"ok", "error"}
  /\ pc \in [client : {"idle", "stopping", "stopped", "capture", "captured", "run",
                       "join_preview", "join_focus", "join_picture", "released"},
             preview : {"start", "loop", "leave", "sleep", "waiting", "woken", "frame",
                        "reset", "done"},
             focus : {"loop", "waiting", "woken", "focusing", "done"},
             picture : {"none", "begin", "take", "taken", "end", "clear", "exit"}]
  /\ CallAtItsPlace

Capturing == pc.picture \in {"begin", "take", "taken", "end"}

(* pictureThread has the camera to itself from beginSnapshot to endSnapshot:
   takePicture has parked the preview thread first, and startPreview waits for
   the capture (beginSnapshot warns that a preview "should have been stopped").
   Only when takePicture finds a preview that was deferred for want of a
   window, which it takes for stopped, can the thread be at a frame. *)
SnapshotAlone ==
  Capturing => pc.preview \notin {"frame", "reset"} \/ mPreviewStartDeferred

(* Outside takePicture itself a picture thread at work is always flagged, so
   that startPreview, setParameters and the next takePicture wait for it, in
   whichever order takePicture and the thread set and clear the flag. *)
CaptureGuards == Capturing /\ pc.client # "run" => mCaptureInProgress

(* release has signalled while the preview thread, which had tested the exit
   flag already, was not waiting yet: nobody wakes it again. *)
ReleaseMissed == pc.client = "join_preview" /\ pc.preview = "waiting"

(* cancelPicture and release wait for a burst that nothing tells to stop. *)
BurstGoesOn == /\ pc.client = "join_picture" /\ pc.picture \in {"take", "taken"}
               /\ mCaptureMode = "BURST" /\ ~mCaptureCancel

(* Every call of the service returns (release: ends), whatever the threads are
   doing when it comes, but for the two ways above in which the code hangs. *)
CallsReturn ==
  (pc.client \notin {"idle", "released"}) ~>
    (pc.client \in {"idle", "released"} \/ ReleaseMissed \/ BurstGoesOn)

(* A startPreview that has returned NO_ERROR with a window set, and a
   setPreviewWindow that has started a deferred preview, get the preview
   thread to its frames unless another call comes in between. *)
PreviewStarts ==
  (/\ pc.client = "idle" /\ result = "ok"
   /\ call \in {"startPreview", "setPreviewWindow"} /\ mWindow # NULL
   /\ Started)
  ~> (pc.preview = "frame" \/ call \notin {"startPreview", "setPreviewWindow"}
      \/ pc.client # "idle" \/ result = "error" \/ ~Started)
=============================================================================
