--------------------------- MODULE CameraSettings ---------------------------
(***************************************************************************)
(* The settings of the camera and the stream they apply to.  A setting is   *)
(* kept three times: in mParameters of CameraHardwareSec, which the client  *)
(* reads back; in the fields of SecCamera, a static object that outlives    *)
(* the session; and in the sensor, which is told by an ioctl and forgets    *)
(* everything when the stream ends.                                         *)
(*                                                                          *)
(* The camera service makes one call at a time; the preview thread stops    *)
(* the stream when it is asked to, and also when no data come, which        *)
(* overlaps with setParameters: SecCamera has no lock.  "todo" is what is   *)
(* left of the operation a thread is in, one element per step that another  *)
(* thread or a failure may come between.  The client passes the parameters  *)
(* it has read with some changes.  The windows, autofocus and the pictures  *)
(* are left out (CameraThreads has them), and so are sizes, formats, the    *)
(* focus area, the JPEG and GPS tags and the settings no build changes.     *)
(***************************************************************************)
EXTENDS Integers, Sequences

CONSTANTS Clients,  \* a client: the cameras it may open, the changes it may ask for,
                    \* and how many device calls may fail it (a bound)
          None      \* no value: a key that is missing, a field that is -1

Threads == {"service", "preview"}

(* Codes of videodev2_samsung.h. *)
EV_DEFAULT == 4
CONTRAST_DEFAULT == 2
MAX_ZOOM == 12

(* What the client names.  "face" stands for mFaceDetectStarted, which is
   changed by commands and not by setParameters. *)
Keys == {"zoom", "brightness", "contrast", "whiteBalance", "iso", "fps", "focus",
         "flash", "scene", "effect", "antiShake", "face"}
Settings == (Keys \ {"fps"}) \cup {"blur", "metering", "sharpness", "saturation"}

(* A client names keys and gives each a value; None is none of the values the
   code gives itself. *)
ASSUME ClientsAssumption ==
  /\ \A c \in Clients :
       /\ None \notin c.cameras
       /\ \A r \in c.changes : DOMAIN r \subseteq Keys /\ \A k \in DOMAIN r : r[k] # None
  /\ None \notin {"auto", "off"} /\ None \notin -EV_DEFAULT .. MAX_ZOOM

VARIABLES
  client,               \* who uses the camera
  camera,               \* the open camera, or None
  mParameters,          \* what the client reads
  m_params,             \* the fields of SecCamera
  sensor,               \* what the sensor was last told, None when it has forgotten
  streaming,            \* the device streams
  m_flag_camera_start,  \* SecCamera takes it to stream
  mPreviewRunning, mExitPreviewThread,
  parked,               \* the preview thread waits for mPreviewCondition, or has exited
  call, asked, ret,     \* the service's last call, its changes, its result
  todo,                 \* per thread, the steps left
  faults,               \* device calls that have failed
  untold,               \* settings whose field has changed behind the sensor's back
  unreported,           \* settings whose field has changed behind mParameters' back
  cut                   \* the flag and the device have been left in disagreement

settingVars == <<mParameters, m_params, sensor, untold, unreported>>
streamVars == <<streaming, m_flag_camera_start, cut>>
callVars == <<client, camera, call, asked>>
threadVars == <<mPreviewRunning, mExitPreviewThread, parked>>
vars == <<settingVars, streamVars, callVars, threadVars, ret, todo, faults>>

-----------------------------------------------------------------------------
(* Setters. *)

Code(k, asking) ==
  CASE k = "brightness" -> asking + EV_DEFAULT
    [] k = "scene" -> IF asking \in {"beach", "snow"} THEN "beach_snow" ELSE asking
    [] k = "antiShake" -> IF asking = "true" THEN "movie" ELSE "off"
    [] OTHER -> asking

(* A call of the setter of k, after which mParameters shows "shown". *)
Set(k, code, shown) == <<[op |-> "set", key |-> k, value |-> code, shown |-> shown]>>
Asked(k, asking) == Set(k, Code(k, asking), asking)
Refusal == <<[op |-> "refuse"]>>

(* The setters' ranges.  The names are those setParameters knows. *)
SetZoom(level) == IF level \in 0 .. MAX_ZOOM THEN Asked("zoom", level) ELSE Refusal
SetBrightness(ev) == IF Code("brightness", ev) \in 0 .. 8
                     THEN Asked("brightness", ev) ELSE Refusal
SetContrast(level) == IF level \in 0 .. 4 THEN Asked("contrast", level) ELSE Refusal
SetWhiteBalance(name) ==
  IF name \in {"auto", "daylight", "cloudy-daylight", "fluorescent", "incandescent"}
  THEN Asked("whiteBalance", name) ELSE Refusal
SetISO(name) ==
  IF name \in {"auto", "50", "100", "200", "400", "800", "1600", "sports", "night", "movie"}
  THEN Asked("iso", name) ELSE Refusal
SetFocusMode(name) ==
  IF name \in {"auto", "macro", "infinity"} THEN Asked("focus", name) ELSE Refusal
SetFlashMode(name) ==
  IF name \in {"off", "auto", "on", "torch"} THEN Asked("flash", name) ELSE Refusal
SetSceneMode(name) ==
  IF name \in {"auto", "portrait", "landscape", "sports", "party", "beach", "snow",
               "sunset", "night", "fireworks", "candlelight"}
  THEN Asked("scene", name) ELSE Refusal
SetImageEffect(name) ==
  IF name \in {"none", "mono", "sepia", "antique", "sharpen", "aqua", "negative"}
  THEN Asked("effect", name) ELSE Refusal

-----------------------------------------------------------------------------
(* setParameters: what it does with a set of parameters p, in order.  A key
   that is missing, or a number out of the limits that the parameters state
   themselves, is passed over. *)

(* The limit that the parameters state: the front camera's have none, which reads -1. *)
MaxZoom(c) == IF c = "back" THEN MAX_ZOOM ELSE -1
ZoomPart(c, p) == IF p.zoom \in 0 .. MaxZoom(c) THEN SetZoom(p.zoom) ELSE <<>>
BrightnessPart(p) == IF p.brightness \in -4 .. 4 THEN SetBrightness(p.brightness) ELSE <<>>
ContrastPart(p) == IF p.contrast \in -2 .. 2 THEN SetContrast(p.contrast) ELSE <<>>
WhiteBalancePart(p) == IF p.whiteBalance = None THEN <<>> ELSE SetWhiteBalance(p.whiteBalance)
ISOPart(p) == IF p.iso = None THEN <<>> ELSE SetISO(p.iso)

(* The range of frame rates must be the current one, but this is looked at
   only when the scene is named and stays the same. *)
FpsPart(p) ==
  LET wrong == IF p.scene # None /\ mParameters.scene # None
               THEN p.scene = mParameters.scene /\ p.fps # mParameters.fps
               ELSE p.fps = "reversed"
  IN IF wrong THEN Refusal ELSE <<>>

FocusPart(p) == IF p.focus = None THEN <<>> ELSE SetFocusMode(p.focus)

(* A scene brings its range of frame rates and its flash with it.  (Its
   focus mode is assigned after the focus mode has been dealt with.) *)
FpsOf(scene) == IF scene = "night" THEN "4-30" ELSE "15-30"
FlashOf(scene, flash) == CASE scene = "auto" -> flash
                           [] scene \in {"portrait", "party"} -> "auto"
                           [] OTHER -> "off"
ScenePart(p) ==
  LET flash == FlashOf(p.scene, p.flash) IN
  IF p.scene = None THEN <<>>
  ELSE <<[op |-> "fps", shown |-> FpsOf(p.scene)]>>
         \o (IF flash = None THEN <<>> ELSE SetFlashMode(flash))
         \o SetSceneMode(p.scene)

EffectPart(p) == IF p.effect = None THEN <<>> ELSE SetImageEffect(p.effect)
(* The parameters never show what was made of this one. *)
AntiShakePart(p) == IF p.antiShake = None THEN <<>>
                    ELSE Set("antiShake", Code("antiShake", p.antiShake), None)
BlurPart(c) == IF c = "front" THEN Set("blur", 0, None) ELSE <<>>

Parameters(c, p) ==
  ZoomPart(c, p) \o BrightnessPart(p) \o ContrastPart(p) \o WhiteBalancePart(p)
    \o ISOPart(p) \o FpsPart(p) \o FocusPart(p) \o ScenePart(p) \o EffectPart(p) \o AntiShakePart(p)
    \o BlurPart(c) \o <<[op |-> "batch"]>>

(* initDefaultParameters. *)
Defaults(c) ==
  [k \in Keys |->
     CASE k = "zoom" -> IF c = "back" THEN 0 ELSE None
       [] k \in {"brightness", "contrast"} -> 0
       [] k \in {"whiteBalance", "focus"} -> "auto"
       [] k = "iso" -> IF c = "back" THEN "auto" ELSE "100"
       [] k = "fps" -> IF c = "back" THEN "15-30" ELSE "7.5-30"
       [] k = "flash" -> IF c = "back" THEN "off" ELSE None
       [] k = "scene" -> None
       [] k = "effect" -> "none"
       [] k = "antiShake" -> IF c = "back" THEN "true" ELSE None
       [] k = "face" -> "off"]
Initial(c) ==
  Set("iso", "auto", None) \o Set("contrast", CONTRAST_DEFAULT, None)
    \o Set("metering", "center", None) \o Set("sharpness", 2, None)
    \o Set("saturation", 2, None)

-----------------------------------------------------------------------------
(* startPreview of SecCamera, with startStream. *)

StreamParams == {"contrast", "effect", "brightness", "flash", "focus", "iso", "metering",
                 "saturation", "scene", "sharpness", "whiteBalance"}
BeforeStreamOn == <<"effect", "iso", "metering", "scene", "whiteBalance">>
AfterStreamOn == <<"zoom", "contrast", "focus", "saturation", "sharpness">>
SendEach(keys) == [i \in DOMAIN keys |-> [op |-> "send", keys |-> {keys[i]}]]
Send(keys) == <<[op |-> "send", keys |-> keys]>>

(* Deviation for the mutation runs: everything is sent before the stream is on. *)
StartStreamEarly(c) ==
  (IF c = "back" THEN SendEach(BeforeStreamOn \o AfterStreamOn) ELSE Send(StreamParams))
    \o Send({"blur", "brightness"}) \o <<[op |-> "streamon"]>>
(* The back camera's driver takes nothing from VIDIOC_S_PARM (SecCamera.cpp:739),
   the front camera's is taken to take all of the parameters. *)
StartStream(c) ==
  IF c = "back"
  THEN SendEach(BeforeStreamOn) \o <<[op |-> "streamon"]>>
         \o Send({"brightness"}) \o SendEach(AfterStreamOn)
  ELSE <<[op |-> "streamon"]>>
         \o Send(StreamParams) \o Send({"blur"}) \o Send({"brightness"})
Start(c) == <<[op |-> "begin"], [op |-> "buffers"]>> \o StartStream(c)
              \o <<[op |-> "started"], [op |-> "frame"]>>
Wake == <<[op |-> "wake"]>>

(* The settings startStream sends. *)
Resent(c) == IF c = "back"
             THEN {"brightness"} \cup {BeforeStreamOn[i] : i \in DOMAIN BeforeStreamOn}
                                 \cup {AfterStreamOn[i] : i \in DOMAIN AfterStreamOn}
             ELSE StreamParams \cup {"blur"}
(* The sensor cannot keep these until the stream is on. *)
NotKept(c) == IF c = "back" THEN {AfterStreamOn[i] : i \in DOMAIN AfterStreamOn} ELSE Settings

-----------------------------------------------------------------------------
(* A thread's next step. *)

At(t, op) == todo[t] # <<>> /\ Head(todo[t]).op = op
Do(t, ops) == todo' = [todo EXCEPT ![t] = ops]
Done(t) == Do(t, Tail(todo[t]))
Fault == faults < client.faults /\ faults' = faults + 1
(* Deviation for the mutation runs: the error is not returned. *)
AnswerLost(t) == UNCHANGED ret
Answer(t) == ret' = IF t = "service" THEN "error" ELSE ret

(* Deviation for the mutation runs: the parameter is not written back. *)
ShowNothing(o) == UNCHANGED <<mParameters, unreported>>
(* The setter has done what it was asked. *)
Show(o) == IF o.shown = None
           THEN UNCHANGED <<mParameters, unreported>>
           ELSE /\ mParameters' = [mParameters EXCEPT ![o.key] = o.shown]
                /\ unreported' = unreported \ {o.key}

(* A setter that finds its value in place has nothing to do, ... *)
Same(t) ==
  /\ At(t, "set")
  /\ LET o == Head(todo[t]) IN m_params[o.key] = o.value /\ Show(o)
  /\ Done(t)
  /\ UNCHANGED <<m_params, sensor, untold, streamVars, callVars, threadVars, ret, faults>>

(* otherwise it keeps the value, ... *)
Store(t) ==
  /\ At(t, "set")
  /\ LET o == Head(todo[t]) IN
       /\ m_params[o.key] # o.value
       /\ m_params' = [m_params EXCEPT ![o.key] = o.value]
       /\ Do(t, <<[o EXCEPT !.op = "check"]>> \o Tail(todo[t]))
  /\ UNCHANGED <<mParameters, sensor, untold, unreported, streamVars, callVars, threadVars,
                 ret, faults>>

(* looks whether the camera has been started: if not, the start will tell
   the sensor, unless it is under way and past the setting; ... *)
Passed(k) == \E t \in Threads :
  /\ \E i \in DOMAIN todo[t] : todo[t][i].op = "started"
  /\ \A i \in DOMAIN todo[t] : todo[t][i].op = "send" => k \notin todo[t][i].keys
Check(t) ==
  /\ At(t, "check")
  /\ LET o == Head(todo[t]) IN
       IF m_flag_camera_start
       THEN /\ Do(t, (IF o.key = "face" /\ o.value = "on" THEN <<[op |-> "displace"]>> ELSE <<>>)
                       \o <<[o EXCEPT !.op = "tell"]>> \o Tail(todo[t]))
            /\ UNCHANGED <<mParameters, unreported, untold>>
       ELSE /\ Show(o) /\ Done(t)
            /\ untold' = IF Passed(o.key) THEN untold \cup {o.key} ELSE untold
  /\ UNCHANGED <<m_params, sensor, streamVars, callVars, threadVars, ret, faults>>

(* and tells the sensor, ... *)
Tell(t) ==
  /\ At(t, "tell")
  /\ LET o == Head(todo[t]) IN
       /\ sensor' = [sensor EXCEPT ![o.key] = o.value]
       /\ untold' = IF m_params[o.key] = o.value THEN untold \ {o.key} ELSE untold \cup {o.key}
       /\ Show(o)
  /\ Done(t)
  /\ UNCHANGED <<m_params, streamVars, callVars, threadVars, ret, faults>>

(* which may refuse: the field keeps the new value. *)
TellRefused(t) ==
  /\ At(t, "tell") /\ Fault
  /\ LET o == Head(todo[t]) IN
       untold' = untold \cup {o.key} /\ unreported' = unreported \cup {o.key}
  /\ Done(t) /\ Answer(t)
  /\ UNCHANGED <<mParameters, m_params, sensor, streamVars, callVars, threadVars>>

(* Face detection first puts the sensor, not the field, in automatic focus. *)
Displace(t) ==
  /\ At(t, "displace")
  /\ sensor' = [sensor EXCEPT !.focus = "auto"]
  /\ untold' = IF m_params.focus = "auto" THEN untold \ {"focus"} ELSE untold \cup {"focus"}
  /\ Done(t)
  /\ UNCHANGED <<mParameters, m_params, unreported, streamVars, callVars, threadVars,
                 ret, faults>>
DisplaceRefused(t) ==
  /\ At(t, "displace") /\ Fault
  /\ untold' = untold \cup {"face"} /\ unreported' = unreported \cup {"face"}
  /\ Do(t, Tail(Tail(todo[t]))) /\ Answer(t)
  /\ UNCHANGED <<mParameters, m_params, sensor, streamVars, callVars, threadVars>>

(* setParameters goes on after a value it refuses, and shows the scene's
   frame rates before it has set the scene. *)
Refuse(t) ==
  /\ At(t, "refuse")
  /\ Done(t) /\ Answer(t)
  /\ UNCHANGED <<settingVars, streamVars, callVars, threadVars, faults>>
ShowFps(t) ==
  /\ At(t, "fps")
  /\ mParameters' = [mParameters EXCEPT !.fps = Head(todo[t]).shown]
  /\ Done(t)
  /\ UNCHANGED <<m_params, sensor, untold, unreported, streamVars, callVars, threadVars,
                 ret, faults>>
BatchReflection(t) ==
  /\ At(t, "batch")
  /\ \/ UNCHANGED <<ret, faults>>
     \/ ret = "ok" /\ mPreviewRunning /\ m_flag_camera_start /\ Fault /\ Answer(t)
  /\ Done(t)
  /\ UNCHANGED <<settingVars, streamVars, callVars, threadVars>>

-----------------------------------------------------------------------------
(* Steps of starting the stream, by the service or by the preview thread,
   which has nothing to do after it. *)

AlreadyStarted(t) ==
  /\ At(t, "begin")
  /\ IF m_flag_camera_start THEN Do(t, IF t = "service" THEN Wake ELSE <<>>) ELSE Done(t)
  /\ UNCHANGED <<settingVars, streamVars, callVars, threadVars, ret, faults>>

(* The device has no buffers to give while it streams. *)
RequestBuffers(t) ==
  /\ At(t, "buffers") /\ ~streaming
  /\ Done(t)
  /\ UNCHANGED <<settingVars, streamVars, callVars, threadVars, ret, faults>>
BuffersRefused(t) ==
  /\ At(t, "buffers") /\ streaming
  /\ Do(t, <<>>) /\ Answer(t)
  /\ UNCHANGED <<settingVars, streamVars, callVars, threadVars, faults>>

SendSettings(t) ==
  /\ At(t, "send")
  /\ LET told == {k \in Head(todo[t]).keys : m_params[k] # None} IN
       /\ sensor' = [k \in Settings |-> IF k \in told THEN m_params[k] ELSE sensor[k]]
       /\ untold' = untold \ told
  /\ Done(t)
  /\ UNCHANGED <<mParameters, m_params, unreported, streamVars, callVars, threadVars,
                 ret, faults>>

StreamOn(t) ==
  /\ At(t, "streamon")
  /\ streaming' = TRUE
  /\ sensor' = [k \in Settings |-> IF k \in NotKept(camera) THEN None ELSE sensor[k]]
  /\ Done(t)
  /\ UNCHANGED <<mParameters, m_params, untold, unreported, m_flag_camera_start, cut,
                 callVars, threadVars, ret, faults>>

SetStarted(t) ==
  /\ At(t, "started")
  /\ m_flag_camera_start' = TRUE
  /\ Done(t)
  /\ UNCHANGED <<settingVars, streaming, cut, callVars, threadVars, ret, faults>>

FirstFrame(t) ==
  /\ At(t, "frame")
  /\ Done(t)
  /\ UNCHANGED <<settingVars, streamVars, callVars, threadVars, ret, faults>>

(* Any device call of it may fail, and nothing is undone. *)
StartFails(t) ==
  /\ \E op \in {"buffers", "send", "streamon", "frame"} : At(t, op)
  /\ Fault
  /\ cut' = (cut \/ (streaming /\ ~m_flag_camera_start))
  /\ Do(t, <<>>) /\ Answer(t)
  /\ UNCHANGED <<settingVars, streaming, m_flag_camera_start, callVars, threadVars>>

(* The service leaves the stream to the preview thread. *)
WakePreview(t) ==
  /\ At(t, "wake")
  /\ parked' = FALSE
  /\ Done(t)
  /\ UNCHANGED <<settingVars, streamVars, callVars, mPreviewRunning, mExitPreviewThread,
                 ret, faults>>

-----------------------------------------------------------------------------
(* Steps of stopping it: stopPreview and stopStream of SecCamera. *)

BeginStop(t) ==
  /\ At(t, "stop")
  /\ Do(t, (IF ~m_flag_camera_start THEN <<>>
            ELSE (IF m_params.flash = "torch" THEN Set("flash", "off", None) ELSE <<>>)
                   \o <<[op |-> "streamoff"], [op |-> "stopped"]>>)
             \o Tail(todo[t]))
  /\ UNCHANGED <<settingVars, streamVars, callVars, threadVars, ret, faults>>

StreamOff(t) ==
  /\ At(t, "streamoff")
  /\ streaming' = FALSE
  /\ sensor' = [k \in Settings |-> None]
  /\ Done(t)
  /\ UNCHANGED <<mParameters, m_params, untold, unreported, m_flag_camera_start, cut,
                 callVars, threadVars, ret, faults>>
StreamOffFails(t) ==
  /\ At(t, "streamoff") /\ Fault
  /\ Do(t, Tail(Tail(todo[t])))
  /\ UNCHANGED <<settingVars, streamVars, callVars, threadVars, ret>>

(* Deviation for the mutation runs: the flag is forgotten. *)
SetStoppedKeeps(t) ==
  /\ At(t, "stopped")
  /\ Done(t)
  /\ UNCHANGED <<settingVars, streamVars, callVars, threadVars, ret, faults>>
SetStopped(t) ==
  /\ At(t, "stopped")
  /\ m_flag_camera_start' = FALSE /\ cut' = FALSE
  /\ Done(t)
  /\ UNCHANGED <<settingVars, streaming, callVars, threadVars, ret, faults>>

-----------------------------------------------------------------------------
(* The preview thread. *)

(* getPreview: no data have come, or the camera is not started. *)
NoData ==
  /\ todo["preview"] = <<>> /\ ~parked
  /\ mPreviewRunning /\ ~mExitPreviewThread
  /\ Do("preview", <<[op |-> "stop"], [op |-> "look"]>>)
  /\ UNCHANGED <<settingVars, streamVars, callVars, threadVars, ret, faults>>

(* It gives up when it finds its input, and starts again when it does not. *)
InputFound ==
  /\ At("preview", "look")
  /\ Done("preview")
  /\ UNCHANGED <<settingVars, streamVars, callVars, threadVars, ret, faults>>
InputNotFound ==
  /\ At("preview", "look") /\ Fault
  /\ Do("preview", Start(camera))
  /\ UNCHANGED <<settingVars, streamVars, callVars, threadVars, ret>>

(* previewThreadWrapper: the preview is to stop, or the thread to exit. *)
PreviewStops ==
  /\ todo["preview"] = <<>> /\ ~parked
  /\ ~mPreviewRunning \/ mExitPreviewThread
  /\ Do("preview", <<[op |-> "stop"], [op |-> "park"]>>)
  /\ UNCHANGED <<settingVars, streamVars, callVars, threadVars, ret, faults>>
Park ==
  /\ At("preview", "park")
  /\ parked' = TRUE
  /\ Done("preview")
  /\ UNCHANGED <<settingVars, streamVars, callVars, mPreviewRunning, mExitPreviewThread,
                 ret, faults>>

-----------------------------------------------------------------------------
(* The service's calls. *)

Waiting == (~mPreviewRunning \/ mExitPreviewThread) /\ ~parked
Free == todo["service"] = <<>> /\ ~Waiting
Opened == camera # None /\ ~mExitPreviewThread
Calling(c, r) == Free /\ call' = c /\ asked' = r /\ UNCHANGED client

(* Makes the HAL's object, init() and initDefaultParameters. *)
Open(c) ==
  /\ camera = None /\ Calling("open", None)
  /\ camera' = c
  /\ mParameters' = Defaults(c)
  /\ mPreviewRunning' = FALSE /\ mExitPreviewThread' = FALSE /\ parked' = TRUE
  /\ Do("service", Parameters(c, Defaults(c)) \o Initial(c))
  /\ ret' = "ok"
  /\ UNCHANGED <<m_params, sensor, untold, unreported, streamVars, faults>>

SetParameters(r) ==
  /\ Opened /\ "face" \notin DOMAIN r /\ Calling("setParameters", r)
  /\ Do("service", Parameters(camera, [k \in Keys |-> IF k \in DOMAIN r THEN r[k]
                                                      ELSE mParameters[k]]))
  /\ ret' = "ok"
  /\ UNCHANGED <<camera, settingVars, streamVars, threadVars, faults>>

StartPreview ==
  /\ Opened /\ Calling("startPreview", None)
  /\ mPreviewRunning' = TRUE
  /\ IF mPreviewRunning
     THEN ret' = "error" /\ UNCHANGED todo
     ELSE ret' = "ok" /\ Do("service", Start(camera) \o Wake)
  /\ UNCHANGED <<camera, settingVars, streamVars, mExitPreviewThread, parked, faults>>

StopPreview ==
  /\ Opened /\ Calling("stopPreview", None)
  /\ Do("service", IF ~mPreviewRunning THEN <<>>
                   ELSE (IF mParameters.face = "on" THEN Set("face", "off", "off") ELSE <<>>)
                          \o <<[op |-> "halt"]>>)
  /\ ret' = "ok"
  /\ UNCHANGED <<camera, settingVars, streamVars, threadVars, faults>>
(* The preview thread is signalled and waited for. *)
Halt ==
  /\ At("service", "halt")
  /\ mPreviewRunning' = FALSE /\ parked' = FALSE
  /\ Done("service")
  /\ UNCHANGED <<settingVars, streamVars, callVars, mExitPreviewThread, ret, faults>>

(* sendCommand: face detection is started or stopped. *)
SendCommand(r) ==
  /\ Opened /\ DOMAIN r = {"face"} /\ Calling("sendCommand", r)
  /\ IF mPreviewRunning
     THEN /\ ret' = "ok"
          /\ Do("service", IF mParameters.face = r.face THEN <<>>
                           ELSE Set("face", r.face, r.face))
     ELSE ret' = "error" /\ UNCHANGED todo
  /\ UNCHANGED <<camera, settingVars, streamVars, threadVars, faults>>

(* release() waits for the preview thread, and closes the device. *)
Release ==
  /\ Opened /\ Calling("release", None)
  /\ mExitPreviewThread' = TRUE /\ mPreviewRunning' = TRUE /\ parked' = FALSE
  /\ UNCHANGED <<camera, settingVars, streamVars, ret, todo, faults>>
Close ==
  /\ camera # None /\ mExitPreviewThread /\ Free
  /\ camera' = None
  /\ streaming' = FALSE
  /\ sensor' = [k \in Settings |-> None]
  /\ cut' = m_flag_camera_start
  /\ UNCHANGED <<client, call, asked, mParameters, m_params, untold, unreported,
                 m_flag_camera_start, threadVars, ret, todo, faults>>

-----------------------------------------------------------------------------
(* The process has just started. *)
Init ==
  /\ client \in Clients
  /\ camera = None /\ call = "none" /\ asked = None /\ ret = "ok"
  /\ mParameters = [k \in Keys |-> None]
  /\ m_params = [k \in Settings |-> None]
  /\ sensor = [k \in Settings |-> None]
  /\ untold = {} /\ unreported = {}
  /\ streaming = FALSE /\ m_flag_camera_start = FALSE /\ cut = FALSE
  /\ mPreviewRunning = FALSE /\ mExitPreviewThread = FALSE /\ parked = TRUE
  /\ todo = [t \in Threads |-> <<>>]
  /\ faults = 0

Setter(t) == Same(t) \/ Store(t) \/ Check(t) \/ Tell(t) \/ TellRefused(t)
               \/ Displace(t) \/ DisplaceRefused(t)
ParameterStep(t) == Refuse(t) \/ ShowFps(t) \/ BatchReflection(t)
StartStep(t) == AlreadyStarted(t) \/ RequestBuffers(t) \/ BuffersRefused(t)
                  \/ SendSettings(t) \/ StreamOn(t) \/ SetStarted(t) \/ FirstFrame(t)
                  \/ StartFails(t) \/ WakePreview(t)
StopStep(t) == BeginStop(t) \/ StreamOff(t) \/ StreamOffFails(t) \/ SetStopped(t)
PreviewStep == NoData \/ InputFound \/ InputNotFound \/ PreviewStops \/ Park
ServiceStep == \/ \E c \in client.cameras : Open(c)
               \/ \E r \in client.changes : SetParameters(r) \/ SendCommand(r)
               \/ StartPreview \/ StopPreview \/ Halt \/ Release \/ Close

Next == \/ \E t \in Threads : Setter(t) \/ ParameterStep(t) \/ StartStep(t) \/ StopStep(t)
        \/ PreviewStep
        \/ ServiceStep

Spec == Init /\ [][Next]_vars

-----------------------------------------------------------------------------
(* Properties. *)

Ops == {"set", "check", "tell", "displace", "refuse", "fps", "batch", "begin", "buffers",
        "send", "streamon", "started", "frame", "wake", "halt", "stop", "streamoff",
        "stopped", "look", "park"}

(* What the variables hold: the steps left are steps the threads know, the
   ghost sets are sets of settings, and a closed camera runs nothing. *)
TypeOK ==
  /\ client \in Clients /\ camera \in client.cameras \cup {None}
  /\ DOMAIN mParameters = Keys /\ DOMAIN m_params = Settings /\ DOMAIN sensor = Settings
  /\ \A b \in {streaming, m_flag_camera_start, cut, mPreviewRunning, mExitPreviewThread,
               parked} : b \in BOOLEAN
  /\ asked \in client.changes \cup {None} /\ ret \in {"ok", "error"}
  /\ DOMAIN todo = Threads
  /\ \A t \in Threads : \A i \in DOMAIN todo[t] : todo[t][i].op \in Ops
  /\ camera = None => todo = [t \in Threads |-> <<>>]
  /\ faults \in 0 .. client.faults
  /\ untold \subseteq Settings /\ unreported \subseteq Settings

Rest == todo = [t \in Threads |-> <<>>]

(* While the preview runs and no setter is under way, every setting that a
   start sends is in the sensor as the fields have it: whether it was set
   before the start, in the preview, or while the preview thread was starting
   again after a loss of data.  The sensor may differ only where it refused a
   value, where a start in the preview thread had passed the setting before
   its setter saw the flag, where a stop put out a torch that was being lit,
   and in the focus mode after face detection; and without a failing device
   only in the last two. *)
SensorTold ==
  Rest =>
    /\ m_flag_camera_start /\ streaming =>
         \A k \in Resent(camera) \ untold : m_params[k] # None => sensor[k] = m_params[k]
    /\ faults = 0 => untold \subseteq {"focus", "flash"}

(* What the client reads is what SecCamera keeps, converted, when no call is
   under way, and where the sensor refused nothing.  The code's exceptions:
   the defaults of contrast and ISO are set past mParameters; flash and scene
   keep what an earlier session left until a scene is named, and a torch is
   put out by the end of the stream, which may come after another flash mode
   has been set in its place; image stabilisation is never shown. *)
ReportedStored ==
  Opened /\ Free =>
    \A k \in (Keys \cap Settings) \ (unreported \cup {"antiShake"}) :
      mParameters[k] # None =>
        \/ m_params[k] = Code(k, mParameters[k])
        \/ k = "contrast" /\ mParameters[k] = 0 /\ m_params[k] = CONTRAST_DEFAULT
        \/ k = "iso" /\ mParameters[k] = "100" /\ m_params[k] = "auto"
        \/ k = "flash" /\ (mParameters.scene = None \/ m_params[k] = "off")
        \/ k = "face" /\ mParameters[k] = "off"

(* Once setParameters has returned OK, the parameters show every zoom, brightness,
   contrast, white balance, ISO, focus mode, scene and effect it was asked for, but
   for numbers beyond the limits of the open camera, which it passes over with OK (any
   zoom of the front camera); and when they name a scene, the frame rates and the
   flash they show are the scene's, with the flash asked for where the scene is "auto".
   OK promises nothing of the other keys: while no scene is named, frame rates
   (SecCameraHWInterface.cpp 1558-1563) and a flash (1603-1687) are passed over with
   OK, and what is made of "antiShake" is never shown.  Nor does it promise that the
   sensor has the value: one that it refused is shown when it is asked for again. *)
Ignored(c, k, v) == \/ k = "zoom" /\ v \notin 0 .. MaxZoom(c)
                    \/ k = "brightness" /\ v \notin -4 .. 4
                    \/ k = "contrast" /\ v \notin -2 .. 2
OkMeansDone ==
  Opened /\ Free /\ call = "setParameters" /\ ret = "ok" =>
    /\ \A k \in DOMAIN asked \ {"fps", "flash", "antiShake"} :
         mParameters[k] = asked[k] \/ Ignored(camera, k, asked[k])
    /\ mParameters.scene # None =>
         /\ mParameters.fps = FpsOf(mParameters.scene)
         /\ "flash" \in DOMAIN asked /\ mParameters.scene = "auto" =>
              mParameters.flash = asked["flash"]
         /\ mParameters.scene # "auto" =>
              mParameters.flash = FlashOf(mParameters.scene, None)

(* SecCamera's flag tells whether the device streams, when nobody is starting
   or stopping it, unless a start failed with the stream already on, or the
   device was closed after the stream could not be stopped. *)
FlagTellsStream == Rest /\ ~cut => (m_flag_camera_start <=> streaming)

=============================================================================
