------------------------ MODULE OmxDecoderParameters ------------------------
(***************************************************************************)
(* The parameters of the video decoders, SEC_OMX_Vdec.c, SEC_OMX_H264dec.c *)
(* and SEC_OMX_Mpeg4dec.c, and what depends on them: the size of the       *)
(* buffers a client is told to bring, the header of a stream that turns    *)
(* out to have another size, and the pictures that are written afterwards. *)
(*                                                                         *)
(* One thread of the client configures the component, starts it, answers   *)
(* OMX_EventPortSettingsChanged by bringing new output buffers, and stops  *)
(* it.  It is polite: an output size it sets is the input's, it asks for   *)
(* native buffers only in Loaded, for colours only while it has brought no *)
(* output buffers, and it starts nothing after OMX_ErrorUnsupportedSetting.*)
(* That every buffer is brought on its own, and that a command is answered *)
(* by an event, is OmxLifecycle's.                                         *)
(***************************************************************************)
EXTENDS OmxParameters

CONSTANTS Codecs,    \* among "h264", "mpeg4", "h263"
          Sizes,     \* of pictures: pairs of a width and a height
          Crops,     \* what a header cuts off: pairs of a right and a bottom offset
          Bitrates, Priorities, Counts,  \* what a client may ask for
          MaxCalls   \* bound on its calls

VARIABLES component,
          event,  \* the port settings event not answered yet, with its index
          img,    \* the size of the pictures the device decodes
          shows,  \* the rectangle the client shows of a picture
          ret,    \* what the last call answered
          calls

vars == <<component, event, img, shows, ret, calls>>

DEFAULT_FRAME == <<176, 144>>
MAX_VIDEO_INPUTBUFFER_NUM == 5
MAX_VIDEO_OUTPUTBUFFER_NUM == 2
ANDROID_MAX_VIDEO_OUTPUTBUFFER_NUM == 1

Whole(size) == [nLeft |-> 0, nTop |-> 0, nWidth |-> size[1], nHeight |-> size[2]]

-----------------------------------------------------------------------------
\* SEC_OMX_Vdec.c

VideoPort(p, count, size) ==
  [def |-> [nPortIndex |-> p, bEnabled |-> TRUE, bPopulated |-> FALSE,
            nBufferCountActual |-> count, nBufferCountMin |-> count, nBufferSize |-> size,
            nFrameWidth |-> 0, nFrameHeight |-> 0, nStride |-> 0, nSliceHeight |-> 0,
            nBitrate |-> 64000, xFramerate |-> 15,
            eColorFormat |-> "Unused", eCompressionFormat |-> "Unused"],
   nAllocLen |-> 0,                       \* of each of its buffers, 0 without
   portState |-> "Loaded", eControlRate |-> "Disable",
   cropRectangle |-> Whole(<<0, 0>>), bUseAndroidNativeBuffer |-> FALSE]

SEC_OMX_VideoDecodeComponentInit ==
  [currentState |-> "Loaded",
   port |-> INPUT_PORT_INDEX :> VideoPort(INPUT_PORT_INDEX, MAX_VIDEO_INPUTBUFFER_NUM, 0)
            @@ OUTPUT_PORT_INDEX :>
                 VideoPort(OUTPUT_PORT_INDEX, MAX_VIDEO_OUTPUTBUFFER_NUM,
                           YUV420Size(DEFAULT_FRAME[1], DEFAULT_FRAME[2])),
   compPriority |-> [nGroupID |-> 0, nGroupPriority |-> 0]]

OutputFormats == <<"YUV420Planar", "YUV420SemiPlanar", "NV12TPhysicalAddress">>

GetPortFormat(comp, s) ==
  LET def == comp.port[s.nPortIndex].def
  IN  CASE s.nPortIndex \notin Ports -> Refused("BadPortIndex", s)
        [] s.nPortIndex = INPUT_PORT_INDEX ->
             IF s.nIndex > 0 THEN Refused("NoMore", s)
             ELSE Done(Over([eCompressionFormat |-> def.eCompressionFormat,
                             eColorFormat |-> def.eColorFormat,
                             xFramerate |-> def.xFramerate], s))
        [] OTHER ->
             IF s.nIndex >= Len(OutputFormats) THEN Refused("NoMore", s)
             ELSE Done(Over([eCompressionFormat |-> "Unused",
                             eColorFormat |-> OutputFormats[s.nIndex + 1],
                             xFramerate |-> def.xFramerate], s))

SEC_OMX_VideoDecodeGetParameter(comp, index, s) ==
  IF comp.currentState = "Invalid" THEN Done(s)
  ELSE CASE index = "VideoInit" -> Done(Over([nPorts |-> 2, nStartPortNumber |-> 0], s))
         [] index = "VideoPortFormat" -> GetPortFormat(comp, s)
         [] index = "VideoBitrate" -> GetBitrate(comp, INPUT_PORT_INDEX, s)
         [] index = "GetAndroidNativeBuffer" ->
              IF s.nPortIndex # OUTPUT_PORT_INDEX THEN Refused("BadPortIndex", s)
              ELSE Done(Over([nUsage |-> "SW_WRITE_OFTEN"], s))
         [] OTHER -> SEC_OMX_GetParameter(comp, index, s)

\* The colour stays when native buffers are given up again.
enableAndroidNativeBuffer(comp, s) ==
  LET count == IF s.enable THEN ANDROID_MAX_VIDEO_OUTPUTBUFFER_NUM
                           ELSE MAX_VIDEO_OUTPUTBUFFER_NUM
      counts == [nBufferCountActual |-> count, nBufferCountMin |-> count]
      colour == IF s.enable THEN [eColorFormat |-> "ANBYUV420SemiPlanar"] ELSE << >>
  IN  [Define(comp, s.nPortIndex, Over(counts, colour))
         EXCEPT !.port[s.nPortIndex].bUseAndroidNativeBuffer = s.enable]

\* All buffers of a port, brought at once.
BringBuffers(comp, p, nSizeBytes) ==
  [Define(comp, p, [bPopulated |-> TRUE]) EXCEPT !.port[p].nAllocLen = nSizeBytes]

useAndroidNativeBuffer(comp, s) ==
  IF comp.port[s.nPortIndex].portState # "Idle"
  THEN Refused("IncorrectStateOperation", comp)
  ELSE Done(BringBuffers(comp, s.nPortIndex,
                         YUV420Size(Align16(s.width), Align16(s.height))))

SEC_OMX_VideoDecodeSetParameter(comp, index, s) ==
  IF comp.currentState = "Invalid" THEN Done(comp)
  ELSE CASE index = "VideoPortFormat" -> SetPortFormat(comp, s)
         [] index = "VideoBitrate" -> SetBitrate(comp, INPUT_PORT_INDEX, s)
         [] index = "EnableAndroidBuffers" ->
              IF s.nPortIndex # OUTPUT_PORT_INDEX THEN Refused("BadPortIndex", comp)
              ELSE Done(enableAndroidNativeBuffer(comp, s))
         [] index = "UseAndroidNativeBuffer" ->
              IF s.nPortIndex # OUTPUT_PORT_INDEX THEN Refused("BadPortIndex", comp)
              ELSE useAndroidNativeBuffer(comp, s)
         [] OTHER -> SEC_OMX_SetParameter(comp, index, s)

\* Without the size of a buffer.
UpdateFrameSizeOnly(comp) ==
  LET i == comp.port[INPUT_PORT_INDEX].def
  IN  Define(comp, OUTPUT_PORT_INDEX,
             [nFrameWidth |-> i.nFrameWidth, nFrameHeight |-> i.nFrameHeight,
              nStride |-> i.nStride, nSliceHeight |-> i.nSliceHeight])

\* The output port follows the input port's size.
SEC_UpdateFrameSize(comp) ==
  LET i == comp.port[INPUT_PORT_INDEX].def
      o == comp.port[OUTPUT_PORT_INDEX].def
      bytes == IF o.eColorFormat \in {"YUV420Planar", "YUV420SemiPlanar", "ANBYUV420SemiPlanar"}
               THEN YUV420Size(i.nStride, i.nSliceHeight)
               ELSE i.nStride * i.nSliceHeight * 2
  IN  IF o.nFrameWidth = i.nFrameWidth /\ o.nFrameHeight = i.nFrameHeight THEN comp
      ELSE Define(comp, OUTPUT_PORT_INDEX,
                  [nFrameWidth |-> i.nFrameWidth, nFrameHeight |-> i.nFrameHeight,
                   nStride |-> i.nStride, nSliceHeight |-> i.nSliceHeight,
                   nBufferSize |-> bytes])

-----------------------------------------------------------------------------
\* What SEC_OMX_H264dec.c and SEC_OMX_Mpeg4dec.c have in common, in the words of
\* the former.

\* A port's buffers have to hold a picture, and the output port takes the size of
\* the input port; a colour it has no size for is complained about afterwards.
SetCodedPortDefinition(comp, s) ==
  LET w == Align16(s.nFrameWidth)
      h == Align16(s.nFrameHeight)
      size == YUV420Size(w, h)
      set == Define(comp, s.nPortIndex,
                    Over([nStride |-> w, nSliceHeight |-> h,
                          nBufferSize |-> IF size > s.nBufferSize THEN size ELSE s.nBufferSize],
                         s))
      known == set.port[OUTPUT_PORT_INDEX].def.eColorFormat
                 \in {"YUV420Planar", "YUV420SemiPlanar", "NV12TPhysicalAddress",
                      "ANBYUV420SemiPlanar"}
      follow == Define(set, OUTPUT_PORT_INDEX,
                       Over([nFrameWidth |-> s.nFrameWidth, nFrameHeight |-> s.nFrameHeight,
                             nStride |-> w, nSliceHeight |-> h],
                            IF known THEN [nBufferSize |-> size] ELSE << >>))
  IN  IF PortDefinitionError(comp, s) # "None"
      THEN Refused(PortDefinitionError(comp, s), comp)
      ELSE IF s.nPortIndex = OUTPUT_PORT_INDEX THEN Done(set)
      ELSE IF known THEN Done(follow) ELSE Refused("UnsupportedSetting", follow)

CodecComponentInit(codec, coding, structs, profileLevel) ==
  LET comp == SEC_OMX_VideoDecodeComponentInit
      size == [nFrameWidth |-> DEFAULT_FRAME[1], nFrameHeight |-> DEFAULT_FRAME[2]]
      i == [eCompressionFormat |-> coding, nBufferSize |-> DEFAULT_FRAME[1] * DEFAULT_FRAME[2] * 2]
      o == [eColorFormat |-> "YUV420SemiPlanar"]
  IN  Over([codec |-> codec,
            param |-> [t \in structs |-> [p \in Ports |-> profileLevel[t]]],
            errorCorrection |-> FALSE, bThumbnailMode |-> FALSE, bConfiguredMFC |-> FALSE],
           Define(Define(comp, INPUT_PORT_INDEX, Over(size, i)),
                  OUTPUT_PORT_INDEX, Over(size, o)))

-----------------------------------------------------------------------------
\* SEC_OMX_H264dec.c

supportedAVCProfileLevels ==
  ProfileLevels(<<"Baseline", "Main", "High">>,
                <<"1", "1b", "11", "12", "13", "2", "21", "22", "3", "31">>)

SEC_MFC_H264Dec_GetParameter(comp, index, s) ==
  IF comp.currentState = "Invalid" THEN Done(s)
  ELSE CASE index \in {"VideoAvc", "VideoProfileLevelCurrent"} -> GetStruct(comp, "Avc", ProfileLevel, s)
         [] index = "StandardComponentRole" -> Done(Over([cRole |-> "video_decoder.avc"], s))
         [] index = "VideoProfileLevelQuerySupported" ->
              QueryProfileLevel(supportedAVCProfileLevels, s)
         [] index = "VideoErrorCorrection" -> GetErrorCorrection(comp, INPUT_PORT_INDEX, s)
         [] OTHER -> SEC_OMX_VideoDecodeGetParameter(comp, index, s)

SEC_MFC_H264Dec_SetParameter(comp, index, s) ==
  IF comp.currentState = "Invalid" THEN Done(comp)
  ELSE CASE index \in {"VideoAvc", "VideoProfileLevelCurrent"} -> SetStruct(comp, "Avc", ProfileLevel, s)
         [] index = "StandardComponentRole" ->
              SetRole(comp, INPUT_PORT_INDEX, [r \in {"video_decoder.avc"} |-> "AVC"], s)
         [] index = "PortDefinition" -> SetCodedPortDefinition(comp, s)
         [] index = "VideoErrorCorrection" -> SetErrorCorrection(comp, INPUT_PORT_INDEX, s)
         [] OTHER -> SEC_OMX_VideoDecodeSetParameter(comp, index, s)

\* What is cut off is known only once a header has been decoded.
SEC_MFC_H264Dec_GetConfig(comp, index, s) ==
  IF comp.currentState = "Invalid" THEN Refused("InvalidState", s)
  ELSE IF index # "CommonOutputCrop" THEN SEC_OMX_GetConfig(comp, s)
  ELSE IF ~comp.bConfiguredMFC THEN Refused("NotReady", s)
  ELSE IF s.nPortIndex \notin Ports THEN Refused("BadPortIndex", s)
  ELSE Done(Over(comp.port[s.nPortIndex].cropRectangle, s))

SEC_MFC_H264Dec_SetConfig(comp, index, value) ==
  IF comp.currentState = "Invalid" THEN Refused("InvalidState", comp)
  ELSE IF index # "VendorThumbnailMode" THEN SEC_OMX_SetConfig(comp)
  ELSE Done([comp EXCEPT !.bThumbnailMode = value])

SEC_MFC_H264Dec_GetExtensionIndex(comp, name) ==
  LET indexes == [thumbnail |-> "VendorThumbnailMode", enableANB |-> "EnableAndroidBuffers",
                  getANB |-> "GetAndroidNativeBuffer", useANB |-> "UseAndroidNativeBuffer"]
  IN  IF comp.currentState # "Invalid" /\ name \in DOMAIN indexes THEN Done(indexes[name])
      ELSE SEC_OMX_GetExtensionIndex(comp)

SEC_MFC_H264Dec_ComponentRoleEnum(nIndex) ==
  IF nIndex = 0 THEN Done("video_decoder.avc") ELSE Refused("NoMore", "none")

H264ComponentInit ==
  CodecComponentInit("h264", "AVC", {"Avc"},
                     [Avc |-> [eProfile |-> "Baseline", eLevel |-> "4"]])

\* The input port takes the size of the stream.
TakeSize(comp, size) ==
  SEC_UpdateFrameSize(Define(comp, INPUT_PORT_INDEX,
    [nFrameWidth |-> size[1], nFrameHeight |-> size[2],
     nStride |-> Align16(size[1]), nSliceHeight |-> Align16(size[2])]))

HasSize(comp, size) ==
  LET i == comp.port[INPUT_PORT_INDEX].def
  IN  i.nFrameWidth = size[1] /\ i.nFrameHeight = size[2]

\* The first buffer of an AVC stream that holds pictures of this size, of which
\* cut is cut off on the right and at the bottom.
SEC_MFC_H264_Header(size, cut) ==
  LET known == [component EXCEPT !.bConfiguredMFC = TRUE,
                  !.port[OUTPUT_PORT_INDEX].cropRectangle =
                     Whole(<<size[1] - cut[1], size[2] - cut[2]>>)]
  IN  IF cut # <<0, 0>>
      THEN component' = TakeSize(known, size) /\ event' = "CommonOutputCrop"
      ELSE IF ~HasSize(component, size)
      THEN component' = TakeSize(known, size) /\ event' = "Settings"
      ELSE component' = known /\ UNCHANGED event

-----------------------------------------------------------------------------
\* SEC_OMX_Mpeg4dec.c, which decodes H.263 too; the name it was loaded under tells.

supportedMPEG4ProfileLevels ==
  ProfileLevels(<<"Simple", "AdvancedSimple">>,
                <<"0", "0b", "1", "2", "3", "4", "4a", "5">>)

supportedH263ProfileLevels ==
  ProfileLevels(<<"Baseline", "H320Coding", "BackwardCompatible", "ISWV2">>,
                <<"10", "20", "30", "40", "45", "50", "60", "70">>)

Struct(comp) == IF comp.codec = "mpeg4" THEN "Mpeg4" ELSE "H263"

SEC_MFC_Mpeg4Dec_ComponentRoleEnum(comp, nIndex) ==
  IF nIndex # 0 THEN Refused("NoMore", "none")
  ELSE IF comp.currentState = "Invalid" THEN Done("none")
  ELSE Done(IF comp.codec = "mpeg4" THEN "video_decoder.mpeg4" ELSE "video_decoder.h263")

SEC_MFC_Mpeg4Dec_GetParameter(comp, index, s) ==
  IF comp.currentState = "Invalid" THEN Done(s)
  ELSE CASE index = "VideoMpeg4" -> GetStruct(comp, "Mpeg4", ProfileLevel, s)
         [] index = "VideoH263" -> GetStruct(comp, "H263", ProfileLevel, s)
         [] index = "StandardComponentRole" ->
              Done(Over([cRole |-> SEC_MFC_Mpeg4Dec_ComponentRoleEnum(comp, 0).out], s))
         [] index = "VideoProfileLevelQuerySupported" ->
              QueryProfileLevel(IF comp.codec = "mpeg4" THEN supportedMPEG4ProfileLevels
                                ELSE supportedH263ProfileLevels, s)
         [] index = "VideoProfileLevelCurrent" -> GetStruct(comp, Struct(comp), ProfileLevel, s)
         [] index = "VideoErrorCorrection" -> GetErrorCorrection(comp, INPUT_PORT_INDEX, s)
         [] OTHER -> SEC_OMX_VideoDecodeGetParameter(comp, index, s)

\* Either role may be asked for, but the codec stays the one of the name.
SEC_MFC_Mpeg4Dec_SetParameter(comp, index, s) ==
  IF comp.currentState = "Invalid" THEN Done(comp)
  ELSE CASE index = "VideoMpeg4" -> SetStruct(comp, "Mpeg4", ProfileLevel, s)
         [] index = "VideoH263" -> SetStruct(comp, "H263", ProfileLevel, s)
         [] index = "StandardComponentRole" ->
              SetRole(comp, INPUT_PORT_INDEX,
                      "video_decoder.mpeg4" :> "MPEG4" @@ "video_decoder.h263" :> "H263", s)
         [] index = "PortDefinition" -> SetCodedPortDefinition(comp, s)
         [] index = "VideoProfileLevelCurrent" -> SetStruct(comp, Struct(comp), ProfileLevel, s)
         [] index = "VideoErrorCorrection" -> SetErrorCorrection(comp, INPUT_PORT_INDEX, s)
         [] OTHER -> SEC_OMX_VideoDecodeSetParameter(comp, index, s)

\* What is cut off of a picture is not told.
SEC_MFC_Mpeg4Dec_GetConfig(comp, s) ==
  IF comp.currentState = "Invalid" THEN Refused("InvalidState", s)
  ELSE SEC_OMX_GetConfig(comp, s)

Mpeg4ComponentInit(codec) ==
  CodecComponentInit(codec, IF codec = "mpeg4" THEN "MPEG4" ELSE "H263", {"Mpeg4", "H263"},
    IF codec = "mpeg4"
    THEN [Mpeg4 |-> [eProfile |-> "Simple", eLevel |-> "3"], H263 |-> Unset]
    ELSE [Mpeg4 |-> Unset, H263 |-> [eProfile |-> "BaselineOrISWV2", eLevel |-> "45"]])

SEC_MFC_Mpeg4_Header(size) ==
  IF HasSize(component, size)
  THEN component' = [component EXCEPT !.bConfiguredMFC = TRUE] /\ UNCHANGED event
  ELSE /\ component' = [TakeSize(component, size) EXCEPT !.bConfiguredMFC = TRUE]
       /\ event' = "Settings"

-----------------------------------------------------------------------------
\* The functions the component was given.

GetParameter(comp, index, s) ==
  IF comp.codec = "h264" THEN SEC_MFC_H264Dec_GetParameter(comp, index, s)
  ELSE SEC_MFC_Mpeg4Dec_GetParameter(comp, index, s)

SetParameter(comp, index, s) ==
  IF comp.codec = "h264" THEN SEC_MFC_H264Dec_SetParameter(comp, index, s)
  ELSE SEC_MFC_Mpeg4Dec_SetParameter(comp, index, s)

GetConfig(comp, index, s) ==
  IF comp.codec = "h264" THEN SEC_MFC_H264Dec_GetConfig(comp, index, s)
  ELSE SEC_MFC_Mpeg4Dec_GetConfig(comp, s)

ComponentRoleEnum(comp, nIndex) ==
  IF comp.codec = "h264" THEN SEC_MFC_H264Dec_ComponentRoleEnum(nIndex)
  ELSE SEC_MFC_Mpeg4Dec_ComponentRoleEnum(comp, nIndex)

-----------------------------------------------------------------------------
\* The client

Init ==
  /\ component \in {IF c = "h264" THEN H264ComponentInit ELSE Mpeg4ComponentInit(c) : c \in Codecs}
  /\ event = "none" /\ ret = "None" /\ calls = 0
  /\ img = [size |-> <<0, 0>>, cut |-> <<0, 0>>] /\ shows = Whole(<<0, 0>>)

Def(p) == component.port[p].def
Ask(index, port, s) == [index |-> index, s |-> Over([nPortIndex |-> port], s)]

\* Profiles and colours are taken from what the component says it supports, but
\* for one colour; the indexes of Android's extensions are asked for by name.
Supported(index, counter, n) ==
  LET answer(i) == GetParameter(component, index,
                     Over(counter :> i, [nPortIndex |-> OUTPUT_PORT_INDEX]))
  IN  {answer(i).out : i \in {m \in n : answer(m).ret = "None"
                                       /\ component.currentState # "Invalid"}}

Extension(name) == SEC_MFC_H264Dec_GetExtensionIndex(component, name).out

Requests ==
  {Ask("PortDefinition", INPUT_PORT_INDEX, [nFrameWidth |-> z[1], nFrameHeight |-> z[2]]) :
     z \in Sizes}
  \cup {Ask("PortDefinition", OUTPUT_PORT_INDEX,
            [nFrameWidth |-> Def(INPUT_PORT_INDEX).nFrameWidth,
             nFrameHeight |-> Def(INPUT_PORT_INDEX).nFrameHeight])}
  \cup {Ask("PortDefinition", p, [nBufferCountActual |-> n]) : p \in Ports \cup {2}, n \in Counts}
  \cup {Ask("VideoBitrate", p, [eControlRate |-> "Constant", nTargetBitrate |-> b]) :
          p \in Ports, b \in Bitrates}
  \cup {Ask(index, p, [eProfile |-> l.eProfile, eLevel |-> l.eLevel]) :
          index \in {"VideoProfileLevelCurrent"}
                    \cup IF component.codec = "h264" THEN {"VideoAvc"} ELSE {"VideoMpeg4", "VideoH263"},
          p \in {OUTPUT_PORT_INDEX, 2},
          l \in Supported("VideoProfileLevelQuerySupported", "nProfileIndex", {3, 31})}
  \cup {Ask("VideoErrorCorrection", p, [bEnableResync |-> TRUE]) : p \in Ports}
  \cup {Ask("StandardComponentRole", INPUT_PORT_INDEX, [cRole |-> r]) :
          r \in {ComponentRoleEnum(component, 0).out, "video_decoder.h263", "video_encoder.avc"}}
  \cup {Ask(index, p, [eBufferSupplier |-> "Input", nGroupID |-> g, nGroupPriority |-> g]) :
          index \in {"VideoInit", "PriorityMgmt", "CompBufferSupplier", "VideoQuantization"},
          p \in Ports, g \in Priorities}
  \cup IF component.port[OUTPUT_PORT_INDEX].nAllocLen # 0 THEN {}
       ELSE {Ask("VideoPortFormat", p, [eColorFormat |-> c.eColorFormat, xFramerate |-> 15,
                                       eCompressionFormat |-> "Unused"]) :
               p \in {OUTPUT_PORT_INDEX, 2},
               c \in Supported("VideoPortFormat", "nIndex", 0 .. 3)
                     \cup {[eColorFormat |-> "CbYCrY"]}}
  \cup IF component.currentState # "Loaded" THEN {}
       ELSE {Ask(Extension("enableANB"), p, [enable |-> b]) : p \in Ports, b \in BOOLEAN}

\* Read what there is, change what is asked for, and set it.
Configure ==
  /\ calls < MaxCalls /\ ret # "UnsupportedSetting"
  /\ \E r \in Requests :
       LET read == GetParameter(component, r.index, [nPortIndex |-> r.s.nPortIndex, nIndex |-> 0,
                                                    nProfileIndex |-> 0])
           answer == SetParameter(component, r.index, Over(r.s, read.out))
       IN  component' = answer.out /\ ret' = answer.ret
  /\ calls' = calls + 1
  /\ UNCHANGED <<event, img, shows>>

Thumbnails ==
  /\ calls < MaxCalls /\ component.currentState = "Loaded" /\ ret # "UnsupportedSetting"
  /\ \E b \in BOOLEAN :
       component' = SEC_MFC_H264Dec_SetConfig(component, Extension("thumbnail"), b).out
  /\ ret' = "None" /\ calls' = calls + 1
  /\ UNCHANGED <<event, img, shows>>

SEC_OMX_UseBuffer(comp, p, nSizeBytes) ==
  IF comp.port[p].portState # "Idle" THEN Refused("IncorrectStateOperation", comp)
  ELSE Done(BringBuffers(comp, p, nSizeBytes))

\* The client brings the output port what it says it needs, or native buffers of
\* the size of its pictures.
BringOutput(comp) ==
  LET o == comp.port[OUTPUT_PORT_INDEX].def
  IN  IF comp.port[OUTPUT_PORT_INDEX].bUseAndroidNativeBuffer
      THEN SetParameter(comp, Extension("useANB"),
             [nPortIndex |-> OUTPUT_PORT_INDEX, width |-> o.nFrameWidth, height |-> o.nFrameHeight]).out
      ELSE SEC_OMX_UseBuffer(comp, OUTPUT_PORT_INDEX, o.nBufferSize).out

SetPortState(comp, p, state) == [comp EXCEPT !.port[p].portState = state]

Start ==
  /\ component.currentState = "Loaded" /\ ret # "UnsupportedSetting"
  /\ LET ready == SetPortState(SetPortState(component, INPUT_PORT_INDEX, "Idle"),
                              OUTPUT_PORT_INDEX, "Idle")
         fed == SEC_OMX_UseBuffer(ready, INPUT_PORT_INDEX, Def(INPUT_PORT_INDEX).nBufferSize).out
     IN  component' = [BringOutput(fed) EXCEPT !.currentState = "Executing",
                                              !.bConfiguredMFC = FALSE]
  /\ shows' = Whole(<<Def(OUTPUT_PORT_INDEX).nFrameWidth, Def(OUTPUT_PORT_INDEX).nFrameHeight>>)
  /\ ret' = "None"
  /\ UNCHANGED <<event, img, calls>>

Header ==
  /\ component.currentState = "Executing" /\ ~component.bConfiguredMFC
  /\ \E size \in Sizes, cut \in Crops :
       /\ img' = [size |-> size, cut |-> cut]
       /\ IF component.codec = "h264" THEN SEC_MFC_H264_Header(size, cut)
          ELSE cut = <<0, 0>> /\ SEC_MFC_Mpeg4_Header(size)
  /\ ret' = "None"
  /\ UNCHANGED <<shows, calls>>

\* The client's answer to a port settings event: it takes its buffers from the
\* disabled port, reads what has changed, and brings new ones.
DisableOutput ==
  /\ event # "none" /\ Def(OUTPUT_PORT_INDEX).bEnabled /\ component.currentState = "Executing"
  /\ component' = [SetPortState(Define(component, OUTPUT_PORT_INDEX,
                                       [bEnabled |-> FALSE, bPopulated |-> FALSE]),
                                OUTPUT_PORT_INDEX, "Loaded")
                     EXCEPT !.port[OUTPUT_PORT_INDEX].nAllocLen = 0]
  /\ ret' = "None"
  /\ UNCHANGED <<event, img, shows, calls>>

EnableOutput ==
  /\ ~Def(OUTPUT_PORT_INDEX).bEnabled /\ component.currentState = "Executing"
  /\ component' = BringOutput(SetPortState(Define(component, OUTPUT_PORT_INDEX, [bEnabled |-> TRUE]),
                                           OUTPUT_PORT_INDEX, "Idle"))
  /\ LET crop == GetConfig(component, event, [nPortIndex |-> OUTPUT_PORT_INDEX])
     IN  shows' = IF event = "CommonOutputCrop" /\ crop.ret = "None"
                  THEN [f \in DOMAIN shows |-> crop.out[f]]
                  ELSE Whole(<<Def(OUTPUT_PORT_INDEX).nFrameWidth,
                               Def(OUTPUT_PORT_INDEX).nFrameHeight>>)
  /\ event' = "none" /\ ret' = "None"
  /\ UNCHANGED <<img, calls>>

Stop ==
  /\ component.currentState = "Executing" /\ Def(OUTPUT_PORT_INDEX).bEnabled
  /\ component' = [component EXCEPT !.currentState = "Loaded",
       !.port = [p \in Ports |-> [@[p] EXCEPT !.def.bPopulated = FALSE, !.nAllocLen = 0,
                                              !.portState = "Loaded"]]]
  /\ event' = "none" /\ ret' = "None"
  /\ UNCHANGED <<img, shows, calls>>

\* The client may give the component up.
Invalidate ==
  /\ component.currentState # "Invalid"
  /\ component' = [component EXCEPT !.currentState = "Invalid"]
  /\ ret' = "None"
  /\ UNCHANGED <<event, img, shows, calls>>

Next == \/ Configure \/ Thumbnails \/ Start \/ Header \/ DisableOutput \/ EnableOutput
        \/ Stop \/ Invalidate

Spec == Init /\ [][Next]_vars

-----------------------------------------------------------------------------
\* What the codec writes of a picture into an output buffer: its planes in rows
\* as wide as the picture, of a multiple of 16 in a native buffer, or only the
\* addresses of the device's own.
OutputBytes(comp, size) ==
  IF ~comp.bThumbnailMode /\ comp.port[OUTPUT_PORT_INDEX].def.eColorFormat = "NV12TPhysicalAddress"
  THEN 20
  ELSE IF comp.port[OUTPUT_PORT_INDEX].bUseAndroidNativeBuffer
  THEN YUV420Size(Align16(size[1]), size[2])
  ELSE YUV420Size(size[1], size[2])

\* Once the client has answered the port settings event of a stream, or none was
\* needed, the buffers it brought hold the pictures the codec writes into them
\* and it shows the part of them that the stream wants shown.  The sizes are
\* kept in four places, and changed by the client through either port, by
\* enabling native buffers and by the stream's header.
PicturesFit ==
  component.currentState = "Executing" /\ component.bConfiguredMFC /\ event = "none" =>
    /\ component.port[OUTPUT_PORT_INDEX].nAllocLen >= OutputBytes(component, img.size)
    /\ shows = Whole(<<img.size[1] - img.cut[1], img.size[2] - img.cut[2]>>)
=============================================================================
