------------------------ MODULE OmxEncoderParameters ------------------------
(***************************************************************************)
(* The parameters of the video encoders, SEC_OMX_Venc.c,                   *)
(* SEC_OMX_H264enc.c and SEC_OMX_Mpeg4enc.c, and their way into the device:*)
(* its buffers get their size when the component is started, the rest is   *)
(* handed over with the first picture.  There are several ways to set most *)
(* of them, and the size, the bitrate and the frame rate are each kept for *)
(* both ports.                                                             *)
(*                                                                         *)
(* One thread of the client configures the component, starts it, sends     *)
(* pictures and stops it.  It is polite: it sets a size on the input port, *)
(* with a buffer size that holds the picture, chooses how its pictures lie *)
(* in the buffers only in Loaded, and never leaves the metadata mode again.*)
(***************************************************************************)
EXTENDS OmxParameters

CONSTANTS Codecs,    \* among "h264", "mpeg4", "h263"
          Sizes,     \* of pictures: pairs of a width and a height
          Bitrates, Framerates, PFrames, Counts,   \* what a client may ask for
          MaxCalls   \* bound on its calls

VARIABLES component,
          device,  \* the encoder's: the size of its buffers, and its parameters
          asked,   \* what the client has asked for last, one way or another
          ret,     \* what the last call answered
          calls

vars == <<component, device, asked, ret, calls>>

DEFAULT_FRAME == <<176, 144>>
MAX_VIDEO_INPUTBUFFER_NUM == 5
MAX_VIDEO_OUTPUTBUFFER_NUM == 4
MAX_INPUT_METADATA_BUFFER_SIZE == 64

AlignTo(n, bytes) == ((n + bytes - 1) \div bytes) * bytes

\* A plane in the device's tiles.
PlaneSize(w, h) == AlignTo(AlignTo(w, 128) * AlignTo(h, 32), 8192)

DEFAULT_VIDEO_BUFFER_SIZE ==
  PlaneSize(DEFAULT_FRAME[1], DEFAULT_FRAME[2]) + PlaneSize(DEFAULT_FRAME[1], DEFAULT_FRAME[2] \div 2)

-----------------------------------------------------------------------------
\* SEC_OMX_Venc.c

VideoPort(p, count, colour, coding) ==
  [def |-> [nPortIndex |-> p, bEnabled |-> TRUE, bPopulated |-> FALSE,
            nBufferCountActual |-> count, nBufferCountMin |-> count,
            nBufferSize |-> DEFAULT_VIDEO_BUFFER_SIZE,
            nFrameWidth |-> DEFAULT_FRAME[1], nFrameHeight |-> DEFAULT_FRAME[2],
            nBitrate |-> 64000, xFramerate |-> 15,
            eColorFormat |-> colour, eCompressionFormat |-> coding],
   nAllocLen |-> 0, eControlRate |-> "Disable", bStoreMetaDataInBuffer |-> FALSE]

SEC_OMX_VideoEncodeComponentInit(coding) ==
  [currentState |-> "Loaded",
   port |-> INPUT_PORT_INDEX :>
              VideoPort(INPUT_PORT_INDEX, MAX_VIDEO_INPUTBUFFER_NUM, "YUV420SemiPlanar", "Unused")
            @@ OUTPUT_PORT_INDEX :>
                 VideoPort(OUTPUT_PORT_INDEX, MAX_VIDEO_OUTPUTBUFFER_NUM, "Unused", coding),
   compPriority |-> [nGroupID |-> 0, nGroupPriority |-> 0]]

InputFormats == <<"YUV420SemiPlanar", "YUV420Planar", "NV12TPhysicalAddress", "AndroidOpaque">>

GetPortFormat(comp, s) ==
  LET def == comp.port[s.nPortIndex].def
  IN  CASE s.nPortIndex \notin Ports -> Refused("BadPortIndex", s)
        [] s.nPortIndex = INPUT_PORT_INDEX ->
             IF s.nIndex >= Len(InputFormats) THEN Refused("NoMore", s)
             ELSE Done(Over([eCompressionFormat |-> "Unused",
                             eColorFormat |-> InputFormats[s.nIndex + 1],
                             xFramerate |-> def.xFramerate], s))
        [] OTHER ->
             IF s.nIndex > 0 THEN Refused("NoMore", s)
             ELSE Done(Over([eCompressionFormat |-> def.eCompressionFormat,
                             eColorFormat |-> def.eColorFormat,
                             xFramerate |-> def.xFramerate], s))

\* In metadata mode a buffer holds the address of a picture.
GetPortDefinition(comp, s) ==
  LET get == SEC_OMX_GetParameter(comp, "PortDefinition", s)
  IN  IF s.nPortIndex = INPUT_PORT_INDEX /\ comp.port[INPUT_PORT_INDEX].bStoreMetaDataInBuffer
      THEN Done(Over([nBufferSize |-> MAX_INPUT_METADATA_BUFFER_SIZE], get.out))
      ELSE get

SEC_OMX_VideoEncodeGetParameter(comp, index, s) ==
  IF comp.currentState = "Invalid" THEN Done(s)
  ELSE CASE index = "VideoInit" -> Done(Over([nPorts |-> 2, nStartPortNumber |-> 0], s))
         [] index = "VideoPortFormat" -> GetPortFormat(comp, s)
         [] index = "VideoBitrate" -> GetBitrate(comp, OUTPUT_PORT_INDEX, s)
         [] index = "PortDefinition" -> GetPortDefinition(comp, s)
         [] OTHER -> SEC_OMX_GetParameter(comp, index, s)

\* The output port keeps its size.
SetPortDefinitionOnly(comp, s) == SEC_OMX_SetParameter(comp, "PortDefinition", s)

\* The output port takes the size of the input port.
SetSizedPortDefinition(comp, s) ==
  LET set == SEC_OMX_SetParameter(comp, "PortDefinition", s)
      i == set.out.port[INPUT_PORT_INDEX].def
  IN  IF set.ret # "None" \/ s.nPortIndex # INPUT_PORT_INDEX THEN set
      ELSE Done(Define(set.out, OUTPUT_PORT_INDEX,
                       [nFrameWidth |-> i.nFrameWidth, nFrameHeight |-> i.nFrameHeight,
                        nBufferSize |-> YUV420Size(i.nFrameWidth, i.nFrameHeight)]))

SEC_OMX_VideoEncodeSetParameter(comp, index, s) ==
  IF comp.currentState = "Invalid" THEN Done(comp)
  ELSE CASE index = "VideoPortFormat" -> SetPortFormat(comp, s)
         [] index = "VideoBitrate" -> SetBitrate(comp, OUTPUT_PORT_INDEX, s)
         [] index = "PortDefinition" -> SetSizedPortDefinition(comp, s)
         [] index = "StoreMetaDataBuffer" ->
              IF s.nPortIndex # INPUT_PORT_INDEX THEN Refused("BadPortIndex", comp)
              ELSE Done([comp EXCEPT !.port[s.nPortIndex].bStoreMetaDataInBuffer = s.bStoreMetaData])
         [] OTHER -> SEC_OMX_SetParameter(comp, index, s)

\* How a picture lies where the device reads it: copied out of the client's
\* buffer, converted to tiles, or left where its address says.
InputLayout(comp, source) ==
  LET i == comp.port[INPUT_PORT_INDEX]
  IN  CASE i.bStoreMetaDataInBuffer -> IF source = "gralloc" THEN "linear" ELSE "tile"
        [] i.def.eColorFormat = "NV12TPhysicalAddress" -> "tile"
        [] i.def.eColorFormat = "YUV420Planar" -> "tile"
        [] OTHER -> "linear"

-----------------------------------------------------------------------------
\* What SEC_OMX_H264enc.c and SEC_OMX_Mpeg4enc.c have in common.

CodecComponentInit(codec, coding, structs, values) ==
  Over([codec |-> codec, param |-> [t \in structs |-> [p \in Ports |-> values[t]]],
        errorCorrection |-> FALSE, bConfiguredMFC |-> FALSE],
       SEC_OMX_VideoEncodeComponentInit(coding))

\* The value at the place of a key, or a default.
Lookup(keys, values, key, default) ==
  IF \E n \in DOMAIN keys : keys[n] = key
  THEN values[CHOOSE n \in DOMAIN keys : keys[n] = key] ELSE default

FrameMap(comp, source) ==
  LET i == comp.port[INPUT_PORT_INDEX]
  IN  IF i.bStoreMetaDataInBuffer THEN (IF source = "gralloc" THEN "linear" ELSE "tile")
      ELSE IF i.def.eColorFormat = "YUV420SemiPlanar" THEN "linear" ELSE "tile"

\* The parameters all three codecs hand over; those of the structure follow.
Set_Param(comp, struct, source) ==
  LET i == comp.port[INPUT_PORT_INDEX].def
      o == comp.port[OUTPUT_PORT_INDEX].def
  IN  [SourceWidth |-> o.nFrameWidth, SourceHeight |-> o.nFrameHeight,
       IDRPeriod |-> comp.param[struct][OUTPUT_PORT_INDEX].nPFrames + 1,
       Bitrate |-> o.nBitrate, FrameRate |-> i.xFramerate,
       FrameMap |-> FrameMap(comp, source)]

-----------------------------------------------------------------------------
\* SEC_OMX_H264enc.c

AVCProfiles == <<"Baseline", "Main", "High">>
AVCLevels == <<"1", "1b", "11", "12", "13", "2", "21", "22", "3", "31", "32", "4">>
supportedAVCProfileLevels == ProfileLevels(AVCProfiles, AVCLevels)

OMXAVCProfileToProfileIDC(profile) == Lookup(AVCProfiles, <<2, 0, 1>>, profile, 0)
OMXAVCLevelToLevelIDC(level) ==
  Lookup(AVCLevels, <<10, 9, 11, 12, 13, 20, 21, 22, 30, 31, 32, 40>>, level, 40)

Set_H264ENC_Param(comp, source) ==
  LET avc == comp.param["Avc"][OUTPUT_PORT_INDEX]
  IN  Over([ProfileIDC |-> OMXAVCProfileToProfileIDC(avc.eProfile),
            LevelIDC |-> OMXAVCLevelToLevelIDC(avc.eLevel)],
           Set_Param(comp, "Avc", source))

AllFields == ProfileLevel \cup {"nPFrames"}

SEC_MFC_H264Enc_GetParameter(comp, index, s) ==
  IF comp.currentState = "Invalid" THEN Done(s)
  ELSE CASE index = "VideoAvc" -> GetStruct(comp, "Avc", AllFields, s)
         [] index = "StandardComponentRole" -> Done(Over([cRole |-> "video_encoder.avc"], s))
         [] index = "VideoProfileLevelQuerySupported" ->
              QueryProfileLevel(supportedAVCProfileLevels, s)
         [] index = "VideoProfileLevelCurrent" -> GetStruct(comp, "Avc", ProfileLevel, s)
         [] index = "VideoErrorCorrection" -> GetErrorCorrection(comp, OUTPUT_PORT_INDEX, s)
         [] OTHER -> SEC_OMX_VideoEncodeGetParameter(comp, index, s)

SEC_MFC_H264Enc_SetParameter(comp, index, s) ==
  IF comp.currentState = "Invalid" THEN Done(comp)
  ELSE CASE index = "VideoAvc" -> SetStruct(comp, "Avc", AllFields, s)
         [] index = "StandardComponentRole" ->
              SetRole(comp, OUTPUT_PORT_INDEX, [r \in {"video_encoder.avc"} |-> "AVC"], s)
         [] index = "VideoProfileLevelCurrent" -> SetStruct(comp, "Avc", ProfileLevel, s)
         [] index = "VideoErrorCorrection" -> SetErrorCorrection(comp, OUTPUT_PORT_INDEX, s)
         [] OTHER -> SEC_OMX_VideoEncodeSetParameter(comp, index, s)

SEC_MFC_H264Enc_GetConfig(comp, s) == SEC_OMX_GetConfig(comp, s)
SEC_MFC_H264Enc_SetConfig(comp) == SEC_OMX_SetConfig(comp)

SEC_MFC_H264Enc_GetExtensionIndex(comp, name) ==
  IF comp.currentState # "Invalid" /\ name = "storeMetaDataInBuffers"
  THEN Done("StoreMetaDataBuffer")
  ELSE SEC_OMX_GetExtensionIndex(comp)

SEC_MFC_H264Enc_ComponentRoleEnum(nIndex) ==
  IF nIndex = 0 THEN Done("video_encoder.avc") ELSE Refused("NoMore", "none")

H264ComponentInit ==
  CodecComponentInit("h264", "AVC", {"Avc"},
    [Avc |-> [eProfile |-> "Baseline", eLevel |-> "31", nPFrames |-> 0]])

-----------------------------------------------------------------------------
\* SEC_OMX_Mpeg4enc.c, which encodes H.263 too; the name it was loaded under tells.

MPEG4Profiles == <<"Simple", "AdvancedSimple">>
MPEG4Levels == <<"0", "0b", "1", "2", "3", "4", "4a", "5">>
supportedMPEG4ProfileLevels == ProfileLevels(MPEG4Profiles, MPEG4Levels)
supportedH263ProfileLevels ==
  ProfileLevels(<<"Baseline">>, <<"10", "20", "30", "40", "45", "50", "60", "70">>)

OMXMpeg4ProfileToMFCProfile(profile) == Lookup(MPEG4Profiles, <<0, 1>>, profile, 0)
OMXMpeg4LevelToMFCLevel(level) == Lookup(MPEG4Levels, <<0, 9, 1, 2, 3, 4, 4, 5>>, level, 0)

Set_Mpeg4Enc_Param(comp, source) ==
  LET mpeg4 == comp.param["Mpeg4"][OUTPUT_PORT_INDEX]
  IN  Over([ProfileIDC |-> OMXMpeg4ProfileToMFCProfile(mpeg4.eProfile),
            LevelIDC |-> OMXMpeg4LevelToMFCLevel(mpeg4.eLevel)],
           Set_Param(comp, "Mpeg4", source))

Set_H263Enc_Param(comp, source) == Set_Param(comp, "H263", source)

Struct(comp) == IF comp.codec = "mpeg4" THEN "Mpeg4" ELSE "H263"

SEC_MFC_Mpeg4Enc_ComponentRoleEnum(comp, nIndex) ==
  IF nIndex # 0 THEN Refused("NoMore", "none")
  ELSE IF comp.currentState = "Invalid" THEN Done("none")
  ELSE Done(IF comp.codec = "mpeg4" THEN "video_encoder.mpeg4" ELSE "video_encoder.h263")

SEC_MFC_Mpeg4Enc_GetParameter(comp, index, s) ==
  IF comp.currentState = "Invalid" THEN Done(s)
  ELSE CASE index = "VideoMpeg4" -> GetStruct(comp, "Mpeg4", AllFields, s)
         [] index = "VideoH263" -> GetStruct(comp, "H263", AllFields, s)
         [] index = "StandardComponentRole" ->
              Done(Over([cRole |-> SEC_MFC_Mpeg4Enc_ComponentRoleEnum(comp, 0).out], s))
         [] index = "VideoProfileLevelQuerySupported" ->
              QueryProfileLevel(IF comp.codec = "mpeg4" THEN supportedMPEG4ProfileLevels
                                ELSE supportedH263ProfileLevels, s)
         [] index = "VideoProfileLevelCurrent" -> GetStruct(comp, Struct(comp), ProfileLevel, s)
         [] index = "VideoErrorCorrection" -> GetErrorCorrection(comp, OUTPUT_PORT_INDEX, s)
         [] OTHER -> SEC_OMX_VideoEncodeGetParameter(comp, index, s)

\* Either role may be asked for, but the codec stays the one of the name.
SEC_MFC_Mpeg4Enc_SetParameter(comp, index, s) ==
  IF comp.currentState = "Invalid" THEN Done(comp)
  ELSE CASE index = "VideoMpeg4" -> SetStruct(comp, "Mpeg4", AllFields, s)
         [] index = "VideoH263" -> SetStruct(comp, "H263", AllFields, s)
         [] index = "StandardComponentRole" ->
              SetRole(comp, OUTPUT_PORT_INDEX,
                      "video_encoder.mpeg4" :> "MPEG4" @@ "video_encoder.h263" :> "H263", s)
         [] index = "VideoProfileLevelCurrent" -> SetStruct(comp, Struct(comp), ProfileLevel, s)
         [] index = "VideoErrorCorrection" -> SetErrorCorrection(comp, OUTPUT_PORT_INDEX, s)
         [] OTHER -> SEC_OMX_VideoEncodeSetParameter(comp, index, s)

Mpeg4ComponentInit(codec) ==
  LET unset == Over([nPFrames |-> 0], Unset)
  IN  CodecComponentInit(codec, IF codec = "mpeg4" THEN "MPEG4" ELSE "H263", {"Mpeg4", "H263"},
        IF codec = "mpeg4"
        THEN [Mpeg4 |-> [eProfile |-> "Simple", eLevel |-> "4", nPFrames |-> 10], H263 |-> unset]
        ELSE [Mpeg4 |-> unset, H263 |-> [eProfile |-> "Baseline", eLevel |-> "45", nPFrames |-> 20]])

-----------------------------------------------------------------------------
\* The functions the component was given.

GetParameter(comp, index, s) ==
  IF comp.codec = "h264" THEN SEC_MFC_H264Enc_GetParameter(comp, index, s)
  ELSE SEC_MFC_Mpeg4Enc_GetParameter(comp, index, s)

SetParameter(comp, index, s) ==
  IF comp.codec = "h264" THEN SEC_MFC_H264Enc_SetParameter(comp, index, s)
  ELSE SEC_MFC_Mpeg4Enc_SetParameter(comp, index, s)

Role == IF component.codec = "h264" THEN SEC_MFC_H264Enc_ComponentRoleEnum(0).out
        ELSE SEC_MFC_Mpeg4Enc_ComponentRoleEnum(component, 0).out

OwnStruct == IF component.codec = "h264" THEN "Avc" ELSE Struct(component)

-----------------------------------------------------------------------------
\* The client

Untold == [SourceWidth |-> 0]

Init ==
  /\ component \in {IF c = "h264" THEN H264ComponentInit ELSE Mpeg4ComponentInit(c) : c \in Codecs}
  /\ device = [size |-> <<0, 0>>, param |-> Untold]
  /\ asked = Over([size |-> DEFAULT_FRAME, nBitrate |-> 64000, xFramerate |-> 15],
                  component.param[OwnStruct][OUTPUT_PORT_INDEX])
  /\ ret = "None" /\ calls = 0

\* A request changes fields of a structure, and means the client wants something.
Ask(index, port, s, wants) ==
  [index |-> index, s |-> Over([nPortIndex |-> port], s), wants |-> wants]
Same(index, port, s) == Ask(index, port, s, s)

Supported(index, counter, port, n) ==
  LET answer(i) == GetParameter(component, index, Over(counter :> i, [nPortIndex |-> port]))
  IN  {answer(i).out : i \in {m \in n : answer(m).ret = "None" /\ component.currentState # "Invalid"}}

WholeRequests ==
  LET levels == Supported("VideoProfileLevelQuerySupported", "nProfileIndex",
                          OUTPUT_PORT_INDEX, {1, 6, 13})
      index == "Video" \o OwnStruct
  IN  {Same("PortDefinition", INPUT_PORT_INDEX, [xFramerate |-> f]) : f \in Framerates}
      \cup {Same("PortDefinition", OUTPUT_PORT_INDEX, [nBitrate |-> b]) : b \in Bitrates}
      \cup {Ask("VideoBitrate", p, [eControlRate |-> "Constant", nTargetBitrate |-> b],
                [nBitrate |-> b]) : p \in Ports, b \in Bitrates}
      \cup {Same("VideoProfileLevelCurrent", OUTPUT_PORT_INDEX, [f \in ProfileLevel |-> l[f]]) :
              l \in levels}
      \cup {Same(index, OUTPUT_PORT_INDEX, [eProfile |-> l.eProfile, nPFrames |-> n]) :
              l \in levels, n \in PFrames}

\* Requests that change nothing the device is told, or that are refused.
OtherRequests ==
  {Ask("PortDefinition", p, [nBufferCountActual |-> n], << >>) : p \in Ports \cup {2}, n \in Counts}
  \cup {Ask("VideoErrorCorrection", p, [bEnableResync |-> TRUE], << >>) : p \in Ports}
  \cup {Ask("StandardComponentRole", OUTPUT_PORT_INDEX, [cRole |-> r], << >>) :
          r \in {Role, "video_encoder.h263", "video_decoder.avc"}}
  \cup {Ask(index, p, [eBufferSupplier |-> "Input", nGroupID |-> 1, nGroupPriority |-> 1], << >>) :
          index \in {"VideoInit", "PriorityMgmt", "CompBufferSupplier", "VideoQuantization"},
          p \in Ports}
  \cup {Ask("VideoProfileLevelCurrent", p, [eProfile |-> "Main", eLevel |-> "2"], << >>) :
          p \in {INPUT_PORT_INDEX, 2}}

\* How its pictures lie in the buffers, which the client chooses before it starts.
PictureRequests ==
  {Ask("PortDefinition", INPUT_PORT_INDEX,
       [nFrameWidth |-> z[1], nFrameHeight |-> z[2], nBufferSize |-> YUV420Size(z[1], z[2])],
       [size |-> z]) : z \in Sizes}
  \cup {Ask("VideoPortFormat", INPUT_PORT_INDEX,
            [eColorFormat |-> c.eColorFormat, xFramerate |-> f], [xFramerate |-> f]) :
          c \in {a \in Supported("VideoPortFormat", "nIndex", INPUT_PORT_INDEX, 0 .. 4) :
                   a.eColorFormat = "AndroidOpaque" =>
                     component.port[INPUT_PORT_INDEX].bStoreMetaDataInBuffer},
          f \in Framerates}
  \cup {Ask(SEC_MFC_H264Enc_GetExtensionIndex(component, "storeMetaDataInBuffers").out, p,
            [bStoreMetaData |-> TRUE], << >>) : p \in Ports}

Requests == WholeRequests \cup OtherRequests
              \cup IF component.currentState = "Loaded" THEN PictureRequests ELSE {}

\* Read what there is, change what is asked for, and set it.
Configure ==
  /\ calls < MaxCalls
  /\ \E r \in Requests :
       LET read == GetParameter(component, r.index,
                                [nPortIndex |-> r.s.nPortIndex, nIndex |-> 0])
           answer == SetParameter(component, r.index, Over(r.s, read.out))
       IN  /\ component' = answer.out /\ ret' = answer.ret
           /\ asked' = IF answer.ret = "None" /\ component.currentState # "Invalid"
                       THEN Over(r.wants, asked) ELSE asked
  /\ calls' = calls + 1
  /\ UNCHANGED device

\* The client brings the buffers it is told to, and the codec's Init opens the
\* device and sizes its buffers by the output port.
Start ==
  /\ component.currentState = "Loaded"
  /\ LET size(p) == GetParameter(component, "PortDefinition", [nPortIndex |-> p]).out.nBufferSize
         o == component.port[OUTPUT_PORT_INDEX].def
     IN  /\ component' = [component EXCEPT !.currentState = "Executing", !.bConfiguredMFC = FALSE,
              !.port = [p \in Ports |-> [@[p] EXCEPT !.def.bPopulated = TRUE, !.nAllocLen = size(p)]]]
         /\ device' = [size |-> <<o.nFrameWidth, o.nFrameHeight>>, param |-> Untold]
  /\ ret' = "None"
  /\ UNCHANGED <<asked, calls>>

\* The first picture, in a buffer that in metadata mode tells its source.
FirstPicture ==
  /\ component.currentState = "Executing" /\ ~component.bConfiguredMFC
  /\ \E source \in {"gralloc", "camera"} :
       /\ source = "camera" => component.port[INPUT_PORT_INDEX].bStoreMetaDataInBuffer
       /\ device' = [device EXCEPT !.param =
            Over([layout |-> InputLayout(component, source)],
                 CASE component.codec = "h264" -> Set_H264ENC_Param(component, source)
                   [] component.codec = "mpeg4" -> Set_Mpeg4Enc_Param(component, source)
                   [] OTHER -> Set_H263Enc_Param(component, source))]
  /\ component' = [component EXCEPT !.bConfiguredMFC = TRUE]
  /\ ret' = "None"
  /\ UNCHANGED <<asked, calls>>

Stop ==
  /\ component.currentState = "Executing"
  /\ component' = [component EXCEPT !.currentState = "Loaded",
       !.port = [p \in Ports |-> [@[p] EXCEPT !.def.bPopulated = FALSE, !.nAllocLen = 0]]]
  /\ ret' = "None"
  /\ UNCHANGED <<device, asked, calls>>

\* The client may give the component up.
Invalidate ==
  /\ component.currentState # "Invalid"
  /\ component' = [component EXCEPT !.currentState = "Invalid"]
  /\ ret' = "None"
  /\ UNCHANGED <<device, asked, calls>>

Next == Configure \/ Start \/ FirstPicture \/ Stop \/ Invalidate

Spec == Init /\ [][Next]_vars

-----------------------------------------------------------------------------
\* With the first picture the device is told what the client has asked for last,
\* whichever way and on whichever port it asked; its buffers and the client's
\* hold the picture; and the picture lies in them as the device is told.
EncodesAsAsked ==
  [][component'.bConfiguredMFC /\ ~component.bConfiguredMFC =>
       LET p == device'.param
           i == component.port[INPUT_PORT_INDEX]
       IN  /\ <<p.SourceWidth, p.SourceHeight>> = asked.size
           /\ p.Bitrate = asked.nBitrate /\ p.FrameRate = asked.xFramerate
           /\ p.IDRPeriod = asked.nPFrames + 1
           /\ component.codec = "h264" =>
                /\ p.ProfileIDC = OMXAVCProfileToProfileIDC(asked.eProfile)
                /\ p.LevelIDC = OMXAVCLevelToLevelIDC(asked.eLevel)
           /\ component.codec = "mpeg4" =>
                /\ p.ProfileIDC = OMXMpeg4ProfileToMFCProfile(asked.eProfile)
                /\ p.LevelIDC = OMXMpeg4LevelToMFCLevel(asked.eLevel)
           /\ device.size = asked.size /\ <<i.def.nFrameWidth, i.def.nFrameHeight>> = asked.size
           /\ ~i.bStoreMetaDataInBuffer => i.nAllocLen >= YUV420Size(asked.size[1], asked.size[2])
           /\ p.layout = p.FrameMap]_vars
=============================================================================
