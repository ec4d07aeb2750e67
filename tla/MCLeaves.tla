------------------------------ MODULE MCLeaves ------------------------------
(***************************************************************************)
(* The small components that stand alone, in one run.  They share no       *)
(* variable: part says which of them moves and the others keep their first *)
(* state, so TLC explores the sum of their states and not the product.     *)
(***************************************************************************)
EXTENDS EventRing, SensorsActivate, SecQueue, ColorConvert, MfcEncode

CONSTANTS e1, e2                                   \* the events of the ring
CONSTANTS Codecs, Sizes, Bitrates, Counts, MaxCalls \* Omx*Parameters
CONSTANTS Crops, Priorities                        \* OmxDecoderParameters
CONSTANTS Framerates, PFrames                      \* OmxEncoderParameters

MCEvents == {e1, e2}
MCSizes == {<<176, 144>>, <<20, 18>>, <<320, 240>>}
MCCrops == {<<0, 0>>, <<0, 8>>}

VARIABLE part

VARIABLES decComponent, event, img, shows, decRet, decCalls

VARIABLES encComponent, device, asked, encRet, encCalls

Decoder == INSTANCE OmxDecoderParameters
             WITH component <- decComponent, ret <- decRet, calls <- decCalls
Encoder == INSTANCE OmxEncoderParameters
             WITH component <- encComponent, ret <- encRet, calls <- encCalls

decoderVars == <<decComponent, event, img, shows, decRet, decCalls>>
encoderVars == <<encComponent, device, asked, encRet, encCalls>>
paramVars == <<decoderVars, encoderVars>>
MCvars == <<part, ringVars, queueVars, activateVars, convertVars, encodeVars, paramVars>>

(* The picture of a converter that does not move. *)
Smallest(sizes) == CHOOSE n \in sizes : \A m \in sizes : n <= m

MCInit ==
  /\ part \in {"ring", "queue", "activate", "convert", "encode", "decoder", "encoder"}
  /\ InputEventCircularReader
  /\ SEC_OSAL_QueueCreate
  /\ ActivateInit
  /\ part # "activate" => dev.mEnabled["M"] = 0
  /\ ConvertInit
  /\ part # "convert" => /\ function = "csc_tiled_to_linear"
                         /\ width = Smallest(Widths) /\ height = Smallest(Heights)
  /\ EncodeInit
  /\ part # "encode" => mode = "picture" /\ framed
  /\ Decoder!Init
  /\ part # "decoder" => decComponent.codec = "h264"
  /\ Encoder!Init
  /\ part # "encoder" => encComponent.codec = "h264"

RingStep ==
  /\ part = "ring" /\ RingNext
  /\ UNCHANGED <<part, queueVars, activateVars, convertVars, encodeVars, paramVars>>
QueueStep ==
  /\ part = "queue" /\ QueueNext
  /\ UNCHANGED <<part, ringVars, activateVars, convertVars, encodeVars, paramVars>>
ActivateStep ==
  /\ part = "activate" /\ ActivateNext
  /\ UNCHANGED <<part, ringVars, queueVars, convertVars, encodeVars, paramVars>>
ConvertStep ==
  /\ part = "convert" /\ ConvertNext
  /\ UNCHANGED <<part, ringVars, queueVars, activateVars, encodeVars, paramVars>>
EncodeClientStep ==
  /\ part = "encode" /\ EncodeClient
  /\ UNCHANGED <<part, ringVars, queueVars, activateVars, convertVars, paramVars>>
EncodeProcessStep ==
  /\ part = "encode" /\ EncodeProcess
  /\ UNCHANGED <<part, ringVars, queueVars, activateVars, convertVars, paramVars>>
EncodeThreadStep ==
  /\ part = "encode" /\ EncodeThread
  /\ UNCHANGED <<part, ringVars, queueVars, activateVars, convertVars, paramVars>>
DecoderStep ==
  /\ part = "decoder" /\ Decoder!Next
  /\ UNCHANGED <<part, ringVars, queueVars, activateVars, convertVars, encodeVars, encoderVars>>
EncoderStep ==
  /\ part = "encoder" /\ Encoder!Next
  /\ UNCHANGED <<part, ringVars, queueVars, activateVars, convertVars, encodeVars, decoderVars>>

(* A converter that has returned is no deadlock, and neither is an encoder whose
   client has stopped or a component that was given up. *)
AtRest ==
  /\ \/ part = "convert" /\ pass = "done"
     \/ part = "encode" /\ pc \in {"input", "closed"}
     \/ part = "decoder" /\ decComponent.currentState = "Invalid"
     \/ part = "encoder" /\ encComponent.currentState = "Invalid"
  /\ UNCHANGED MCvars

MCNext == \/ RingStep \/ QueueStep \/ ActivateStep \/ ConvertStep
          \/ EncodeClientStep \/ EncodeProcessStep \/ EncodeThreadStep
          \/ DecoderStep \/ EncoderStep
          \/ AtRest

(* The two threads of the encoder keep running; nothing else needs to. *)
MCSpec == /\ MCInit /\ [][MCNext]_MCvars
          /\ WF_MCvars(EncodeProcessStep) /\ WF_MCvars(EncodeThreadStep)

-----------------------------------------------------------------------------
(* What a client asks for is what it gets (OmxDecoderParameters, OmxEncoderParameters):
   after any calls of the two components' parameter functions, any header of a stream
   and any change of its buffers, the client's output buffers hold the decoded
   pictures (PicturesFit); and an encoder that is started, or gets its first picture, is
   told what the client asked for last (EncodesAsAsked). *)
ParametersHonoured == []Decoder!PicturesFit /\ Encoder!EncodesAsAsked
=============================================================================
