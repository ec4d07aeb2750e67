--------------------------- MODULE OmxParameters ---------------------------
(***************************************************************************)
(* What SEC_OMX_Basecomponent.c answers to OMX_GetParameter, SetParameter, *)
(* GetConfig, SetConfig and GetExtensionIndex, as operators on the         *)
(* component: the codecs' own functions, in OmxDecoderParameters and       *)
(* OmxEncoderParameters, hand down to these whatever they do not know.  At *)
(* the end is what those functions have in common.                         *)
(*                                                                         *)
(* A component is a record: currentState, its two ports, each with its     *)
(* portDefinition (def, the video format's fields among the others), and   *)
(* what the codecs keep.  A structure of the client's is a record with the *)
(* fields that matter; it is always well formed, so that the checks of     *)
(* size, version and NULL pass.  An index is named without OMX_IndexParam. *)
(***************************************************************************)
EXTENDS Integers, Sequences, TLC

INPUT_PORT_INDEX == 0
OUTPUT_PORT_INDEX == 1
Ports == {INPUT_PORT_INDEX, OUTPUT_PORT_INDEX}

\* A call's result: the error it returns, and what it leaves in the client's
\* structure (Get) or in the component (Set).
Done(out) == [ret |-> "None", out |-> out]
Refused(ret, out) == [ret |-> ret, out |-> out]

\* Fields of one record over those of another: the left one's win.
Over(changes, s) == changes @@ s

Align16(n) == ((n + 15) \div 16) * 16
YUV420Size(w, h) == (w * h * 3) \div 2

Configurable(comp) == comp.currentState \in {"Loaded", "WaitForResources"}

\* A port's definition with some fields changed.
Define(comp, p, changes) == [comp EXCEPT !.port[p].def = Over(changes, @)]

SEC_OMX_GetParameter(comp, index, s) ==
  IF comp.currentState = "Invalid" THEN Refused("InvalidState", s)
  ELSE CASE index \in {"AudioInit", "VideoInit"} ->
              Done(Over([nPorts |-> 0, nStartPortNumber |-> 0], s))
         [] index = "PortDefinition" ->
              IF s.nPortIndex \in Ports THEN Done(comp.port[s.nPortIndex].def)
              ELSE Refused("BadPortIndex", s)
         [] index = "PriorityMgmt" -> Done(Over(comp.compPriority, s))
         [] index = "CompBufferSupplier" ->
              IF ~Configurable(comp) THEN Refused("IncorrectStateOperation", s)
              ELSE IF s.nPortIndex \notin Ports THEN Refused("BadPortIndex", s)
              ELSE Done(Over([eBufferSupplier |-> "Unspecified"], s))
         [] OTHER -> Refused("UnsupportedIndex", s)

\* A port may be defined anew while nothing uses it, never with fewer buffers
\* than the component needs; the codecs check the same.
PortDefinitionError(comp, s) ==
  IF s.nPortIndex \notin Ports THEN "BadPortIndex"
  ELSE IF ~Configurable(comp) /\ comp.port[s.nPortIndex].def.bEnabled
       THEN "IncorrectStateOperation"
  ELSE IF s.nBufferCountActual < comp.port[s.nPortIndex].def.nBufferCountMin
       THEN "BadParameter"
  ELSE "None"

SetPortDefinition(comp, s) ==
  IF PortDefinitionError(comp, s) # "None"
  THEN Refused(PortDefinitionError(comp, s), comp)
  ELSE Done([comp EXCEPT !.port[s.nPortIndex].def = s])

\* The port of a component that is not tunnelled: whatever is asked for,
\* nothing is done.
SetBufferSupplier(comp, s) ==
  IF ~Configurable(comp) /\ comp.port[s.nPortIndex].def.bEnabled
  THEN Refused("IncorrectStateOperation", comp)
  ELSE IF s.nPortIndex \notin Ports THEN Refused("BadPortIndex", comp)
  ELSE Done(comp)

\* The Init structures can only be read, but the refusal that the code prepares
\* is overwritten on its way out.
SEC_OMX_SetParameter(comp, index, s) ==
  IF comp.currentState = "Invalid" THEN Refused("InvalidState", comp)
  ELSE CASE index \in {"AudioInit", "VideoInit"} ->
              IF Configurable(comp) THEN Done(comp)
              ELSE Refused("IncorrectStateOperation", comp)
         [] index = "PortDefinition" -> SetPortDefinition(comp, s)
         [] index = "PriorityMgmt" ->
              IF Configurable(comp)
              THEN Done([comp EXCEPT !.compPriority = [nGroupID |-> s.nGroupID,
                                       nGroupPriority |-> s.nGroupPriority]])
              ELSE Refused("IncorrectStateOperation", comp)
         [] index = "CompBufferSupplier" -> SetBufferSupplier(comp, s)
         [] OTHER -> Refused("UnsupportedIndex", comp)

SEC_OMX_GetConfig(comp, s) ==
  Refused(IF comp.currentState = "Invalid" THEN "InvalidState" ELSE "UnsupportedIndex", s)

SEC_OMX_SetConfig(comp) ==
  Refused(IF comp.currentState = "Invalid" THEN "InvalidState" ELSE "UnsupportedIndex", comp)

SEC_OMX_GetExtensionIndex(comp) ==
  Refused(IF comp.currentState = "Invalid" THEN "InvalidState" ELSE "BadParameter", "none")
-----------------------------------------------------------------------------
\* What the decoders and the encoders have in common, in the words of SEC_OMX_Vdec.c
\* and SEC_OMX_H264dec.c.  The coded port is a decoder's input and an encoder's output.

SetPortFormat(comp, s) ==
  IF s.nPortIndex \notin Ports THEN Refused("BadPortIndex", comp)
  ELSE Done(Define(comp, s.nPortIndex,
                   [f \in {"eColorFormat", "eCompressionFormat", "xFramerate"} |-> s[f]]))

GetBitrate(comp, coded, s) ==
  IF s.nPortIndex # coded THEN Refused("BadPortIndex", s)
  ELSE Done(Over([eControlRate |-> comp.port[coded].eControlRate,
                  nTargetBitrate |-> comp.port[coded].def.nBitrate], s))

SetBitrate(comp, coded, s) ==
  IF s.nPortIndex # coded THEN Refused("BadPortIndex", comp)
  ELSE Done([Define(comp, coded, [nBitrate |-> s.nTargetBitrate])
               EXCEPT !.port[coded].eControlRate = s.eControlRate])

ProfileLevel == {"eProfile", "eLevel"}
Unset == [f \in ProfileLevel |-> "0"]    \* what SEC_OSAL_Memset leaves

\* Every profile with every level, in the order of the code's tables.
ProfileLevels(profiles, levels) ==
  [n \in 1 .. Len(profiles) * Len(levels) |->
     [eProfile |-> profiles[((n - 1) \div Len(levels)) + 1],
      eLevel |-> levels[((n - 1) % Len(levels)) + 1]]]

QueryProfileLevel(table, s) ==
  IF s.nPortIndex \notin Ports THEN Refused("BadPortIndex", s)
  ELSE IF s.nProfileIndex >= Len(table) THEN Refused("NoMore", s)
  ELSE Done(Over(table[s.nProfileIndex + 1], s))

\* Fields of a codec's structure, of which the component keeps one for each port.
GetStruct(comp, struct, fields, s) ==
  IF s.nPortIndex \notin Ports THEN Refused("BadPortIndex", s)
  ELSE Done(Over([f \in fields |-> comp.param[struct][s.nPortIndex][f]], s))

SetStruct(comp, struct, fields, s) ==
  IF s.nPortIndex \notin Ports THEN Refused("BadPortIndex", comp)
  ELSE Done([comp EXCEPT !.param[struct][s.nPortIndex] =
                            Over([f \in fields |-> s[f]], @)])

GetErrorCorrection(comp, coded, s) ==
  IF s.nPortIndex # coded THEN Refused("BadPortIndex", s)
  ELSE Done(Over([bEnableResync |-> comp.errorCorrection], s))

SetErrorCorrection(comp, coded, s) ==
  IF s.nPortIndex # coded THEN Refused("BadPortIndex", comp)
  ELSE Done([comp EXCEPT !.errorCorrection = s.bEnableResync])

\* A role picks the compression of the coded port, and only that.
SetRole(comp, coded, codings, s) ==
  IF ~Configurable(comp) THEN Refused("IncorrectStateOperation", comp)
  ELSE IF s.cRole \notin DOMAIN codings THEN Refused("BadParameter", comp)
  ELSE Done(Define(comp, coded, [eCompressionFormat |-> codings[s.cRole]]))
=============================================================================
