----------------------------- MODULE MfcDecode -----------------------------
(***************************************************************************)
(* The H.264 decoder of SEC_OMX_H264dec.c between the buffers of the input *)
(* port and those of the output port, with what SEC_OMX_Vdec.c does before *)
(* and after it:                                                           *)
(*   - the buffer process thread ("pc") assembles a frame, hands it to the *)
(*     decode thread, and collects what the frame before it has become;    *)
(*   - the decode thread ("dpc", SEC_MFC_DecodeThread) runs the device;    *)
(*   - the client feeds a codec header and then one frame per buffer, ends *)
(*     the stream, and may seek, which flushes both ports;                 *)
(*   - the device holds back Delay frames and shows them in turn.          *)
(* The two threads meet at two semaphores, two stream buffers and a table  *)
(* of time stamps that the device's frame tags index.  Output buffers are  *)
(* always at hand here; OmxBufferFlow is about those.                      *)
(***************************************************************************)
EXTENDS Integers, Sequences

CONSTANTS MAX_TIMESTAMP,  \* entries of the table of time stamps
          Delay,          \* MFC_DEC_SETCONF_DISPLAY_DELAY
          Frames,         \* the last frame of the stream; a frame's time is its number
          MaxSeeks,       \* bound on flushes
          MaxFaults       \* bound on failing device calls and MFC_GETOUTBUF_DISPLAY_ONLY

ASSUME MfcDecodeAssumption ==
  /\ Delay \in Nat /\ Frames \in Nat \ {0}
  /\ MAX_TIMESTAMP \in Nat /\ MAX_TIMESTAMP > Delay + 2
  /\ MaxSeeks \in Nat /\ MaxFaults \in Nat

Bufs == 0 .. 1                  \* MFC_INPUT_BUFFER_NUM_MAX
Tags == 0 .. MAX_TIMESTAMP - 1
EosTime == Frames + 1           \* the time of a buffer that only ends the stream
NoTime == -1                    \* what the table of time stamps is filled with
Times == NoTime .. EosTime

\* What a buffer holds: nothing yet, the codec header, or a frame that was fed
\* after the gen-th seek.
Header == 0
Blank == [gen |-> 0, n |-> -1]
Contents == [gen : 0 .. MaxSeeks, n : -1 .. Frames]

VARIABLES
  \* the client
  pos,        \* the next frame it feeds, Frames + 2 after the end of the stream
  gen, from,  \* how often it has sought, the frame it has sought last
  fed,        \* how many buffers that hold a frame and no more it fed since
  flush,      \* "none", or how far a flush has come: "asked", "port", "reset"
  shown,      \* the pictures delivered since the last seek
  eosOut,     \* the end of the stream has been delivered since
  \* the input port
  cur,        \* secDataBuffer[INPUT], "left" telling that it is not copied yet
  inp,        \* processData[INPUT]
  prevLen,    \* previousDataLen
  bUseFlagEOF, bSaveFlagEOS, reInputData,
  checkTimeStamp,
  \* the codec
  pc, yet, len,           \* ret is InputDataDecodeYet; oneFrameSize
  out,                    \* processData[OUTPUT]
  bConfiguredMFC, bFirstFrame, getAllDelayBuffer, bDecoderRun, returnCodec,
  index, buf, dataSize,   \* indexInputBuffer; MFCDecInputBuffer
  tag, timeStamp, nFlags, \* indexTimestamp and its tables; OMX_BUFFERFLAG_EOS only
  \* the decode thread and the device
  dpc, hDecFrameStart, hDecFrameEnd, bExitDecodeThread,
  ctx,        \* the context: [buf, tag, size] of the next decode
  job,        \* the one the device is at
  pend,       \* the frames it holds back, with their tags
  disp,       \* the outcome of the last decode
  errors, repeats

clientVars == <<pos, gen, from, fed, flush, shown, eosOut>>
portVars == <<cur, inp, prevLen, bUseFlagEOF, bSaveFlagEOS, reInputData, checkTimeStamp>>
codecVars == <<yet, len, out, bConfiguredMFC, bFirstFrame, getAllDelayBuffer,
               bDecoderRun, index, buf, dataSize, tag, timeStamp, nFlags>>
deviceVars == <<job, pend, disp, errors, repeats>>
threadVars == <<dpc, hDecFrameStart, hDecFrameEnd, bExitDecodeThread>>
vars == <<clientVars, portVars, pc, codecVars, returnCodec, ctx, threadVars, deviceVars>>

NoInput == [valid |-> FALSE, left |-> FALSE, c |-> Blank, time |-> 0, eos |-> FALSE]
NoData == [len |-> 0, time |-> 0, eos |-> FALSE, eof |-> FALSE, cfg |-> FALSE]
NoOutput == [time |-> 0, eos |-> FALSE, valid |-> FALSE, c |-> Blank]
NoStart == [set |-> FALSE, check |-> FALSE, time |-> 0, eos |-> FALSE]

(* SEC_MFC_H264Dec_Init has succeeded and so has the creation of the thread. *)
Init ==
  /\ pos = 0 /\ gen = 0 /\ from = 1 /\ fed = 0 /\ flush = "none"
  /\ shown = <<>> /\ eosOut = FALSE
  /\ cur = NoInput /\ inp = NoData /\ prevLen = 0
  /\ bUseFlagEOF = FALSE /\ bSaveFlagEOS = FALSE /\ reInputData = FALSE
  /\ checkTimeStamp = NoStart
  /\ pc = "input" /\ yet = FALSE /\ len = 0 /\ out = NoOutput
  /\ bConfiguredMFC = FALSE /\ bFirstFrame = TRUE /\ getAllDelayBuffer = FALSE
  /\ bDecoderRun = FALSE /\ returnCodec = "ok"
  /\ index = 0 /\ buf = [b \in Bufs |-> Blank] /\ dataSize = [b \in Bufs |-> 0]
  /\ tag = 0 /\ timeStamp = [t \in Tags |-> NoTime] /\ nFlags = [t \in Tags |-> FALSE]
  /\ dpc = "wait" /\ hDecFrameStart = 0 /\ hDecFrameEnd = 0 /\ bExitDecodeThread = FALSE
  /\ ctx = [buf |-> 0, tag |-> 0, size |-> 0] /\ job = ctx
  /\ pend = <<>> /\ disp = [status |-> "decoding", c |-> Blank, tag |-> 0]
  /\ errors = 0 /\ repeats = 0

-----------------------------------------------------------------------------
(* The device has done what it is told, frame by frame. *)
Calm == errors = 0 /\ repeats = 0

(* The client.  Every buffer has OMX_BUFFERFLAG_ENDOFFRAME. *)

Feed(c, time, eos) ==
  /\ cur' = [valid |-> TRUE, left |-> c # Blank, c |-> c, time |-> time, eos |-> eos]
  /\ UNCHANGED <<gen, from, flush, shown, eosOut, inp, prevLen, bUseFlagEOF, bSaveFlagEOS,
                 reInputData, checkTimeStamp, pc, codecVars, returnCodec, ctx, threadVars,
                 deviceVars>>

(* SEC_InputBufferGetQueue: the buffer process thread gets the next buffer. *)
TakesInput == pc = "input" /\ ~reInputData /\ ~cur.valid /\ flush \in {"none", "asked"}

GetHeader ==
  /\ TakesInput /\ pos = Header
  /\ pos' = 1 /\ UNCHANGED fed
  /\ Feed([gen |-> gen, n |-> Header], 0, FALSE)

GetFrame(eos) ==
  /\ TakesInput /\ pos \in 1 .. Frames
  /\ pos' = IF eos THEN Frames + 2 ELSE pos + 1
  /\ fed' = IF eos THEN fed ELSE fed + 1
  /\ Feed([gen |-> gen, n |-> pos], pos, eos)

(* The stream may end anywhere, but a seek finds a frame. *)
GetEnd ==
  /\ TakesInput /\ pos <= Frames + 1 /\ (gen > 0 => fed > 0)
  /\ pos' = Frames + 2 /\ UNCHANGED fed
  /\ Feed(Blank, EosTime, TRUE)

-----------------------------------------------------------------------------
(* SEC_Preprocessor_InputData. *)

(* Deviation for the mutation runs: the end of the stream cannot wait for the
   frame before it. *)
EndOfInputDrops(full, size, cfg, saved) ==
  IF full THEN [eos |-> saved, eof |-> saved, save |-> FALSE]
  ELSE [eos |-> FALSE, eof |-> cur.eos, save |-> FALSE]
(* What becomes of an end of stream: it goes with the data that is complete, or
   it is kept for the next call. *)
EndOfInput(full, size, cfg, saved) ==
  IF full THEN [eos |-> saved, eof |-> saved, save |-> FALSE]
  ELSE IF ~cur.eos THEN [eos |-> inp.eos, eof |-> FALSE, save |-> saved]
  ELSE IF cfg \/ size = 0 THEN [eos |-> TRUE, eof |-> TRUE, save |-> FALSE]
  ELSE [eos |-> FALSE, eof |-> TRUE, save |-> TRUE]

(* Without flag EOF, Check_H264_Frame ends a frame where the next one begins. *)
Preprocess ==
  LET isCfg == cur.left /\ cur.c.n = Header
      fresh == inp.len = 0                          \* previousFrameEOF
      useEOF == bUseFlagEOF /\ ~isCfg
      bound == ~useEOF /\ ~fresh /\ cur.left /\ ~isCfg
      copied == cur.left /\ ~bound
      size == IF copied THEN 1 ELSE inp.len
      saved == bSaveFlagEOS \/ cur.eos
      cfg == IF fresh \/ bound \/ ~saved THEN isCfg ELSE inp.cfg
      last == EndOfInput(useEOF, size, cfg, saved)
      end == IF useEOF \/ (~bound /\ saved) THEN last
             ELSE [eos |-> FALSE, eof |-> FALSE, save |-> saved]
      eof == useEOF \/ bound \/ end.eof
      time == IF fresh THEN cur.time ELSE inp.time
  IN /\ pc = "input" /\ ~reInputData /\ cur.valid
     /\ cur' = IF cur.left /\ ~copied THEN cur ELSE NoInput
     /\ buf' = IF copied THEN [buf EXCEPT ![index] = cur.c] ELSE buf
     /\ inp' = [len |-> IF end.eos /\ size = 0 /\ eof THEN prevLen ELSE size,
                time |-> time, eos |-> end.eos, eof |-> TRUE, cfg |-> cfg]
     /\ bUseFlagEOF' = useEOF /\ bSaveFlagEOS' = end.save
     /\ checkTimeStamp' = IF eof /\ checkTimeStamp.set
                          THEN [set |-> FALSE, check |-> TRUE, time |-> time, eos |-> end.eos]
                          ELSE checkTimeStamp
     /\ pc' = IF eof \/ flush \in {"asked", "port"} THEN "decode" ELSE "input"
     /\ UNCHANGED <<clientVars, prevLen, reInputData, yet, len, out, bConfiguredMFC,
                    bFirstFrame, getAllDelayBuffer, bDecoderRun, index, dataSize, tag,
                    timeStamp, nFlags, returnCodec, ctx, threadVars, deviceVars>>

(* The frame at hand is to be decoded again, or a port that is being flushed
   has none: the call is made with what there is. *)
SkipPreprocess ==
  /\ pc = "input"
  /\ reInputData \/ (~cur.valid /\ flush \in {"asked", "port"})
  /\ pc' = "decode"
  /\ UNCHANGED <<clientVars, portVars, codecVars, returnCodec, ctx, threadVars, deviceVars>>

-----------------------------------------------------------------------------
(* SEC_MFC_H264_Decode and what SEC_MFC_H264Dec_bufferProcess adds to it. *)

(* The input is consumed unless it has to be decoded yet. *)
Conclude(again) ==
  /\ pc' = "done" /\ yet' = again
  /\ prevLen' = IF again THEN prevLen ELSE inp.len
  /\ inp' = IF again THEN inp ELSE [inp EXCEPT !.len = 0]

(* 908-1009: no configuration without data, ... *)
DecodeNothing ==
  /\ pc = "decode" /\ ~bConfiguredMFC /\ inp.len = 0 /\ inp.eos
  /\ out' = [NoOutput EXCEPT !.time = inp.time, !.eos = inp.eos]
  /\ Conclude(FALSE)
  /\ UNCHANGED <<clientVars, cur, bUseFlagEOF, bSaveFlagEOS, reInputData, checkTimeStamp, len,
                 bConfiguredMFC, bFirstFrame, getAllDelayBuffer, bDecoderRun, index, buf,
                 dataSize, tag, timeStamp, nFlags, returnCodec, ctx, threadVars, deviceVars>>

(* ... the codec header configures the device, or fails to and is kept. *)
Configure ==
  /\ pc = "decode" /\ ~bConfiguredMFC /\ inp.len > 0
  /\ \/ /\ bConfiguredMFC' = TRUE /\ returnCodec' = "ok"
        /\ out' = [NoOutput EXCEPT !.time = inp.time, !.eos = inp.eos]
        /\ Conclude(FALSE) /\ UNCHANGED errors
     \/ /\ errors + repeats < MaxFaults /\ errors' = errors + 1
        /\ returnCodec' = "error" /\ pc' = "done" /\ yet' = FALSE
        /\ UNCHANGED <<bConfiguredMFC, out, inp, prevLen>>
  /\ UNCHANGED <<clientVars, cur, bUseFlagEOF, bSaveFlagEOS, reInputData, checkTimeStamp, len,
                 bFirstFrame, getAllDelayBuffer, bDecoderRun, index, buf, dataSize, tag,
                 timeStamp, nFlags, ctx, threadVars, job, pend, disp, repeats>>

(* Deviation for the mutation runs: the decode that runs is not waited for. *)
CollectAtOnce == "read"
(* Where the outcome of the frame before this one is to be had. *)
Collect == IF bDecoderRun THEN "await" ELSE "read"

(* 1012-1021, 1086-1106: the tag of this frame is recorded; unless it is the
   first one, or the last decode is known to have failed, the thread turns to
   the frame before it. *)
Begin ==
  LET skip == returnCodec # "ok" \/ bFirstFrame
      end == bSaveFlagEOS \/ getAllDelayBuffer \/ inp.eos
      moved == skip /\ bFirstFrame /\ end
  IN /\ pc = "decode" /\ bConfiguredMFC
     /\ bUseFlagEOF' = (bUseFlagEOF \/ inp.eof)
     /\ timeStamp' = [timeStamp EXCEPT ![tag] = inp.time]
     /\ nFlags' = [nFlags EXCEPT ![tag] = inp.eos]
     /\ len' = inp.len /\ yet' = FALSE
     /\ out' = IF skip THEN [NoOutput EXCEPT !.time = inp.time, !.eos = end /\ ~moved]
                       ELSE NoOutput
     /\ getAllDelayBuffer' = IF skip /\ end THEN FALSE ELSE getAllDelayBuffer
     /\ inp' = IF moved THEN [inp EXCEPT !.eos = TRUE] ELSE inp
     /\ pc' = IF skip THEN "send" ELSE Collect
     /\ UNCHANGED <<clientVars, cur, prevLen, bSaveFlagEOS, reInputData, checkTimeStamp,
                    bConfiguredMFC, bFirstFrame, bDecoderRun, index, buf, dataSize, tag,
                    returnCodec, ctx, threadVars, deviceVars>>

(* Wait for mfc decode done. *)
Await ==
  /\ pc = "await" /\ hDecFrameEnd > 0
  /\ hDecFrameEnd' = hDecFrameEnd - 1 /\ bDecoderRun' = FALSE /\ pc' = "read"
  /\ UNCHANGED <<clientVars, portVars, yet, len, out, bConfiguredMFC, bFirstFrame,
                 getAllDelayBuffer, index, buf, dataSize, tag, timeStamp, nFlags, returnCodec,
                 ctx, dpc, hDecFrameStart, bExitDecodeThread, deviceVars>>

Other(b) == 1 - b

(* Deviation for the mutation runs: the flags are those of the input. *)
OutFlagNow == inp.eos
(* The flags of the frame whose picture the device has shown last. *)
OutFlag == nFlags[disp.tag]

(* 1056-1085: an end of the stream, in the input or kept, starts the draining of
   the device; a picture that is the end ends it. *)
Ending == inp.eos \/ (disp.status = "decoding" /\ (bSaveFlagEOS \/ getAllDelayBuffer))
(* The input has to be decoded yet. *)
Again ==
  \/ Ending
  \/ ~OutFlag /\ disp.status = "display_only"
  \/ ~OutFlag /\ disp.status = "display" /\ getAllDelayBuffer

(* 1031-1119: SsbSipMfcDecGetOutBuf and what follows from it.  When the input has
   to be decoded yet, the buffer before it is submitted again. *)
Read ==
  /\ pc = "read" /\ pc' = "send"
  /\ out' = [time |-> timeStamp[disp.tag], eos |-> OutFlag, c |-> disp.c,
             valid |-> disp.status # "decoding" /\ ~OutFlag]
  /\ inp' = IF Ending THEN [inp EXCEPT !.eos = FALSE] ELSE inp
  /\ getAllDelayBuffer' = (Ending \/ (getAllDelayBuffer /\ ~OutFlag))
  /\ yet' = Again
  /\ dataSize' = IF Again THEN [dataSize EXCEPT ![index] = len] ELSE dataSize
  /\ index' = IF Again THEN Other(index) ELSE index
  /\ len' = IF Again THEN dataSize[Other(index)] ELSE len
  /\ UNCHANGED <<clientVars, cur, prevLen, bUseFlagEOF, bSaveFlagEOS, reInputData,
                 checkTimeStamp, bConfiguredMFC, bFirstFrame, bDecoderRun, buf, tag,
                 timeStamp, nFlags, returnCodec, ctx, threadVars, deviceVars>>

NextTag == (tag + 1) % MAX_TIMESTAMP

(* 1121-1136: the frame is submitted if it has a start code ... *)
Submits == inp.len > 0 /\ buf[index] # Blank /\ ~out.eos

Send ==
  /\ pc = "send" /\ Submits
  /\ ctx' = [buf |-> index, tag |-> tag, size |-> len]
  /\ tag' = NextTag
  /\ dataSize' = [dataSize EXCEPT ![index] = len]
  /\ hDecFrameStart' = hDecFrameStart + 1
  /\ pc' = "sent"
  /\ UNCHANGED <<clientVars, portVars, yet, len, out, bConfiguredMFC, bFirstFrame,
                 getAllDelayBuffer, bDecoderRun, index, buf, timeStamp, nFlags, returnCodec,
                 dpc, hDecFrameEnd, bExitDecodeThread, deviceVars>>

(* 1137-1151: ... and the decode thread is running when the rest is done. *)
Sent ==
  /\ pc = "sent"
  /\ bDecoderRun' = TRUE /\ returnCodec' = "ok"
  /\ index' = Other(index) /\ bFirstFrame' = FALSE
  /\ Conclude(yet \/ (bSaveFlagEOS /\ bFirstFrame /\ ~out.valid))
  /\ UNCHANGED <<clientVars, cur, bUseFlagEOF, bSaveFlagEOS, reInputData, checkTimeStamp, len,
                 out, bConfiguredMFC, getAllDelayBuffer, buf, dataSize, tag, timeStamp, nFlags,
                 ctx, threadVars, deviceVars>>

SendNothing ==
  /\ pc = "send" /\ ~Submits
  /\ Conclude(yet)
  /\ UNCHANGED <<clientVars, cur, bUseFlagEOF, bSaveFlagEOS, reInputData, checkTimeStamp, len,
                 out, bConfiguredMFC, bFirstFrame, getAllDelayBuffer, bDecoderRun, index, buf,
                 dataSize, tag, timeStamp, nFlags, returnCodec, ctx, threadVars, deviceVars>>

(* SEC_OMX_BufferProcess, with the mutexes released. *)
Done ==
  /\ pc = "done"
  /\ reInputData' = yet /\ pc' = "output"
  /\ UNCHANGED <<clientVars, cur, inp, prevLen, bUseFlagEOF, bSaveFlagEOS, checkTimeStamp,
                 codecVars, returnCodec, ctx, threadVars, deviceVars>>

(* SEC_Postprocess_OutputData: nothing leaves between a flush and the picture of
   the first frame after it.  The client drops what comes while it seeks, and the
   record ends one picture after the last of the stream. *)
Matches == checkTimeStamp.time = out.time /\ checkTimeStamp.eos = out.eos

Postprocess ==
  LET drop == IF checkTimeStamp.check THEN ~Matches ELSE checkTimeStamp.set
      heard == ~drop /\ flush = "none"
  IN /\ pc = "output" /\ pc' = "input"
     /\ checkTimeStamp' = IF checkTimeStamp.check /\ Matches THEN NoStart ELSE checkTimeStamp
     /\ shown' = IF heard /\ out.valid /\ Len(shown) <= Frames
                 THEN Append(shown, [c |-> out.c, time |-> out.time]) ELSE shown
     /\ eosOut' = (eosOut \/ (heard /\ out.eos))
     /\ out' = NoOutput
     /\ UNCHANGED <<pos, gen, from, fed, flush, cur, inp, prevLen, bUseFlagEOF, bSaveFlagEOS,
                    reInputData, yet, len, bConfiguredMFC, bFirstFrame, getAllDelayBuffer,
                    bDecoderRun, index, buf, dataSize, tag, timeStamp, nFlags, returnCodec,
                    ctx, threadVars, deviceVars>>

-----------------------------------------------------------------------------
(* SEC_MFC_DecodeThread and the device.  The context is read when the decode
   begins, the stream buffer while it goes on. *)

StartExe ==
  /\ dpc = "wait" /\ hDecFrameStart > 0
  /\ hDecFrameStart' = hDecFrameStart - 1
  /\ dpc' = IF bExitDecodeThread THEN "dead" ELSE "exe"
  /\ job' = ctx
  /\ UNCHANGED <<clientVars, portVars, pc, codecVars, returnCodec, ctx, hDecFrameEnd,
                 bExitDecodeThread, pend, disp, errors, repeats>>

(* SsbSipMfcDecExe.  The tag the device reports is that of the picture it has
   shown last. *)
Decoded ==
  LET frame == IF job.size > 0 THEN buf[job.buf] ELSE Blank
      all == Append(pend, [c |-> frame, tag |-> job.tag])
  IN /\ IF Len(all) > Delay
        THEN /\ disp' = [status |-> "display", c |-> Head(all).c, tag |-> Head(all).tag]
             /\ pend' = Tail(all)
        ELSE disp' = [disp EXCEPT !.status = "decoding"] /\ pend' = all
     /\ returnCodec' = "ok" /\ UNCHANGED <<errors, repeats>>

ShownOnly ==
  /\ errors + repeats < MaxFaults /\ pend # <<>>
  /\ repeats' = repeats + 1
  /\ disp' = [status |-> "display_only", c |-> Head(pend).c, tag |-> Head(pend).tag]
  /\ pend' = Tail(pend)
  /\ returnCodec' = "ok" /\ UNCHANGED errors

ExeFails ==
  /\ errors + repeats < MaxFaults /\ errors' = errors + 1
  /\ returnCodec' = "error" /\ UNCHANGED <<pend, disp, repeats>>

Exe ==
  /\ dpc = "exe" /\ dpc' = "post"
  /\ Decoded \/ ShownOnly \/ ExeFails
  /\ UNCHANGED <<clientVars, portVars, pc, codecVars, ctx, hDecFrameStart, hDecFrameEnd,
                 bExitDecodeThread, job>>

PostEnd ==
  /\ dpc = "post"
  /\ hDecFrameEnd' = hDecFrameEnd + 1
  /\ dpc' = IF bExitDecodeThread THEN "dead" ELSE "wait"
  /\ UNCHANGED <<clientVars, portVars, pc, codecVars, returnCodec, ctx, hDecFrameStart,
                 bExitDecodeThread, deviceVars>>

-----------------------------------------------------------------------------
(* SEC_OMX_BufferFlushProcess of both ports, by the message handler thread. *)

(* SendCommand sets bIsPortFlushed.  The client seeks once it has seen a
   picture, and feeds again when both ports are done. *)
AskFlush ==
  /\ flush = "none" /\ gen < MaxSeeks /\ shown # <<>> /\ ~bExitDecodeThread
  /\ Calm
  /\ flush' = "asked"
  /\ UNCHANGED <<pos, gen, from, fed, shown, eosOut, portVars, pc, codecVars, returnCodec, ctx,
                 threadVars, deviceVars>>

(* SEC_OMX_FlushPort of the input port, under its buffer mutex. *)
FlushInput ==
  /\ flush = "asked" /\ pc \notin {"await", "read", "send", "sent"}
  /\ flush' = "port" /\ cur' = NoInput /\ inp' = NoData
  /\ UNCHANGED <<pos, gen, from, fed, shown, eosOut, prevLen, bUseFlagEOF, bSaveFlagEOS,
                 reInputData, checkTimeStamp, pc, codecVars, returnCodec, ctx, threadVars,
                 deviceVars>>

(* Deviation for the mutation runs: the times before the flush are kept. *)
KeptTimes == timeStamp
ForgottenTimes == [t \in Tags |-> NoTime]

(* The mutex is released before the rest is reset. *)
ResetInput ==
  /\ flush = "port" /\ flush' = "reset"
  /\ checkTimeStamp' = [checkTimeStamp EXCEPT !.set = TRUE, !.check = FALSE]
  /\ timeStamp' = ForgottenTimes /\ nFlags' = [t \in Tags |-> FALSE]
  /\ getAllDelayBuffer' = FALSE /\ bSaveFlagEOS' = FALSE /\ reInputData' = FALSE
  /\ UNCHANGED <<pos, gen, from, fed, shown, eosOut, cur, inp, prevLen, bUseFlagEOF, pc, yet,
                 len, out, bConfiguredMFC, bFirstFrame, bDecoderRun, index, buf, dataSize, tag,
                 returnCodec, ctx, threadVars, deviceVars>>

(* The output port, under its mutex; then the client feeds from frame f on. *)
FlushOutput(f) ==
  /\ flush = "reset" /\ pc \notin {"await", "read", "send", "sent"}
  /\ flush' = "none" /\ gen' = gen + 1 /\ from' = f /\ pos' = f /\ fed' = 0
  /\ shown' = <<>> /\ eosOut' = FALSE
  /\ out' = NoOutput
  /\ UNCHANGED <<portVars, pc, yet, len, bConfiguredMFC, bFirstFrame, getAllDelayBuffer,
                 bDecoderRun, index, buf, dataSize, tag, timeStamp, nFlags, returnCodec, ctx,
                 threadVars, deviceVars>>

(* SEC_MFC_H264Dec_Terminate, when the component has become idle. *)
AskExit ==
  /\ pc = "input" /\ flush = "none"
  /\ bExitDecodeThread' = TRUE /\ pc' = "stop"
  /\ UNCHANGED <<clientVars, portVars, codecVars, returnCodec, ctx, dpc, hDecFrameStart,
                 hDecFrameEnd, deviceVars>>

(* Deviation for the mutation runs: the thread is not woken. *)
LeaveAsleep == UNCHANGED hDecFrameStart
WakeThread == hDecFrameStart' = hDecFrameStart + 1

PostExit ==
  /\ pc = "stop" /\ pc' = "join"
  /\ WakeThread
  /\ UNCHANGED <<clientVars, portVars, codecVars, returnCodec, ctx, dpc, hDecFrameEnd,
                 bExitDecodeThread, deviceVars>>

Close ==
  /\ pc = "join" /\ dpc = "dead" /\ pc' = "closed"
  /\ UNCHANGED <<clientVars, portVars, codecVars, returnCodec, ctx, threadVars, deviceVars>>

-----------------------------------------------------------------------------
ClientNext ==
  \/ GetHeader
  \/ \E eos \in BOOLEAN : GetFrame(eos)
  \/ GetEnd
  \/ AskFlush
  \/ AskExit

BufferProcess ==
  \/ Preprocess \/ SkipPreprocess
  \/ DecodeNothing \/ Configure \/ Begin \/ Await \/ Read \/ Send \/ Sent \/ SendNothing
  \/ Done \/ Postprocess

DecodeThread == StartExe \/ Exe \/ PostEnd

Flushing == FlushInput \/ ResetInput \/ \E f \in 1 .. Frames : FlushOutput(f)
Terminating == PostExit \/ Close

Next == ClientNext \/ BufferProcess \/ DecodeThread \/ Flushing \/ Terminating

Spec == Init /\ [][Next]_vars

(* The threads keep running; the client need not feed, seek or stop. *)
FairSpec == /\ Spec
            /\ WF_vars(BufferProcess) /\ WF_vars(DecodeThread)
            /\ WF_vars(Flushing) /\ WF_vars(Terminating)

-----------------------------------------------------------------------------
TypeOK ==
  /\ pos \in 0 .. Frames + 2 /\ gen \in 0 .. MaxSeeks /\ from \in 1 .. Frames
  /\ fed \in 0 .. Frames /\ flush \in {"none", "asked", "port", "reset"}
  /\ shown \in Seq([c : Contents, time : Times]) /\ eosOut \in BOOLEAN
  /\ cur \in [valid : BOOLEAN, left : BOOLEAN, c : Contents, time : Times, eos : BOOLEAN]
  /\ inp \in [len : 0 .. 1, time : Times, eos : BOOLEAN, eof : BOOLEAN, cfg : BOOLEAN]
  /\ prevLen \in 0 .. 1
  /\ bUseFlagEOF \in BOOLEAN /\ bSaveFlagEOS \in BOOLEAN /\ reInputData \in BOOLEAN
  /\ checkTimeStamp \in [set : BOOLEAN, check : BOOLEAN, time : Times, eos : BOOLEAN]
  /\ pc \in {"input", "decode", "await", "read", "send", "sent", "done", "output",
             "stop", "join", "closed"}
  /\ yet \in BOOLEAN /\ len \in 0 .. 1
  /\ out \in [time : Times, eos : BOOLEAN, valid : BOOLEAN, c : Contents]
  /\ bConfiguredMFC \in BOOLEAN /\ bFirstFrame \in BOOLEAN /\ getAllDelayBuffer \in BOOLEAN
  /\ bDecoderRun \in BOOLEAN /\ returnCodec \in {"ok", "error"}
  /\ index \in Bufs /\ buf \in [Bufs -> Contents] /\ dataSize \in [Bufs -> 0 .. 1]
  /\ tag \in Tags /\ timeStamp \in [Tags -> Times] /\ nFlags \in [Tags -> BOOLEAN]
  /\ dpc \in {"wait", "exe", "post", "dead"}
  /\ hDecFrameStart \in Nat /\ hDecFrameEnd \in Nat /\ bExitDecodeThread \in BOOLEAN
  /\ {ctx, job} \subseteq [buf : Bufs, tag : Tags, size : 0 .. 1]
  /\ pend \in Seq([c : Contents, tag : Tags])
  /\ disp \in [status : {"decoding", "display", "display_only"}, c : Contents, tag : Tags]
  /\ errors \in 0 .. MaxFaults /\ repeats \in 0 .. MaxFaults

(* While the device is decoding, or about to, the buffer process thread neither
   looks for its outcome nor sets its input, and fills the other stream buffer. *)
Alone ==
  dpc = "exe" \/ hDecFrameStart > 0
    => /\ pc \notin {"read", "send"}
       /\ dpc = "exe" /\ pc = "input" => job.buf # index
DecodesAlone == errors = 0 => Alone

(* The pictures after a seek are those of the frames fed since, from the first
   one on, none left out or shown twice, and each with its own time. *)
ShownInOrder ==
  Calm => \A i \in 1 .. Len(shown) :
            shown[i] = [c |-> [gen |-> gen, n |-> from + i - 1], time |-> from + i - 1]

(* The end of the stream is told when every frame has been shown that came in a
   buffer without the end of the stream. *)
EosAfterFrames == Calm /\ eosOut => Len(shown) >= fed

(* It is told, once the buffer that says so has been taken. *)
EosReaches ==
  (cur.valid /\ cur.eos) ~> (eosOut \/ ~Calm \/ flush # "none" \/ bExitDecodeThread)

(* The decode thread ends when it is asked to. *)
ExitEnds == bExitDecodeThread ~> pc = "closed"
=============================================================================
