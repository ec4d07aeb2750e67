----------------------------- MODULE MfcEncode -----------------------------
(***************************************************************************)
(* A video encoder between the buffers of its two ports: SEC_OMX_Venc.c,   *)
(* SEC_OMX_H264enc.c, SEC_OMX_Mpeg4enc.c and the encoder's user library.   *)
(*   - the buffer process thread ("pc") copies a picture into one of two   *)
(*     input buffers, hands it to the encode thread, and collects what the *)
(*     picture before it has become;                                       *)
(*   - the encode thread ("epc", SEC_MFC_EncodeThread) runs the device;    *)
(*   - the device writes the two halves of one stream buffer in turn, and  *)
(*     the output port copies from the half that it does not write.        *)
(* The two encoders differ in the parameters they give the device and in   *)
(* the header, which H.264 takes apart; the hand-over is the same.  Input  *)
(* buffers hold one picture each, or its physical address; output buffers  *)
(* may be smaller than what was encoded.  Buffers with meta data come with *)
(* OMX_BUFFERFLAG_ENDOFFRAME, as an "address": without it they go back     *)
(* unencoded.  Flushes are those of OmxBufferFlow and MfcDecode.           *)
(***************************************************************************)
EXTENDS Integers, Sequences

CONSTANTS MAX_TIMESTAMP,  \* entries of the table of time stamps
          Frames,         \* the pictures of the stream; their times are their numbers
          Ahead,          \* bound on the buffers the client queues
          MaxEncodeFaults \* bound on failing device calls

(* A tag is used again only after the picture before it (it is 40 in the code). *)
ASSUME MfcEncodeAssumption ==
  /\ MAX_TIMESTAMP \in Nat /\ MAX_TIMESTAMP > 1
  /\ Frames \in Nat \ {0} /\ Ahead \in Nat /\ MaxEncodeFaults \in Nat

Tags == 0 .. MAX_TIMESTAMP - 1
Halves == 0 .. 1        \* MFC_INPUT_BUFFER_NUM_MAX, and the halves of the stream buffer

\* What a buffer holds: the codec header, the picture with that number, what was
\* left in a buffer without data, or a picture that is being written.
Header == 0
Stale == Frames + 1
Torn == -1
Contents == Torn .. Stale

VARIABLES
  mode,       \* the input port's buffers hold the picture, or its "address"
  framed,     \* the client sets OMX_BUFFERFLAG_ENDOFFRAME
  pos, fed,   \* the client's next picture; those it sent without the end of the stream
  queue,      \* bufferQ of the input port
  tokens,     \* its bufferSemID
  got,        \* what the client was given, with its time
  eosOut,     \* it has been told the end of the stream
  cur,        \* secDataBuffer[INPUT]
  inp, out,   \* processData
  bUseFlagEOF, bSaveFlagEOS, getAllDelayBuffer, reInputData, remainOutputData,
  pc, result, source,        \* pInputInfo: which picture the device is to encode
  bConfiguredMFC, bFirstFrame, bEncoderRun, returnCodec,
  indexInputBuffer, picture,          \* MFCEncInputBuffer
  indexTimestamp, timeStamp, nFlags,  \* OMX_BUFFERFLAG_EOS only
  epc, hEncFrameStart, hEncFrameEnd, bExitEncodeThread,
  encode_cnt, stream,     \* the half that is written next; what the halves hold
  ctx,        \* the context: [source, tag] of the next encode
  job,        \* the one the device is at, with its half
  enc,        \* what the device has reported last: [c, tag]
  encodeFaults

clientVars == <<mode, framed, pos, fed, got, eosOut>>
inputVars == <<queue, tokens>>
flagVars == <<bUseFlagEOF, bSaveFlagEOS, getAllDelayBuffer, reInputData, remainOutputData>>
codecVars == <<source, bConfiguredMFC, bFirstFrame, bEncoderRun, indexInputBuffer,
               indexTimestamp, timeStamp, nFlags, ctx>>
threadVars == <<epc, hEncFrameStart, hEncFrameEnd, bExitEncodeThread>>
deviceVars == <<stream, job, enc, encodeFaults>>
encodeVars == <<clientVars, inputVars, cur, inp, out, flagVars, pc, result, returnCodec,
                picture, codecVars, threadVars, encode_cnt, deviceVars>>

NoInput == [valid |-> FALSE, len |-> 0, n |-> Stale, eos |-> FALSE]
NoData == [len |-> 0, time |-> 0, eos |-> FALSE, n |-> Stale]
NoOutput == [len |-> 0, half |-> 0, time |-> 0, eos |-> FALSE, split |-> FALSE]

(* SEC_MFC_H264Enc_Init has succeeded and so has the creation of the thread. *)
EncodeInit ==
  /\ mode \in {"picture", "address"} /\ framed \in BOOLEAN
  /\ pos = 1 /\ fed = 0 /\ queue = <<>> /\ tokens = 0 /\ got = <<>> /\ eosOut = FALSE
  /\ cur = NoInput /\ inp = NoData /\ out = NoOutput
  /\ bUseFlagEOF = FALSE /\ bSaveFlagEOS = FALSE /\ getAllDelayBuffer = FALSE
  /\ reInputData = FALSE /\ remainOutputData = FALSE
  /\ pc = "input" /\ result = "none" /\ source = [own |-> TRUE, at |-> 0, n |-> Stale]
  /\ bConfiguredMFC = FALSE /\ bFirstFrame = TRUE /\ bEncoderRun = FALSE /\ returnCodec = "ok"
  /\ indexInputBuffer = 0 /\ picture = [b \in Halves |-> Stale]
  /\ indexTimestamp = 0 /\ timeStamp = [t \in Tags |-> -1] /\ nFlags = [t \in Tags |-> FALSE]
  /\ epc = "wait" /\ hEncFrameStart = 0 /\ hEncFrameEnd = 0 /\ bExitEncodeThread = FALSE
  /\ encode_cnt = 0 /\ stream = [h \in Halves |-> Stale]
  /\ ctx = [source |-> source, tag |-> 0]
  /\ job = [source |-> source, tag |-> 0, half |-> 0]
  /\ enc = [c |-> Stale, tag |-> 0] /\ encodeFaults = 0

-----------------------------------------------------------------------------
(* The client: OMX_EmptyThisBuffer. *)

Submit(b) ==
  /\ Len(queue) < Ahead
  /\ queue' = Append(queue, b) /\ tokens' = tokens + 1
  /\ UNCHANGED <<mode, framed, got, eosOut, cur, inp, out, flagVars, pc, result, returnCodec,
                 picture, codecVars, threadVars, encode_cnt, deviceVars>>

SubmitFrame(eos) ==
  /\ pos \in 1 .. Frames /\ ~bExitEncodeThread
  /\ pos' = IF eos THEN Frames + 2 ELSE pos + 1
  /\ fed' = IF eos THEN fed ELSE fed + 1
  /\ Submit([valid |-> TRUE, len |-> 1, n |-> pos, eos |-> eos])

(* A buffer that only ends the stream. *)
SubmitEnd ==
  /\ pos <= Frames + 1 /\ ~bExitEncodeThread
  /\ pos' = Frames + 2 /\ UNCHANGED fed
  /\ Submit([valid |-> TRUE, len |-> 0, n |-> Stale, eos |-> TRUE])

-----------------------------------------------------------------------------
(* The input port. *)

(* A picture that is not encoded takes the place of the next one: the copy does
   not fit and what there is is dropped, with the buffer kept. *)
Overflows == inp.len > 0 /\ (bUseFlagEOF \/ framed)

(* SEC_InputBufferGetQueue, after SEC_Preprocessor_InputData found no picture;
   it takes a token even when there is a buffer at hand. *)
GetQueue ==
  /\ pc = "input" /\ ~reInputData /\ ~remainOutputData
  /\ ~cur.valid \/ Overflows
  /\ tokens > 0 /\ tokens' = tokens - 1
  /\ IF cur.valid THEN inp' = NoData /\ UNCHANGED <<cur, queue>>
     ELSE cur' = Head(queue) /\ queue' = Tail(queue) /\ UNCHANGED inp
  /\ UNCHANGED <<clientVars, out, flagVars, pc, result, returnCodec, picture, codecVars,
                 threadVars, encode_cnt, deviceVars>>

(* The flags of the input are those of the buffer it begins with, and the end of
   the stream when that has been saved. *)
Ends(eos) == bSaveFlagEOS \/ eos

(* What SEC_Preprocessor_InputData takes for the next picture: all there is with flag
   EOF, and otherwise what a picture of the port's colour format has, which it does not
   know of a physical address (oneFrameSize, 706-720). *)
PictureSize(useEOF) ==
  IF useEOF THEN 1 ELSE IF mode = "address" THEN 0 ELSE cur.len

(* SEC_Preprocessor_InputData: with flag EOF a buffer without data becomes a
   picture that ends the stream; an address without it is never consumed, and is
   turned to again with an input without data. *)
Preprocess ==
  LET useEOF == bUseFlagEOF \/ framed
      size == PictureSize(useEOF)
      eos == cur.eos \/ (useEOF /\ cur.len = 0)
      fresh == inp.len = 0
      all == cur.len = 0 \/ (fresh /\ size > 0)     \* nothing is left in the buffer
  IN /\ pc = "input" /\ ~reInputData /\ ~remainOutputData
     /\ cur.valid /\ ~Overflows
     /\ bUseFlagEOF' = useEOF
     /\ picture' = IF mode = "picture"
                   THEN [picture EXCEPT ![indexInputBuffer] = cur.n] ELSE picture
     /\ inp' = [len |-> IF fresh THEN size ELSE inp.len,
                time |-> IF fresh THEN cur.n ELSE inp.time,
                n |-> cur.n, eos |-> all /\ Ends(eos)]
     /\ cur' = [cur EXCEPT !.len = IF all THEN 0 ELSE @]
     /\ bSaveFlagEOS' = (~all /\ Ends(eos))
     /\ pc' = "encode"
     /\ UNCHANGED <<clientVars, inputVars, out, getAllDelayBuffer, reInputData,
                    remainOutputData, result, returnCodec, codecVars, threadVars, encode_cnt,
                    deviceVars>>

(* The picture at hand is to be encoded again. *)
SkipPreprocess ==
  /\ pc = "input" /\ reInputData /\ ~remainOutputData
  /\ pc' = "encode"
  /\ UNCHANGED <<clientVars, inputVars, cur, inp, out, flagVars, result, returnCodec, picture,
                 codecVars, threadVars, encode_cnt, deviceVars>>

(* What was encoded last is not delivered yet. *)
SkipEncode ==
  /\ pc = "input" /\ remainOutputData
  /\ pc' = "output"
  /\ UNCHANGED <<clientVars, inputVars, cur, inp, out, flagVars, result, returnCodec, picture,
                 codecVars, threadVars, encode_cnt, deviceVars>>

-----------------------------------------------------------------------------
(* SEC_MFC_H264_Encode. *)

Other(h) == 1 - h

(* 919-961: the first call initialises the device and delivers the codec header;
   the picture has to be encoded yet. *)
Configure ==
  /\ pc = "encode" /\ ~bConfiguredMFC /\ pc' = "done"
  /\ \/ /\ bConfiguredMFC' = TRUE /\ returnCodec' = "ok" /\ result' = "yet"
        /\ stream' = [stream EXCEPT ![encode_cnt] = Header]
        /\ out' = [NoOutput EXCEPT !.len = 1, !.half = encode_cnt]
        /\ encode_cnt' = Other(encode_cnt) /\ UNCHANGED encodeFaults
     \/ /\ encodeFaults < MaxEncodeFaults /\ encodeFaults' = encodeFaults + 1
        /\ returnCodec' = "error" /\ result' = "error"
        /\ UNCHANGED <<bConfiguredMFC, stream, out, encode_cnt>>
  /\ UNCHANGED <<clientVars, inputVars, cur, inp, flagVars, picture, source, bFirstFrame,
                 bEncoderRun, indexInputBuffer, indexTimestamp, timeStamp, nFlags, ctx,
                 threadVars, job, enc>>

(* 968-974: without data nothing is encoded. *)
PassOn ==
  /\ pc = "encode" /\ bConfiguredMFC /\ inp.len = 0
  /\ pc' = "done" /\ result' = "none"
  /\ out' = [NoOutput EXCEPT !.time = inp.time, !.eos = inp.eos]
  /\ UNCHANGED <<clientVars, inputVars, cur, inp, flagVars, returnCodec, picture, codecVars,
                 threadVars, encode_cnt, deviceVars>>

(* Deviation for the mutation runs: the encode that runs is not waited for. *)
CollectAtOnce == "read"
(* Where the outcome of the picture before this one is to be had. *)
Collect == IF bEncoderRun THEN "await" ELSE "read"

(* 976-1006: which picture the device is to encode, a dummy while the stream ends;
   its tag is recorded.  Unless it is the first one, or the last encode is known
   to have failed, the thread turns to the picture before it. *)
Begin ==
  LET dummy == inp.eos \/ getAllDelayBuffer
      skip == returnCodec # "ok" \/ bFirstFrame
  IN /\ pc = "encode" /\ bConfiguredMFC /\ inp.len > 0
     /\ source' = [own |-> dummy \/ mode = "picture", at |-> indexInputBuffer, n |-> inp.n]
     /\ timeStamp' = [timeStamp EXCEPT ![indexTimestamp] = inp.time]
     /\ nFlags' = [nFlags EXCEPT ![indexTimestamp] = inp.eos]
     /\ result' = IF returnCodec = "ok" THEN "none" ELSE "error"
     /\ pc' = IF skip THEN "send" ELSE Collect
     /\ UNCHANGED <<clientVars, inputVars, cur, inp, out, flagVars, returnCodec, picture,
                    bConfiguredMFC, bFirstFrame, bEncoderRun, indexInputBuffer,
                    indexTimestamp, ctx, threadVars, encode_cnt, deviceVars>>

(* wait for mfc encode done *)
Await ==
  /\ pc = "await" /\ hEncFrameEnd > 0
  /\ hEncFrameEnd' = hEncFrameEnd - 1 /\ bEncoderRun' = FALSE /\ pc' = "read"
  /\ UNCHANGED <<clientVars, inputVars, cur, inp, out, flagVars, result, returnCodec, picture,
                 source, bConfiguredMFC, bFirstFrame, indexInputBuffer, indexTimestamp,
                 timeStamp, nFlags, ctx, epc, hEncFrameStart, bExitEncodeThread, encode_cnt,
                 deviceVars>>

(* Deviation for the mutation runs: the end of the stream does not end the
   draining. *)
DrainsOn(eos) == getAllDelayBuffer \/ inp.eos
(* 1044-1058: an end of stream in the input starts the draining of the device,
   the picture that has it ends it. *)
Drains(eos) == (getAllDelayBuffer \/ inp.eos) /\ ~eos

(* 1014-1059: SsbSipMfcEncGetOutBuf, with the half of the stream buffer that was
   written last, and what follows from it. *)
Read ==
  LET eos == nFlags[enc.tag]
  IN /\ pc = "read" /\ pc' = "send"
     /\ returnCodec' = "ok" /\ encode_cnt' = Other(encode_cnt)
     /\ out' = [NoOutput EXCEPT !.len = IF eos THEN 0 ELSE 1, !.half = encode_cnt,
                                !.time = timeStamp[enc.tag], !.eos = eos]
     /\ result' = IF Drains(eos) THEN "yet" ELSE "none"
     /\ getAllDelayBuffer' = Drains(eos)
     /\ inp' = IF inp.eos THEN [inp EXCEPT !.eos = FALSE] ELSE inp
     /\ UNCHANGED <<clientVars, inputVars, cur, bUseFlagEOF, bSaveFlagEOS, reInputData,
                    remainOutputData, picture, codecVars, threadVars, deviceVars>>

(* 1060-1084: SsbSipMfcEncSetInBuf, the tag, and the start. *)
Send ==
  /\ pc = "send" /\ pc' = "sent"
  /\ returnCodec' = "ok"
  /\ ctx' = [source |-> source, tag |-> indexTimestamp]
  /\ indexInputBuffer' = Other(indexInputBuffer)
  /\ hEncFrameStart' = hEncFrameStart + 1
  /\ UNCHANGED <<clientVars, inputVars, cur, inp, out, flagVars, result, picture, source,
                 bConfiguredMFC, bFirstFrame, bEncoderRun, indexTimestamp, timeStamp, nFlags,
                 epc, hEncFrameEnd, bExitEncodeThread, encode_cnt, deviceVars>>

NextTag == (indexTimestamp + 1) % MAX_TIMESTAMP

(* 1085-1088: the encode thread is running when the rest is done. *)
Sent ==
  /\ pc = "sent" /\ pc' = "done"
  /\ bEncoderRun' = TRUE /\ indexTimestamp' = NextTag /\ bFirstFrame' = FALSE
  /\ UNCHANGED <<clientVars, inputVars, cur, inp, out, flagVars, result, returnCodec, picture,
                 source, bConfiguredMFC, indexInputBuffer, timeStamp, nFlags, ctx, threadVars,
                 encode_cnt, deviceVars>>

(* SEC_MFC_H264Enc_bufferProcess and SEC_OMX_BufferProcess: the input is consumed
   when it has been encoded, and its buffer goes back when it has been copied. *)
Done ==
  /\ pc = "done" /\ pc' = "output"
  /\ inp' = IF result = "none" THEN [inp EXCEPT !.len = 0] ELSE inp
  /\ cur' = IF cur.len = 0 THEN NoInput ELSE cur
  /\ reInputData' = (result = "yet")
  /\ UNCHANGED <<clientVars, inputVars, out, bUseFlagEOF, bSaveFlagEOS, getAllDelayBuffer,
                 remainOutputData, result, returnCodec, picture, codecVars, threadVars,
                 encode_cnt, deviceVars>>

-----------------------------------------------------------------------------
(* SEC_Postprocess_OutputData: the data is copied from the stream buffer. *)

Deliver ==
  /\ pc = "output" /\ pc' = "input"
  /\ remainOutputData' = FALSE
  /\ got' = IF out.len > 0 /\ Len(got) <= Frames + 1
            THEN Append(got, [c |-> stream[out.half], time |-> out.time]) ELSE got
  /\ eosOut' = (eosOut \/ out.eos)
  /\ out' = NoOutput
  /\ UNCHANGED <<mode, framed, pos, fed, inputVars, cur, inp, bUseFlagEOF, bSaveFlagEOS,
                 getAllDelayBuffer, reInputData, result, returnCodec, picture, codecVars,
                 threadVars, encode_cnt, deviceVars>>

(* The output buffer is too small: the rest goes into the next one. *)
DeliverPart ==
  /\ pc = "output" /\ pc' = "input"
  /\ out.len > 0 /\ ~out.split
  /\ remainOutputData' = TRUE
  /\ out' = [out EXCEPT !.split = TRUE]
  /\ UNCHANGED <<clientVars, inputVars, cur, inp, bUseFlagEOF, bSaveFlagEOS,
                 getAllDelayBuffer, reInputData, result, returnCodec, picture, codecVars,
                 threadVars, encode_cnt, deviceVars>>

-----------------------------------------------------------------------------
(* SEC_MFC_EncodeThread and SsbSipMfcEncExe. *)

(* The context is read when the encode begins, and the stream buffer is written
   from then on. *)
StartExe ==
  /\ epc = "wait" /\ hEncFrameStart > 0
  /\ hEncFrameStart' = hEncFrameStart - 1
  /\ epc' = IF bExitEncodeThread THEN "dead" ELSE "exe"
  /\ job' = [source |-> ctx.source, tag |-> ctx.tag, half |-> encode_cnt]
  /\ stream' = IF bExitEncodeThread THEN stream ELSE [stream EXCEPT ![encode_cnt] = Torn]
  /\ UNCHANGED <<clientVars, inputVars, cur, inp, out, flagVars, pc, result, returnCodec,
                 picture, codecVars, hEncFrameEnd, bExitEncodeThread, encode_cnt, enc,
                 encodeFaults>>

(* The picture that is encoded.  A buffer that the client has got back may hold
   another one by now. *)
Encodable ==
  IF job.source.own THEN {picture[job.source.at]}
  ELSE IF cur.valid /\ cur.n = job.source.n THEN {job.source.n}
  ELSE {job.source.n, Torn}

Encoded ==
  /\ \E c \in Encodable : /\ stream' = [stream EXCEPT ![job.half] = c]
                          /\ enc' = [c |-> c, tag |-> job.tag]
  /\ returnCodec' = "ok" /\ UNCHANGED encodeFaults

ExeFails ==
  /\ encodeFaults < MaxEncodeFaults /\ encodeFaults' = encodeFaults + 1
  /\ returnCodec' = "error" /\ UNCHANGED <<stream, enc>>

Exe ==
  /\ epc = "exe" /\ epc' = "post"
  /\ Encoded \/ ExeFails
  /\ UNCHANGED <<clientVars, inputVars, cur, inp, out, flagVars, pc, result, picture, codecVars,
                 hEncFrameStart, hEncFrameEnd, bExitEncodeThread, encode_cnt, job>>

PostEnd ==
  /\ epc = "post"
  /\ hEncFrameEnd' = hEncFrameEnd + 1
  /\ epc' = IF bExitEncodeThread THEN "dead" ELSE "wait"
  /\ UNCHANGED <<clientVars, inputVars, cur, inp, out, flagVars, pc, result, returnCodec,
                 picture, codecVars, hEncFrameStart, bExitEncodeThread, encode_cnt, deviceVars>>

-----------------------------------------------------------------------------
(* SEC_MFC_H264Enc_Terminate, when the component has become idle. *)

AskExit ==
  /\ pc = "input" /\ pc' = "stop"
  /\ bExitEncodeThread' = TRUE
  /\ UNCHANGED <<clientVars, inputVars, cur, inp, out, flagVars, result, returnCodec, picture,
                 codecVars, epc, hEncFrameStart, hEncFrameEnd, encode_cnt, deviceVars>>

PostExit ==
  /\ pc = "stop" /\ pc' = "join"
  /\ hEncFrameStart' = hEncFrameStart + 1
  /\ UNCHANGED <<clientVars, inputVars, cur, inp, out, flagVars, result, returnCodec, picture,
                 codecVars, epc, hEncFrameEnd, bExitEncodeThread, encode_cnt, deviceVars>>

CloseDevice ==
  /\ pc = "join" /\ epc = "dead" /\ pc' = "closed"
  /\ UNCHANGED <<clientVars, inputVars, cur, inp, out, flagVars, result, returnCodec, picture,
                 codecVars, threadVars, encode_cnt, deviceVars>>

-----------------------------------------------------------------------------
EncodeClient == SubmitEnd \/ AskExit \/ \E eos \in BOOLEAN : SubmitFrame(eos)

EncodeProcess ==
  \/ GetQueue \/ Preprocess \/ SkipPreprocess \/ SkipEncode
  \/ Configure \/ PassOn \/ Begin \/ Await \/ Read \/ Send \/ Sent \/ Done
  \/ Deliver \/ DeliverPart
  \/ PostExit \/ CloseDevice

EncodeThread == StartExe \/ Exe \/ PostEnd

EncodeNext == EncodeClient \/ EncodeProcess \/ EncodeThread

EncodeSpec == EncodeInit /\ [][EncodeNext]_encodeVars

Source == [own : BOOLEAN, at : Halves, n : 1 .. Stale]

EncodeTypeOK ==
  /\ mode \in {"picture", "address"} /\ framed \in BOOLEAN
  /\ pos \in 1 .. Frames + 2 /\ fed \in 0 .. Frames
  /\ queue \in Seq([valid : {TRUE}, len : 0 .. 1, n : 1 .. Stale, eos : BOOLEAN])
  /\ Len(queue) <= Ahead /\ tokens \in Nat /\ eosOut \in BOOLEAN
  /\ got \in Seq([c : Contents, time : -1 .. Stale])
  /\ cur \in [valid : BOOLEAN, len : 0 .. 1, n : 1 .. Stale, eos : BOOLEAN]
  /\ inp \in [len : 0 .. 1, time : 0 .. Stale, eos : BOOLEAN, n : 1 .. Stale]
  /\ out \in [len : 0 .. 1, half : Halves, time : -1 .. Stale, eos : BOOLEAN, split : BOOLEAN]
  /\ bUseFlagEOF \in BOOLEAN /\ bSaveFlagEOS \in BOOLEAN /\ getAllDelayBuffer \in BOOLEAN
  /\ reInputData \in BOOLEAN /\ remainOutputData \in BOOLEAN
  /\ bConfiguredMFC \in BOOLEAN /\ bFirstFrame \in BOOLEAN /\ bEncoderRun \in BOOLEAN
  /\ bExitEncodeThread \in BOOLEAN
  /\ pc \in {"input", "encode", "await", "read", "send", "sent", "done", "output",
             "stop", "join", "closed"}
  /\ result \in {"none", "yet", "error"} /\ returnCodec \in {"ok", "error"}
  /\ source \in Source /\ ctx \in [source : Source, tag : Tags]
  /\ indexInputBuffer \in Halves /\ picture \in [Halves -> Contents]
  /\ indexTimestamp \in Tags /\ timeStamp \in [Tags -> -1 .. Stale]
  /\ nFlags \in [Tags -> BOOLEAN]
  /\ epc \in {"wait", "exe", "post", "dead"} /\ hEncFrameStart \in Nat /\ hEncFrameEnd \in Nat
  /\ encode_cnt \in Halves /\ stream \in [Halves -> Contents]
  /\ job \in [source : Source, tag : Tags, half : Halves] /\ enc \in [c : Contents, tag : Tags]
  /\ encodeFaults \in 0 .. MaxEncodeFaults

(* While the device encodes, or is about to, the buffer process thread neither
   asks for its outcome nor sets its input, fills the other input buffer, and
   copies from the other half of the stream buffer.  An encode that fails is not
   waited for. *)
EncodesAlone ==
  encodeFaults = 0 /\ (epc = "exe" \/ hEncFrameStart > 0) /\ ~bExitEncodeThread
    => /\ pc \notin {"read", "send"}
       /\ epc = "exe" /\ pc = "input" /\ job.source.own => job.source.at # indexInputBuffer
       /\ out.len > 0 => encode_cnt # out.half

(* As long as no device call fails: a client that sends pictures is given the header
   and then what it sent, in order, none left out or given twice, each with its own
   time; and a client that sends whole buffers with OMX_BUFFERFLAG_ENDOFFRAME, pictures
   or addresses, has been given one piece of stream for each when it is told the end.
   The order is not claimed of addresses, the last of which is replaced by a dummy; nor
   is anything of the end without the flag, where it overtakes the last piece. *)
StreamWhole ==
  encodeFaults = 0
    => /\ mode = "picture" =>
            \A i \in 1 .. Len(got) : got[i] = [c |-> i - 1, time |-> i - 1]
       /\ framed /\ eosOut => Len(got) = fed + 1

=============================================================================
