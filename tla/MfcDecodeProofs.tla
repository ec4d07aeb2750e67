-------------------------- MODULE MfcDecodeProofs --------------------------
(***************************************************************************)
(* MfcDecode, for every stream, display delay, size of the table of time   *)
(* stamps and number of seeks: the hand-over between the buffer process    *)
(* thread and the decode thread, the types, and the order of the pictures. *)
(* As long as no call of the device has failed, the two threads never      *)
(* touch the device or a stream buffer at the same time, every picture     *)
(* comes in turn with its own time, and the end of the stream comes last.  *)
(***************************************************************************)
EXTENDS MfcDecode, TLAPS

\* The thread that asks the decode thread to end does not come back.
Ends == {"stop", "join", "closed"}

\* Frames handed over and not collected.
Busy == IF dpc \in {"exe", "post"} THEN 1 ELSE 0
Handed == hDecFrameStart + Busy + hDecFrameEnd

HandTypes ==
  /\ hDecFrameStart \in Nat /\ hDecFrameEnd \in Nat
  /\ errors \in Nat /\ index \in Bufs

Exiting ==
  /\ bExitDecodeThread => pc \in Ends
  /\ dpc = "dead" => bExitDecodeThread

\* One frame is with the decode thread or its outcome is to be collected exactly
\* when bDecoderRun says so; the index is then at the other stream buffer.
OneHanded ==
  /\ returnCodec = "ok"
  /\ Handed = IF bDecoderRun \/ pc = "sent" THEN 1 ELSE 0
  /\ pc \in {"read", "send", "sent"} => ~bDecoderRun
  /\ bFirstFrame => ~bDecoderRun
  /\ bDecoderRun => ctx.buf = Other(index)
  /\ pc = "sent" => ctx.buf = index
  /\ dpc = "exe" => job = ctx

HandOver ==
  /\ HandTypes
  /\ Exiting
  /\ errors = 0 /\ pc \notin Ends => OneHanded

\* The invariant holds at first, when no thread has a frame.
LEMMA HandOverInit == Init => HandOver
BY MfcDecodeAssumption DEF Init, HandOver, HandTypes, Exiting, OneHanded, Handed, Busy, Bufs,
   Ends

\* It implies the property.
LEMMA HandOverAlone == HandOver => DecodesAlone
BY DEF HandOver, HandTypes, Exiting, OneHanded, Handed, Busy, Bufs, Ends, DecodesAlone, Alone, Other

\* Every step preserves it.
LEMMA HandOverStep == HandOver /\ [Next]_vars => HandOver'
<1> SUFFICES ASSUME HandOver, [Next]_vars PROVE HandOver'
  OBVIOUS
<1> USE DEF HandOver, HandTypes, Exiting, OneHanded, Handed, Busy, Bufs, Ends, Other,
            clientVars, portVars, codecVars, deviceVars, threadVars
<1>1. CASE GetHeader
  BY <1>1 DEF GetHeader, TakesInput, Feed
<1>2. ASSUME NEW e \in BOOLEAN, GetFrame(e) PROVE HandOver'
  BY <1>2 DEF GetFrame, TakesInput, Feed
<1>3. CASE GetEnd
  BY <1>3 DEF GetEnd, TakesInput, Feed
<1>4. CASE AskFlush
  BY <1>4 DEF AskFlush
<1>5. CASE AskExit
  BY <1>5 DEF AskExit
<1>6. CASE Preprocess
  BY <1>6 DEF Preprocess
<1>7. CASE SkipPreprocess
  BY <1>7 DEF SkipPreprocess
<1>8. CASE DecodeNothing
  BY <1>8 DEF DecodeNothing, Conclude
<1>9. CASE Configure
  BY <1>9 DEF Configure, Conclude
<1>10. CASE Begin
  BY <1>10 DEF Begin, Collect
<1>11. CASE Await
  BY <1>11 DEF Await
<1>12. CASE Read
  <2>1. /\ pc = "read" /\ pc' = "send" /\ index' \in Bufs
        /\ UNCHANGED <<bFirstFrame, bDecoderRun, returnCodec, ctx, dpc, hDecFrameStart,
                       hDecFrameEnd, bExitDecodeThread, job, errors>>
    BY <1>12 DEF Read, HandOver, HandTypes, Bufs, Other, threadVars, deviceVars
  <2>2. QED
    BY <2>1 DEF HandOver, HandTypes, Exiting, OneHanded, Handed, Busy, Bufs, Ends, Other
<1>13. CASE Send
  BY <1>13 DEF Send
<1>14. CASE Sent
  BY <1>14 DEF Sent, Conclude
<1>15. CASE SendNothing
  BY <1>15 DEF SendNothing, Conclude
<1>16. CASE Done
  BY <1>16 DEF Done
<1>17. CASE Postprocess
  BY <1>17 DEF Postprocess
<1>18. CASE StartExe
  BY <1>18 DEF StartExe
<1>19. CASE Exe
  <2>1. /\ dpc = "exe" /\ dpc' = "post"
        /\ UNCHANGED <<pc, bFirstFrame, bDecoderRun, index, ctx, hDecFrameStart, hDecFrameEnd,
                       bExitDecodeThread>>
    BY <1>19 DEF Exe, codecVars
  <2>2. errors' \in Nat /\ (errors' = 0 => errors = 0 /\ returnCodec' = "ok")
    <3>1. CASE Decoded
      <4>1. errors' = errors /\ returnCodec' = "ok"
        BY <3>1 DEF Decoded
      <4>2. QED
        BY <4>1 DEF HandOver, HandTypes
    <3>2. CASE ShownOnly
      BY <3>2 DEF ShownOnly, HandOver, HandTypes
    <3>3. CASE ExeFails
      BY <3>3 DEF ExeFails, HandOver, HandTypes
    <3>4. QED
      BY <1>19, <3>1, <3>2, <3>3 DEF Exe
  <2>3. QED
    BY <2>1, <2>2 DEF HandOver, HandTypes, Exiting, OneHanded, Handed, Busy, Bufs, Ends, Other
<1>20. CASE PostEnd
  BY <1>20 DEF PostEnd
<1>21. CASE FlushInput
  BY <1>21 DEF FlushInput
<1>22. CASE ResetInput
  BY <1>22 DEF ResetInput
<1>23. ASSUME NEW f \in 1 .. Frames, FlushOutput(f) PROVE HandOver'
  BY <1>23 DEF FlushOutput
<1>24. CASE PostExit
  BY <1>24 DEF PostExit, WakeThread
<1>25. CASE Close
  BY <1>25 DEF Close
<1>26. CASE UNCHANGED vars
  BY <1>26 DEF vars
<1>27. QED
  BY <1>1, <1>2, <1>3, <1>4, <1>5, <1>6, <1>7, <1>8, <1>9, <1>10, <1>11, <1>12, <1>13,
     <1>14, <1>15, <1>16, <1>17, <1>18, <1>19, <1>20, <1>21, <1>22, <1>23, <1>24, <1>25, <1>26
  DEF Next, ClientNext, BufferProcess, DecodeThread, Flushing, Terminating

(* While the device is at a frame, or about to be, the buffer process thread
   neither collects its outcome nor sets its input, and fills the other stream
   buffer, unless a call of the device has failed. *)
THEOREM DecodesAloneAlways == Spec => []DecodesAlone
<1>1. Spec => []HandOver
  BY HandOverInit, HandOverStep, PTL DEF Spec
<1>2. QED
  BY <1>1, HandOverAlone, PTL

-----------------------------------------------------------------------------
\* The type invariant by the owner of the state.  The client's part adds what keeps
\* its counters in range: it has fed fewer buffers than it has passed, and it seeks
\* only while it may.
ClientOK ==
  /\ pos \in 0 .. Frames + 2 /\ gen \in 0 .. MaxSeeks /\ from \in 1 .. Frames
  /\ fed \in 0 .. Frames /\ flush \in {"none", "asked", "port", "reset"}
  /\ shown \in Seq([c : Contents, time : Times]) /\ eosOut \in BOOLEAN
  /\ fed < pos \/ (pos = 0 /\ fed = 0)
  /\ flush # "none" => gen < MaxSeeks

\* The input port.
InputOK ==
  /\ cur \in [valid : BOOLEAN, left : BOOLEAN, c : Contents, time : Times, eos : BOOLEAN]
  /\ inp \in [len : 0 .. 1, time : Times, eos : BOOLEAN, eof : BOOLEAN, cfg : BOOLEAN]
  /\ prevLen \in 0 .. 1
  /\ bUseFlagEOF \in BOOLEAN /\ bSaveFlagEOS \in BOOLEAN /\ reInputData \in BOOLEAN
  /\ checkTimeStamp \in [set : BOOLEAN, check : BOOLEAN, time : Times, eos : BOOLEAN]

\* The codec's own state, the stream buffers and the table of time stamps.
CodecOK ==
  /\ yet \in BOOLEAN /\ len \in 0 .. 1
  /\ out \in [time : Times, eos : BOOLEAN, valid : BOOLEAN, c : Contents]
  /\ bConfiguredMFC \in BOOLEAN /\ bFirstFrame \in BOOLEAN /\ getAllDelayBuffer \in BOOLEAN
  /\ bDecoderRun \in BOOLEAN
  /\ index \in Bufs /\ buf \in [Bufs -> Contents] /\ dataSize \in [Bufs -> 0 .. 1]
  /\ tag \in Tags /\ timeStamp \in [Tags -> Times] /\ nFlags \in [Tags -> BOOLEAN]

\* Where the two threads are, and the semaphores they meet at.
ThreadsOK ==
  /\ pc \in {"input", "decode", "await", "read", "send", "sent", "done", "output",
             "stop", "join", "closed"}
  /\ dpc \in {"wait", "exe", "post", "dead"}
  /\ hDecFrameStart \in Nat /\ hDecFrameEnd \in Nat /\ bExitDecodeThread \in BOOLEAN

\* The device and its bounds on faults.
DeviceOK ==
  /\ returnCodec \in {"ok", "error"}
  /\ ctx \in [buf : Bufs, tag : Tags, size : 0 .. 1]
  /\ job \in [buf : Bufs, tag : Tags, size : 0 .. 1]
  /\ pend \in Seq([c : Contents, tag : Tags])
  /\ disp \in [status : {"decoding", "display", "display_only"}, c : Contents, tag : Tags]
  /\ errors \in 0 .. MaxFaults /\ repeats \in 0 .. MaxFaults

Typed == ClientOK /\ InputOK /\ CodecOK /\ ThreadsOK /\ DeviceOK

\* The parts make up the type invariant of MfcDecode.
LEMMA TypedTypeOK == Typed => TypeOK
BY DEF Typed, ClientOK, InputOK, CodecOK, ThreadsOK, DeviceOK, TypeOK

\* The values the actions assign are in their types.
LEMMA Values ==
  /\ Blank \in Contents
  /\ \A g \in 0 .. MaxSeeks, n \in -1 .. Frames : [gen |-> g, n |-> n] \in Contents
  /\ 0 \in Times /\ NoTime \in Times /\ EosTime \in Times /\ 1 .. Frames \subseteq Times
  /\ 0 \in Tags
  /\ 0 \in Bufs /\ \A b \in Bufs : 1 - b \in Bufs
BY MfcDecodeAssumption DEF Blank, Contents, Times, NoTime, EosTime, Tags, Bufs

\* The tag wraps round within the table of time stamps.
LEMMA NextTagIsTag == tag \in Tags => NextTag \in Tags
BY MfcDecodeAssumption DEF Tags, NextTag

\* A sequence stays one of its elements' type when one is added at the end ...
LEMMA Appended ==
  ASSUME NEW S, NEW s \in Seq(S), NEW x \in S
  PROVE Append(s, x) \in Seq(S) /\ Append(s, x) # <<>>
<1>1. Append(s, x) \in Seq(S) /\ Len(Append(s, x)) = Len(s) + 1 /\ Len(s) \in Nat
  OBVIOUS
<1>2. Len(Append(s, x)) # 0
  BY <1>1
<1>3. QED
  BY <1>1, <1>2

\* ... and when the first is taken off, and that one is of the type.
LEMMA Removed ==
  ASSUME NEW S, NEW s \in Seq(S), s # <<>>
  PROVE Head(s) \in S /\ Tail(s) \in Seq(S)
OBVIOUS

\* The parts hold at first.
LEMMA TypedInit == Init => Typed
<1> SUFFICES ASSUME Init PROVE Typed
  OBVIOUS
<1>1. ClientOK
  BY MfcDecodeAssumption, Values DEF Init, NoInput, NoData, NoOutput, NoStart, ClientOK
<1>2. InputOK
  BY MfcDecodeAssumption, Values DEF Init, NoInput, NoData, NoOutput, NoStart, InputOK
<1>3. CodecOK
  BY MfcDecodeAssumption, Values DEF Init, NoInput, NoData, NoOutput, NoStart, CodecOK
<1>4. ThreadsOK
  BY MfcDecodeAssumption, Values DEF Init, NoInput, NoData, NoOutput, NoStart, ThreadsOK
<1>5. DeviceOK
  BY MfcDecodeAssumption, Values DEF Init, NoInput, NoData, NoOutput, NoStart, DeviceOK
<1>6. QED
  BY <1>1, <1>2, <1>3, <1>4, <1>5 DEF Typed

\* Every step preserves them, part by part.
LEMMA TypedStep == Typed /\ [Next]_vars => Typed'
<1> SUFFICES ASSUME Typed, [Next]_vars PROVE Typed'
  OBVIOUS
<1> USE DEF Typed, clientVars, portVars, codecVars, deviceVars, threadVars
<1>1. CASE GetHeader
  <2>1. ClientOK'
    BY <1>1, MfcDecodeAssumption, Values DEF GetHeader, TakesInput, Feed, Header, ClientOK
  <2>2. InputOK'
    <3>1. [gen |-> gen, n |-> Header] \in Contents
      BY MfcDecodeAssumption, Values DEF ClientOK, Header
    <3>2. QED
      BY <1>1, Values, <3>1 DEF GetHeader, TakesInput, Feed, InputOK
  <2>3. CodecOK'
    BY <1>1, Values DEF GetHeader, TakesInput, Feed, CodecOK
  <2>4. ThreadsOK'
    BY <1>1, Values DEF GetHeader, TakesInput, Feed, ThreadsOK
  <2>5. DeviceOK'
    BY <1>1, Values DEF GetHeader, TakesInput, Feed, DeviceOK
  <2>6. QED
    BY <2>1, <2>2, <2>3, <2>4, <2>5
<1>2. ASSUME NEW e \in BOOLEAN, GetFrame(e) PROVE Typed'
  <2>1. ClientOK'
    <3>1. pos \in 1 .. Frames /\ fed < pos /\ fed \in 0 .. Frames
      BY <1>2 DEF GetFrame, ClientOK
    <3>2. /\ pos' \in 0 .. Frames + 2 /\ fed' \in 0 .. Frames
          /\ fed' < pos'
      BY <1>2, <3>1, MfcDecodeAssumption DEF GetFrame
    <3>3. QED
      BY <1>2, <3>2 DEF GetFrame, Feed, ClientOK
  <2>2. InputOK'
    <3>1. pos \in 1 .. Frames /\ cur' = [valid |-> TRUE, left |-> [gen |-> gen, n |-> pos] # Blank,
                                      c |-> [gen |-> gen, n |-> pos], time |-> pos, eos |-> e]
      BY <1>2, Values DEF GetFrame, Feed
    <3>2. [gen |-> gen, n |-> pos] \in Contents
      BY <3>1, MfcDecodeAssumption, Values DEF ClientOK
    <3>3. cur' \in [valid : BOOLEAN, left : BOOLEAN, c : Contents, time : Times, eos : BOOLEAN]
      BY <3>1, <3>2, Values
    <3>4. QED
      BY <1>2, Values, <3>3 DEF GetFrame, Feed, InputOK
  <2>3. CodecOK'
    BY <1>2, Values DEF GetFrame, TakesInput, Feed, CodecOK
  <2>4. ThreadsOK'
    BY <1>2, Values DEF GetFrame, TakesInput, Feed, ThreadsOK
  <2>5. DeviceOK'
    BY <1>2, Values DEF GetFrame, TakesInput, Feed, DeviceOK
  <2>6. QED
    BY <2>1, <2>2, <2>3, <2>4, <2>5
<1>3. CASE GetEnd
  <2>1. ClientOK'
    BY <1>3, Values DEF GetEnd, TakesInput, Feed, ClientOK
  <2>2. InputOK'
    BY <1>3, Values DEF GetEnd, TakesInput, Feed, InputOK
  <2>3. CodecOK'
    BY <1>3, Values DEF GetEnd, TakesInput, Feed, CodecOK
  <2>4. ThreadsOK'
    BY <1>3, Values DEF GetEnd, TakesInput, Feed, ThreadsOK
  <2>5. DeviceOK'
    BY <1>3, Values DEF GetEnd, TakesInput, Feed, DeviceOK
  <2>6. QED
    BY <2>1, <2>2, <2>3, <2>4, <2>5
<1>4. CASE AskFlush
  <2>1. ClientOK'
    BY <1>4, Values DEF AskFlush, ClientOK
  <2>2. InputOK'
    BY <1>4, Values DEF AskFlush, InputOK
  <2>3. CodecOK'
    BY <1>4, Values DEF AskFlush, CodecOK
  <2>4. ThreadsOK'
    BY <1>4, Values DEF AskFlush, ThreadsOK
  <2>5. DeviceOK'
    BY <1>4, Values DEF AskFlush, DeviceOK
  <2>6. QED
    BY <2>1, <2>2, <2>3, <2>4, <2>5
<1>5. CASE AskExit
  <2>1. ClientOK'
    BY <1>5, Values DEF AskExit, ClientOK
  <2>2. InputOK'
    BY <1>5, Values DEF AskExit, InputOK
  <2>3. CodecOK'
    BY <1>5, Values DEF AskExit, CodecOK
  <2>4. ThreadsOK'
    BY <1>5, Values DEF AskExit, ThreadsOK
  <2>5. DeviceOK'
    BY <1>5, Values DEF AskExit, DeviceOK
  <2>6. QED
    BY <2>1, <2>2, <2>3, <2>4, <2>5
<1>6. CASE Preprocess
  <2>1. ClientOK'
    BY <1>6, Values DEF Preprocess, NoInput, EndOfInput, ClientOK
  <2>2. InputOK'
    <3>1. cur' \in [valid : BOOLEAN, left : BOOLEAN, c : Contents, time : Times, eos : BOOLEAN]
      BY <1>6, Values DEF Preprocess, NoInput, InputOK
    <3>2. /\ cur.eos \in BOOLEAN /\ cur.left \in BOOLEAN /\ cur.time \in Times
          /\ inp.len \in 0 .. 1 /\ inp.time \in Times /\ inp.eos \in BOOLEAN
          /\ inp.cfg \in BOOLEAN /\ prevLen \in 0 .. 1
          /\ bUseFlagEOF \in BOOLEAN /\ bSaveFlagEOS \in BOOLEAN
      BY DEF InputOK
    <3> DEFINE isCfg == cur.left /\ cur.c.n = Header
               fresh == inp.len = 0
               useEOF == bUseFlagEOF /\ ~isCfg
               bound == ~useEOF /\ ~fresh /\ cur.left /\ ~isCfg
               size == IF cur.left /\ ~bound THEN 1 ELSE inp.len
               saved == bSaveFlagEOS \/ cur.eos
               cfg == IF fresh \/ bound \/ ~saved THEN isCfg ELSE inp.cfg
               last == EndOfInput(useEOF, size, cfg, saved)
               end == IF useEOF \/ (~bound /\ saved) THEN last
                      ELSE [eos |-> FALSE, eof |-> FALSE, save |-> saved]
               eof == useEOF \/ bound \/ end.eof
               time == IF fresh THEN cur.time ELSE inp.time
               l == IF end.eos /\ size = 0 /\ eof THEN prevLen ELSE size
    <3>3. /\ inp' = [len |-> l, time |-> time, eos |-> end.eos, eof |-> TRUE, cfg |-> cfg]
          /\ bUseFlagEOF' = useEOF /\ bSaveFlagEOS' = end.save
          /\ checkTimeStamp' =
               IF eof /\ checkTimeStamp.set
               THEN [set |-> FALSE, check |-> TRUE, time |-> time, eos |-> end.eos]
               ELSE checkTimeStamp
      BY <1>6, Zenon DEF Preprocess
    <3>4. size \in 0 .. 1 /\ time \in Times /\ useEOF \in BOOLEAN /\ cfg \in BOOLEAN
      <4>1. size \in 0 .. 1 /\ time \in Times
        BY <3>2
      <4>2. useEOF \in BOOLEAN /\ isCfg \in BOOLEAN
        OBVIOUS
      <4>3. cfg \in BOOLEAN
        BY <3>2, <4>2, Zenon
      <4>4. QED
        BY <4>1, <4>2, <4>3
    <3>5. end.eos \in BOOLEAN /\ end.save \in BOOLEAN
      BY <3>2 DEF EndOfInput
    <3>6. l \in 0 .. 1
      BY <3>2, <3>4
    <3> HIDE DEF isCfg, fresh, useEOF, bound, size, saved, cfg, last, end, eof, time, l
    <3>7. inp' \in [len : 0 .. 1, time : Times, eos : BOOLEAN, eof : BOOLEAN, cfg : BOOLEAN]
      BY <3>3, <3>4, <3>5, <3>6
    <3>8. checkTimeStamp' \in [set : BOOLEAN, check : BOOLEAN, time : Times, eos : BOOLEAN]
      BY <3>3, <3>4, <3>5 DEF InputOK
    <3>9. bUseFlagEOF' \in BOOLEAN /\ bSaveFlagEOS' \in BOOLEAN
      BY <3>3, <3>4, <3>5
    <3>10. prevLen' \in 0 .. 1 /\ reInputData' \in BOOLEAN
      BY <1>6 DEF Preprocess, InputOK
    <3>11. QED
      BY <3>1, <3>7, <3>8, <3>9, <3>10 DEF InputOK
  <2>3. CodecOK'
    <3>1. cur.c \in Contents
      BY Values DEF InputOK
    <3>2. buf' \in [Bufs -> Contents]
      BY <1>6, Values, <3>1 DEF Preprocess, CodecOK
    <3>3. QED
      BY <1>6, Values, <3>2 DEF Preprocess, CodecOK
  <2>4. ThreadsOK'
    BY <1>6, Values DEF Preprocess, NoInput, EndOfInput, ThreadsOK
  <2>5. DeviceOK'
    BY <1>6, Values DEF Preprocess, NoInput, EndOfInput, DeviceOK
  <2>6. QED
    BY <2>1, <2>2, <2>3, <2>4, <2>5
<1>7. CASE SkipPreprocess
  <2>1. ClientOK'
    BY <1>7, Values DEF SkipPreprocess, ClientOK
  <2>2. InputOK'
    BY <1>7, Values DEF SkipPreprocess, InputOK
  <2>3. CodecOK'
    BY <1>7, Values DEF SkipPreprocess, CodecOK
  <2>4. ThreadsOK'
    BY <1>7, Values DEF SkipPreprocess, ThreadsOK
  <2>5. DeviceOK'
    BY <1>7, Values DEF SkipPreprocess, DeviceOK
  <2>6. QED
    BY <2>1, <2>2, <2>3, <2>4, <2>5
<1>8. CASE DecodeNothing
  <2>1. ClientOK'
    BY <1>8, Values DEF DecodeNothing, Conclude, NoOutput, ClientOK
  <2>2. InputOK'
    BY <1>8, Values DEF DecodeNothing, Conclude, NoOutput, InputOK
  <2>3. CodecOK'
    <3>1. inp.time \in Times /\ inp.eos \in BOOLEAN
      BY Values DEF InputOK
    <3>2. out' \in [time : Times, eos : BOOLEAN, valid : BOOLEAN, c : Contents] /\ yet' = FALSE
      BY <1>8, Values, <3>1 DEF DecodeNothing, NoOutput, Conclude
    <3>3. QED
      BY <1>8, Values, <3>2 DEF DecodeNothing, CodecOK
  <2>4. ThreadsOK'
    BY <1>8, Values DEF DecodeNothing, Conclude, NoOutput, ThreadsOK
  <2>5. DeviceOK'
    BY <1>8, Values DEF DecodeNothing, Conclude, NoOutput, DeviceOK
  <2>6. QED
    BY <2>1, <2>2, <2>3, <2>4, <2>5
<1>9. CASE Configure
  <2>1. ClientOK'
    BY <1>9, Values DEF Configure, Conclude, NoOutput, ClientOK
  <2>2. InputOK'
    BY <1>9, Values DEF Configure, Conclude, NoOutput, InputOK
  <2>3. CodecOK'
    <3>1. inp.time \in Times /\ inp.eos \in BOOLEAN
      BY Values DEF InputOK
    <3>2. /\ out' \in [time : Times, eos : BOOLEAN, valid : BOOLEAN, c : Contents]
          /\ yet' = FALSE /\ bConfiguredMFC' \in BOOLEAN
      BY <1>9, Values, <3>1 DEF Configure, NoOutput, Conclude, CodecOK
    <3>3. QED
      BY <1>9, Values, <3>2 DEF Configure, CodecOK
  <2>4. ThreadsOK'
    BY <1>9, Values DEF Configure, Conclude, NoOutput, ThreadsOK
  <2>5. DeviceOK'
    <3>1. errors' \in 0 .. MaxFaults /\ returnCodec' \in {"ok", "error"}
      <4>1. /\ errors \in 0 .. MaxFaults /\ repeats \in 0 .. MaxFaults
            /\ returnCodec \in {"ok", "error"}
        BY DEF DeviceOK
      <4>2. \/ errors' = errors /\ returnCodec' = "ok"
            \/ errors + repeats < MaxFaults /\ errors' = errors + 1 /\ returnCodec' = "error"
        BY <1>9 DEF Configure
      <4>3. QED
        BY <4>1, <4>2, MfcDecodeAssumption
    <3>2. QED
      BY <1>9, Values, <3>1 DEF Configure, DeviceOK
  <2>6. QED
    BY <2>1, <2>2, <2>3, <2>4, <2>5
<1>10. CASE Begin
  <2>1. ClientOK'
    BY <1>10, Values DEF Begin, Collect, NoOutput, ClientOK
  <2>2. InputOK'
    BY <1>10, Values DEF Begin, Collect, NoOutput, InputOK
  <2>3. CodecOK'
    <3>1. inp.time \in Times /\ inp.eos \in BOOLEAN /\ inp.len \in 0 .. 1
      BY Values DEF InputOK
    <3>2. timeStamp' \in [Tags -> Times] /\ nFlags' \in [Tags -> BOOLEAN]
      BY <1>10, Values, <3>1 DEF Begin, CodecOK
    <3>3. out' \in [time : Times, eos : BOOLEAN, valid : BOOLEAN, c : Contents]
      BY <1>10, Values, <3>1 DEF Begin, NoOutput, CodecOK, InputOK
    <3>4. getAllDelayBuffer' \in BOOLEAN /\ len' \in 0 .. 1 /\ yet' \in BOOLEAN
      BY <1>10, Values, <3>1 DEF Begin, CodecOK
    <3>5. QED
      BY <1>10, Values, <3>2, <3>3, <3>4 DEF Begin, CodecOK
  <2>4. ThreadsOK'
    BY <1>10, Values DEF Begin, Collect, NoOutput, ThreadsOK
  <2>5. DeviceOK'
    BY <1>10, Values DEF Begin, Collect, NoOutput, DeviceOK
  <2>6. QED
    BY <2>1, <2>2, <2>3, <2>4, <2>5
<1>11. CASE Await
  <2>1. ClientOK'
    BY <1>11, Values DEF Await, ClientOK
  <2>2. InputOK'
    BY <1>11, Values DEF Await, InputOK
  <2>3. CodecOK'
    BY <1>11, Values DEF Await, CodecOK
  <2>4. ThreadsOK'
    BY <1>11, Values DEF Await, ThreadsOK
  <2>5. DeviceOK'
    BY <1>11, Values DEF Await, DeviceOK
  <2>6. QED
    BY <2>1, <2>2, <2>3, <2>4, <2>5
<1>12. CASE Read
  <2>1. ClientOK'
    BY <1>12, Values DEF Read, Other, OutFlag, ClientOK
  <2>2. InputOK'
    BY <1>12, Values DEF Read, Other, OutFlag, InputOK
  <2>3. CodecOK'
    <3>1. disp.tag \in Tags /\ disp.c \in Contents
      BY Values DEF DeviceOK
    <3>2. out' \in [time : Times, eos : BOOLEAN, valid : BOOLEAN, c : Contents]
      BY <1>12, Values, <3>1 DEF Read, OutFlag, CodecOK
    <3>3. Ending \in BOOLEAN /\ Again \in BOOLEAN /\ OutFlag \in BOOLEAN
      BY <3>1 DEF Ending, Again, OutFlag, CodecOK, InputOK
    <3>4. index' \in Bufs /\ dataSize' \in [Bufs -> 0 .. 1] /\ len' \in 0 .. 1
      BY <1>12, Values DEF Read, Other, CodecOK
    <3>5. yet' \in BOOLEAN /\ getAllDelayBuffer' \in BOOLEAN
      BY <1>12, Values, <3>3 DEF Read, CodecOK
    <3>6. QED
      BY <1>12, Values, <3>2, <3>4, <3>5 DEF Read, CodecOK
  <2>4. ThreadsOK'
    BY <1>12, Values DEF Read, Other, OutFlag, ThreadsOK
  <2>5. DeviceOK'
    BY <1>12, Values DEF Read, Other, OutFlag, DeviceOK
  <2>6. QED
    BY <2>1, <2>2, <2>3, <2>4, <2>5
<1>13. CASE Send
  <2>1. ClientOK'
    BY <1>13, Values DEF Send, ClientOK
  <2>2. InputOK'
    BY <1>13, Values DEF Send, InputOK
  <2>3. CodecOK'
    <3>1. tag' \in Tags
      BY <1>13, NextTagIsTag DEF Send, CodecOK
    <3>2. QED
      BY <1>13, Values, <3>1 DEF Send, CodecOK
  <2>4. ThreadsOK'
    BY <1>13, Values DEF Send, ThreadsOK
  <2>5. DeviceOK'
    <3>1. ctx' \in [buf : Bufs, tag : Tags, size : 0 .. 1]
      BY <1>13, Values DEF Send, CodecOK
    <3>2. QED
      BY <1>13, Values, <3>1 DEF Send, DeviceOK, deviceVars
  <2>6. QED
    BY <2>1, <2>2, <2>3, <2>4, <2>5
<1>14. CASE Sent
  <2>1. ClientOK'
    BY <1>14, Values DEF Sent, Conclude, Other, ClientOK
  <2>2. InputOK'
    BY <1>14, Values DEF Sent, Conclude, Other, InputOK
  <2>3. CodecOK'
    BY <1>14, Values DEF Sent, Conclude, Other, CodecOK
  <2>4. ThreadsOK'
    BY <1>14, Values DEF Sent, Conclude, Other, ThreadsOK
  <2>5. DeviceOK'
    BY <1>14, Values DEF Sent, Conclude, Other, DeviceOK
  <2>6. QED
    BY <2>1, <2>2, <2>3, <2>4, <2>5
<1>15. CASE SendNothing
  <2>1. ClientOK'
    BY <1>15, Values DEF SendNothing, Conclude, ClientOK
  <2>2. InputOK'
    BY <1>15, Values DEF SendNothing, Conclude, InputOK
  <2>3. CodecOK'
    BY <1>15, Values DEF SendNothing, Conclude, CodecOK
  <2>4. ThreadsOK'
    BY <1>15, Values DEF SendNothing, Conclude, ThreadsOK
  <2>5. DeviceOK'
    BY <1>15, Values DEF SendNothing, Conclude, DeviceOK
  <2>6. QED
    BY <2>1, <2>2, <2>3, <2>4, <2>5
<1>16. CASE Done
  <2>1. ClientOK'
    BY <1>16, Values DEF Done, ClientOK
  <2>2. InputOK'
    BY <1>16, Values DEF Done, InputOK, CodecOK, codecVars
  <2>3. CodecOK'
    BY <1>16, Values DEF Done, CodecOK
  <2>4. ThreadsOK'
    BY <1>16, Values DEF Done, ThreadsOK
  <2>5. DeviceOK'
    BY <1>16, Values DEF Done, DeviceOK
  <2>6. QED
    BY <2>1, <2>2, <2>3, <2>4, <2>5
<1>17. CASE Postprocess
  <2>1. ClientOK'
    <3>1. out.c \in Contents /\ out.time \in Times /\ out.eos \in BOOLEAN
      BY Values DEF CodecOK
    <3>2. [c |-> out.c, time |-> out.time] \in [c : Contents, time : Times]
      BY <3>1
    <3>3. shown' \in Seq([c : Contents, time : Times])
      BY <1>17, Values, <3>2, Appended DEF Postprocess, ClientOK
    <3>4. eosOut' \in BOOLEAN
      BY <1>17, Values, <3>1 DEF Postprocess, ClientOK
    <3>5. QED
      BY <1>17, Values, <3>3, <3>4 DEF Postprocess, ClientOK
  <2>2. InputOK'
    BY <1>17, Values DEF Postprocess, NoOutput, NoStart, InputOK
  <2>3. CodecOK'
    BY <1>17, Values DEF Postprocess, NoOutput, NoStart, CodecOK
  <2>4. ThreadsOK'
    BY <1>17, Values DEF Postprocess, NoOutput, NoStart, ThreadsOK
  <2>5. DeviceOK'
    BY <1>17, Values DEF Postprocess, NoOutput, NoStart, DeviceOK
  <2>6. QED
    BY <2>1, <2>2, <2>3, <2>4, <2>5
<1>18. CASE StartExe
  <2>1. ClientOK'
    BY <1>18, Values DEF StartExe, ClientOK
  <2>2. InputOK'
    BY <1>18, Values DEF StartExe, InputOK
  <2>3. CodecOK'
    BY <1>18, Values DEF StartExe, CodecOK
  <2>4. ThreadsOK'
    BY <1>18, Values DEF StartExe, ThreadsOK
  <2>5. DeviceOK'
    BY <1>18, Values DEF StartExe, DeviceOK
  <2>6. QED
    BY <2>1, <2>2, <2>3, <2>4, <2>5
<1>19. CASE Exe
  <2>1. ClientOK'
    BY <1>19, Values DEF Exe, Decoded, ShownOnly, ExeFails, ClientOK
  <2>2. InputOK'
    BY <1>19, Values DEF Exe, Decoded, ShownOnly, ExeFails, InputOK
  <2>3. CodecOK'
    BY <1>19, Values DEF Exe, Decoded, ShownOnly, ExeFails, CodecOK
  <2>4. ThreadsOK'
    BY <1>19, Values DEF Exe, Decoded, ShownOnly, ExeFails, ThreadsOK
  <2>5. DeviceOK'
    <3>1. CASE Decoded
      <4> DEFINE frame == IF job.size > 0 THEN buf[job.buf] ELSE Blank
                 all == Append(pend, [c |-> frame, tag |-> job.tag])
      <4>1. [c |-> frame, tag |-> job.tag] \in [c : Contents, tag : Tags]
        BY Values DEF DeviceOK, CodecOK
      <4>2. all \in Seq([c : Contents, tag : Tags]) /\ all # <<>>
        BY <4>1, Appended DEF DeviceOK
      <4>3. /\ Head(all) \in [c : Contents, tag : Tags]
            /\ Tail(all) \in Seq([c : Contents, tag : Tags])
        BY <4>2, Removed
      <4>4. \/ /\ disp' = [status |-> "display", c |-> Head(all).c, tag |-> Head(all).tag]
               /\ pend' = Tail(all)
            \/ disp' = [disp EXCEPT !.status = "decoding"] /\ pend' = all
        BY <3>1, Zenon DEF Decoded
      <4>5. returnCodec' = "ok" /\ errors' = errors /\ repeats' = repeats
        BY <3>1 DEF Decoded
      <4> HIDE DEF frame, all
      <4>6. disp' \in [status : {"decoding", "display", "display_only"}, c : Contents, tag : Tags]
        <5>1. Head(all).c \in Contents /\ Head(all).tag \in Tags
          BY <4>3
        <5>2. CASE disp' = [status |-> "display", c |-> Head(all).c, tag |-> Head(all).tag]
          BY <5>1, <5>2
        <5>3. CASE disp' = [disp EXCEPT !.status = "decoding"]
          BY <5>3 DEF DeviceOK
        <5>4. QED
          BY <4>4, <5>2, <5>3
      <4>7. pend' \in Seq([c : Contents, tag : Tags])
        BY <4>2, <4>3, <4>4
      <4>8. QED
        BY <1>19, Values, <4>5, <4>6, <4>7 DEF Exe, DeviceOK
    <3>2. CASE ShownOnly
      <4>1. /\ Head(pend) \in [c : Contents, tag : Tags]
            /\ Tail(pend) \in Seq([c : Contents, tag : Tags])
        BY <3>2, Removed DEF ShownOnly, DeviceOK
      <4>2. disp' \in [status : {"decoding", "display", "display_only"}, c : Contents, tag : Tags]
        BY <3>2, <4>1 DEF ShownOnly
      <4>3. repeats' \in 0 .. MaxFaults
        <5>1. errors \in 0 .. MaxFaults /\ repeats \in 0 .. MaxFaults
          BY DEF DeviceOK
        <5>2. errors + repeats < MaxFaults /\ repeats' = repeats + 1
          BY <3>2 DEF ShownOnly
        <5>3. QED
          BY <5>1, <5>2, MfcDecodeAssumption
      <4>4. QED
        BY <1>19, <3>2, <4>1, <4>2, <4>3 DEF Exe, ShownOnly, DeviceOK
    <3>3. CASE ExeFails
      <4>1. errors \in 0 .. MaxFaults /\ repeats \in 0 .. MaxFaults
        BY DEF DeviceOK
      <4>2. errors + repeats < MaxFaults /\ errors' = errors + 1
        BY <3>3 DEF ExeFails
      <4>3. errors' \in 0 .. MaxFaults
        BY <4>1, <4>2, MfcDecodeAssumption
      <4>4. QED
        BY <1>19, <3>3, <4>3 DEF Exe, ExeFails, DeviceOK
    <3>4. QED
      BY <1>19, Values, <3>1, <3>2, <3>3 DEF Exe
  <2>6. QED
    BY <2>1, <2>2, <2>3, <2>4, <2>5
<1>20. CASE PostEnd
  <2>1. ClientOK'
    BY <1>20, Values DEF PostEnd, ClientOK
  <2>2. InputOK'
    BY <1>20, Values DEF PostEnd, InputOK
  <2>3. CodecOK'
    BY <1>20, Values DEF PostEnd, CodecOK
  <2>4. ThreadsOK'
    BY <1>20, Values DEF PostEnd, ThreadsOK
  <2>5. DeviceOK'
    BY <1>20, Values DEF PostEnd, DeviceOK
  <2>6. QED
    BY <2>1, <2>2, <2>3, <2>4, <2>5
<1>21. CASE FlushInput
  <2>1. ClientOK'
    BY <1>21, Values DEF FlushInput, NoInput, NoData, ClientOK
  <2>2. InputOK'
    BY <1>21, Values DEF FlushInput, NoInput, NoData, InputOK
  <2>3. CodecOK'
    BY <1>21, Values DEF FlushInput, NoInput, NoData, CodecOK
  <2>4. ThreadsOK'
    BY <1>21, Values DEF FlushInput, NoInput, NoData, ThreadsOK
  <2>5. DeviceOK'
    BY <1>21, Values DEF FlushInput, NoInput, NoData, DeviceOK
  <2>6. QED
    BY <2>1, <2>2, <2>3, <2>4, <2>5
<1>22. CASE ResetInput
  <2>1. ClientOK'
    BY <1>22, Values DEF ResetInput, ForgottenTimes, ClientOK
  <2>2. InputOK'
    BY <1>22, Values DEF ResetInput, ForgottenTimes, InputOK
  <2>3. CodecOK'
    BY <1>22, Values DEF ResetInput, ForgottenTimes, CodecOK
  <2>4. ThreadsOK'
    BY <1>22, Values DEF ResetInput, ForgottenTimes, ThreadsOK
  <2>5. DeviceOK'
    BY <1>22, Values DEF ResetInput, ForgottenTimes, DeviceOK
  <2>6. QED
    BY <2>1, <2>2, <2>3, <2>4, <2>5
<1>23. ASSUME NEW f \in 1 .. Frames, FlushOutput(f) PROVE Typed'
  <2>1. ClientOK'
    <3>1. /\ flush' = "none" /\ gen' = gen + 1 /\ from' = f /\ pos' = f /\ fed' = 0
          /\ shown' = <<>> /\ eosOut' = FALSE /\ gen < MaxSeeks
      BY <1>23 DEF FlushOutput, ClientOK
    <3>2. gen + 1 \in 0 .. MaxSeeks /\ f \in 0 .. Frames + 2 /\ 0 \in 0 .. Frames /\ 0 < f
      BY <3>1, MfcDecodeAssumption DEF ClientOK
    <3>3. <<>> \in Seq([c : Contents, time : Times])
      OBVIOUS
    <3>4. QED
      BY <3>1, <3>2, <3>3 DEF ClientOK
  <2>2. InputOK'
    BY <1>23, Values DEF FlushOutput, NoOutput, InputOK
  <2>3. CodecOK'
    BY <1>23, Values DEF FlushOutput, NoOutput, CodecOK
  <2>4. ThreadsOK'
    BY <1>23, Values DEF FlushOutput, NoOutput, ThreadsOK
  <2>5. DeviceOK'
    BY <1>23, Values DEF FlushOutput, NoOutput, DeviceOK
  <2>6. QED
    BY <2>1, <2>2, <2>3, <2>4, <2>5
<1>24. CASE PostExit
  <2>1. ClientOK'
    BY <1>24, Values DEF PostExit, WakeThread, ClientOK
  <2>2. InputOK'
    BY <1>24, Values DEF PostExit, WakeThread, InputOK
  <2>3. CodecOK'
    BY <1>24, Values DEF PostExit, WakeThread, CodecOK
  <2>4. ThreadsOK'
    BY <1>24, Values DEF PostExit, WakeThread, ThreadsOK
  <2>5. DeviceOK'
    BY <1>24, Values DEF PostExit, WakeThread, DeviceOK
  <2>6. QED
    BY <2>1, <2>2, <2>3, <2>4, <2>5
<1>25. CASE Close
  <2>1. ClientOK'
    BY <1>25, Values DEF Close, ClientOK
  <2>2. InputOK'
    BY <1>25, Values DEF Close, InputOK
  <2>3. CodecOK'
    BY <1>25, Values DEF Close, CodecOK
  <2>4. ThreadsOK'
    BY <1>25, Values DEF Close, ThreadsOK
  <2>5. DeviceOK'
    BY <1>25, Values DEF Close, DeviceOK
  <2>6. QED
    BY <2>1, <2>2, <2>3, <2>4, <2>5
<1>26. CASE UNCHANGED vars
  <2>1. ClientOK'
    BY <1>26 DEF vars, ClientOK
  <2>2. InputOK'
    BY <1>26 DEF vars, InputOK
  <2>3. CodecOK'
    BY <1>26 DEF vars, CodecOK
  <2>4. ThreadsOK'
    BY <1>26 DEF vars, ThreadsOK
  <2>5. DeviceOK'
    BY <1>26 DEF vars, DeviceOK
  <2>6. QED
    BY <2>1, <2>2, <2>3, <2>4, <2>5
<1>27. QED
  BY <1>1, <1>2, <1>3, <1>4, <1>5, <1>6, <1>7, <1>8, <1>9, <1>10, <1>11, <1>12, <1>13,
     <1>14, <1>15, <1>16, <1>17, <1>18, <1>19, <1>20, <1>21, <1>22, <1>23, <1>24, <1>25, <1>26
  DEF Next, ClientNext, BufferProcess, DecodeThread, Flushing, Terminating

(* Every variable keeps its type, for any stream, display delay, size of the table
   of time stamps and number of seeks: the tag never leaves the table, the index
   never leaves the two stream buffers, and a picture's time is one a buffer can
   have, or none. *)
THEOREM TypeCorrect == Spec => []TypeOK
<1>1. Spec => []Typed
  BY TypedInit, TypedStep, PTL DEF Spec
<1>2. QED
  BY <1>1, TypedTypeOK, PTL

-----------------------------------------------------------------------------
(* The order of the pictures.  The frames with the decode thread and in the device
   form a line: their tags are the ones given out last, in turn, so that no two
   have the same and the next is free (InTurn).  The table of time stamps says of
   each frame in the line which it is (Line), and what has been delivered is counted
   by how far the line has moved (Delivered).  Stage says where the buffer process
   thread is with the stream: no frame submitted yet, frame x next, the end taken,
   the device being drained, nothing left, or a flush under way. *)

\* The tag that was given out j frames ago.
BackTag(t, j) == IF t >= j THEN t - j ELSE t - j + MAX_TIMESTAMP

\* A frame is with the decode thread and not decoded yet.
Flying == IF hDecFrameStart > 0 \/ dpc = "exe" THEN 1 ELSE 0
\* A picture has been shown: the device holds Delay frames back.
Displayed == disp.status = "display"
\* The first frame has been submitted.
Begins == ~bFirstFrame \/ pc = "sent"

\* How long ago the i-th frame the device holds back was submitted; the one it has
\* shown last came before it.
Place(i) == Flying + Len(pend) + 1 - i

\* The frames with the decode thread and in the device have the tags given out last,
\* in the order of submission.
InTurn ==
  /\ Len(pend) <= Delay
  /\ \A i \in 1 .. Len(pend) : pend[i].tag = BackTag(tag, Place(i))
  /\ Flying = 1 => ctx.tag = BackTag(tag, 1)
  /\ disp.status \in {"decoding", "display"}
  /\ Displayed => Len(pend) = Delay /\ disp.tag = BackTag(tag, Place(0))
  /\ ~Displayed => disp.tag = 0 /\ tag = Flying + Len(pend)
  /\ IF Begins THEN Displayed \/ tag > 0 ELSE ~Displayed /\ tag = 0

\* What has happened before the first picture and cannot after it.
Begun ==
  /\ shown # <<>> \/ flush # "none" \/ gen > 0 \/ out.valid => Displayed /\ ~bFirstFrame
  /\ ~bFirstFrame \/ pc \in {"send", "sent"} => bUseFlagEOF /\ bConfiguredMFC
  /\ pos = 0 \/ (cur.left /\ cur.c.n = Header) => bFirstFrame /\ ~bConfiguredMFC
  /\ pos = 0 => ~cur.valid
  /\ pc \in {"input", "decode", "await", "read"} => out = NoOutput
  /\ gen > 0 => out.valid \/ out.eos \/ out.time = 0

\* The picture shown last has not been collected.
Reading == bDecoderRun \/ pc \in {"sent", "read"}
Unread == Displayed /\ Flying = 0 /\ Reading
\* The frames submitted whose outcome has not been collected.
Ahead == Flying + Len(pend) + (IF Unread THEN 1 ELSE 0)

\* What is entered for the frame with content c and tag t that was submitted j frames
\* ago, when the next frame of the stream is x and d frames of the draining have been
\* submitted: the frames of the draining are not looked at but for the one that
\* carries the end of the stream; those before it are the frames up to x - 1, and
\* the ones from before the seek have no time.
Entry(d, x, j, c, t) ==
  /\ j > d => /\ ~nFlags[t]
              /\ IF x + d - j >= from
                 THEN c = [gen |-> gen, n |-> x + d - j] /\ timeStamp[t] = x + d - j
                 ELSE timeStamp[t] = NoTime
  /\ j = d => nFlags[t]
Carried == IF ctx.size > 0 THEN buf[ctx.buf] ELSE Blank
\* The frames with the decode thread and in the device, and the last picture.
Line(d, x) ==
  /\ Flying = 1 => Entry(d, x, 1, Carried, ctx.tag)
  /\ \A i \in 1 .. Len(pend) : Entry(d, x, Place(i), pend[i].c, pend[i].tag)
  /\ Displayed => Entry(d, x, Place(0), disp.c, disp.tag)

\* The output is the picture of a frame.
OutFrame == out.valid /\ out.time # NoTime
Count(d, x) == IF x + d - Ahead > from THEN x + d - Ahead - from ELSE 0
\* The pictures delivered, and the one that is about to be, are those of the frames
\* whose outcome has been collected.
Delivered(d, x) ==
  /\ Len(shown) + (IF OutFrame THEN 1 ELSE 0) = Count(d, x)
  /\ OutFrame => out.time = from + Len(shown) /\ out.c = [gen |-> gen, n |-> out.time]
  /\ out.valid /\ ~OutFrame => checkTimeStamp.set \/ checkTimeStamp.check
  /\ ~out.eos /\ ~eosOut
\* The check of the first time stamp ends with the picture of the frame sought.
Checked(d, x) ==
  /\ checkTimeStamp.set => x = from /\ d = 0 /\ ~checkTimeStamp.check
  /\ checkTimeStamp.check => shown = <<>> /\ checkTimeStamp.time = from
                             /\ (checkTimeStamp.eos => x = from)
  /\ IF checkTimeStamp.set \/ checkTimeStamp.check THEN gen > 0 ELSE x + d - Ahead >= from
Flow(d, x) == Line(d, x) /\ Delivered(d, x) /\ Checked(d, x)

\* The next frame of the stream is y; it is in the buffer at hand or to be fed.
NextIs(y) ==
  /\ cur.left => cur.valid /\ cur.c = [gen |-> gen, n |-> y] /\ cur.time = y /\ y <= Frames
                 /\ pos = IF cur.eos THEN Frames + 2 ELSE y + 1
  /\ cur.valid /\ ~cur.left => cur.eos /\ pos = Frames + 2 /\ (gen > 0 => fed > 0)
  /\ ~cur.valid => pos \in {y, Frames + 2}
  /\ from + fed <= y + (IF cur.left /\ ~cur.eos THEN 1 ELSE 0)

\* Before the codec header is copied.
Opening ==
  /\ pc = "input" /\ ~bConfiguredMFC /\ inp.len = 0 /\ fed = 0 /\ ~bSaveFlagEOS
  /\ ~eosOut
  /\ \/ pos = 0 /\ ~cur.valid
     \/ pos = 1 /\ cur.valid /\ cur.left /\ cur.c.n = Header /\ ~cur.eos
\* From then on until the first frame is submitted.
FirstIn ==
  /\ NextIs(IF bConfiguredMFC /\ inp.len = 1 THEN 2 ELSE 1)
  /\ cur.left => cur.c.n # Header
  /\ bConfiguredMFC /\ inp.len = 1 =>
       /\ inp.time = 1 /\ buf[index] = [gen |-> 0, n |-> 1] /\ ~inp.cfg
       /\ inp.eos => pc = "send"
       /\ pc \in {"input", "decode", "send"}
       /\ ~eosOut /\ ~out.eos
  /\ pc = "input" /\ inp.len = 1 => ~bSaveFlagEOS
  /\ pc \in {"done", "output"} => inp.len = 0
  /\ inp.len = 1 => inp.eof
  /\ bSaveFlagEOS => pos = Frames + 2
  /\ pc = "decode" /\ bConfiguredMFC => inp.len = 1
  /\ pc = "send" =>
       /\ inp.len = 1 /\ len = 1 /\ timeStamp[tag] = 1 /\ ~nFlags[tag]
       /\ inp.eos <=> bSaveFlagEOS
  /\ (bConfiguredMFC /\ inp.len = 0) \/ (pc = "decode" /\ ~bConfiguredMFC /\ inp.len = 1) =>
       cur.left \/ (~cur.valid /\ pos = Frames + 2)
  /\ pc = "decode" /\ ~bConfiguredMFC /\ inp.eos => ~cur.valid /\ pos = Frames + 2
  /\ eosOut \/ out.eos => pos = Frames + 2 /\ fed = 0 /\ ~cur.valid
  /\ ~bConfiguredMFC /\ inp.len = 0 => ~cur.left /\ pos = Frames + 2
\* No frame has been submitted.
Start ==
  /\ bFirstFrame /\ gen = 0 /\ from = 1 /\ flush = "none" /\ shown = <<>>
  /\ pc \in {"input", "decode", "send", "done", "output"}
  /\ ~checkTimeStamp.set /\ ~checkTimeStamp.check
  /\ ~reInputData /\ ~yet /\ ~getAllDelayBuffer /\ ~out.valid
  /\ bUseFlagEOF <=> pc = "send"
  /\ Opening \/ FirstIn

Running == Begins /\ flush = "none"
Working == {"decode", "await", "read", "send"}
\* The stream buffer that is not being filled holds what was sent last.
Filled == buf[IF pc \in {"send", "sent"} THEN index ELSE Other(index)] # Blank
Handing == pc \notin {"read", "send", "sent"} => bDecoderRun

\* Frames are fed, and x is the next one to be submitted.
Feeding(x) ==
  /\ Running /\ Flow(0, x) /\ (x > from => Filled /\ Handing)
  /\ ~bSaveFlagEOS /\ ~getAllDelayBuffer /\ ~inp.eos
  /\ pc \in Working /\ inp.len = 1 =>
       /\ inp.time = x /\ buf[index] = [gen |-> gen, n |-> x]
       /\ pc # "decode" => timeStamp[tag] = x /\ ~nFlags[tag] /\ len = 1
  /\ pc \in Working /\ inp.len = 0 => x = from /\ ~cur.valid
  /\ pc = "sent" => x > from /\ inp.len = 1
  /\ pc \notin Working /\ pc # "sent" => inp.len = 0 /\ (x > from => prevLen = 1)
  /\ pc \in {"send", "sent"} => ~yet
  /\ pc = "done" /\ yet => x = from /\ ~cur.valid
  /\ pc \in {"output", "input"} /\ reInputData => x = from /\ ~cur.valid
  /\ x = from => IF inp.len = 0 THEN checkTimeStamp.set
                 ELSE checkTimeStamp.check /\ ~checkTimeStamp.eos
  /\ x >= from /\ (gen = 0 => x > from)
  /\ NextIs(IF pc \in Working /\ inp.len = 1 THEN x + 1 ELSE x)

\* The stream has ended before frame x.
Over(x) == pos = Frames + 2 /\ from + fed <= x
\* The buffer that ends the stream is at hand, with frame x or without a frame.
EndTaken(x) ==
  /\ Running /\ Flow(0, x) /\ (x > from => Filled /\ Handing) /\ Over(x)
  /\ inp.len = 1 /\ inp.eos /\ ~getAllDelayBuffer /\ pc # "send"
  /\ pc = "sent" => x > from /\ bSaveFlagEOS /\ bFirstFrame /\ ~out.valid
  /\ pc = "done" => yet
  /\ pc \in {"output", "input"} => reInputData
  /\ pc \in {"await", "read"} => nFlags[tag]
  /\ x = from => checkTimeStamp.check /\ checkTimeStamp.eos /\ ~cur.valid

\* It is decoded again and again, d times so far, until the picture of the first of
\* these frames says that the stream has ended.
Draining(d, x) ==
  /\ Running /\ Flow(d, x) /\ Over(x)
  /\ inp.len = 1 /\ ~inp.eos /\ getAllDelayBuffer /\ d <= Ahead
  /\ pc \in {"send", "sent", "done"} => yet
  /\ pc \in {"output", "input"} => reInputData
  /\ Handing
  /\ IF d = 0 THEN pc = "send" /\ nFlags[tag] /\ (Filled \/ x = from) ELSE Filled
  /\ x = from => checkTimeStamp.check /\ checkTimeStamp.eos /\ ~cur.valid

\* That picture has been seen, and every frame shown.
Finished ==
  /\ Running /\ pos = Frames + 2 /\ fed <= Len(shown)
  /\ Displayed /\ Flying = 0 /\ ~bDecoderRun /\ pc # "sent"
  /\ nFlags[disp.tag] /\ (pc = "send" => out.eos) /\ ~out.valid

\* The stream has ended with the frame sought: the check of its time stamp waits for
\* a picture that also ends the stream, and nothing leaves the port any more.
Silent ==
  /\ Running /\ pos = Frames + 2 /\ fed = 0 /\ shown = <<>> /\ ~cur.valid /\ ~inp.eos
  /\ checkTimeStamp.check /\ checkTimeStamp.eos /\ ~out.eos /\ ~eosOut /\ Displayed
  /\ \A i \in 1 .. Len(pend) : ~nFlags[pend[i].tag]
  /\ ~nFlags[disp.tag] /\ (Flying = 1 => ~nFlags[ctx.tag])
  /\ pc \in {"await", "read", "send"} => ~nFlags[tag]

\* The entry of a frame from before the seek.
Forgotten(t) == ~nFlags[t] /\ timeStamp[t] = NoTime
\* A flush is under way; when both ports are reset no entry is left.
Seeking ==
  /\ flush # "none"
  /\ flush # "asked" => inp.len = 0 /\ ~inp.eos /\ ~cur.valid /\ ~cur.left
  /\ flush = "reset" =>
       /\ ~getAllDelayBuffer /\ ~bSaveFlagEOS
       /\ checkTimeStamp.set /\ ~checkTimeStamp.check
       /\ \A i \in 1 .. Len(pend) : Forgotten(pend[i].tag)
       /\ Forgotten(disp.tag) /\ (Flying = 1 => Forgotten(ctx.tag))

\* The stream is at one of these stages.
Stage ==
  \/ Start
  \/ \E x \in Nat : Feeding(x)
  \/ \E x \in Nat : EndTaken(x)
  \/ \E x \in Nat, d \in Nat : Draining(d, x)
  \/ Finished \/ Silent \/ Seeking
\* Nothing is fed or shown after the end has been told.
NoMore == eosOut => Len(shown) >= fed /\ pos = Frames + 2

\* No call has failed and the decoder is not ending.
Clear == Typed /\ HandOver /\ Calm /\ pc \notin Ends
\* ... and the invariant of the stream holds.
Sure == Clear /\ InTurn /\ Begun /\ Stage

\* What the hand-over says of the frame with the decode thread.
LEMMA Handing1 ==
  ASSUME Clear
  PROVE  /\ Flying \in 0 .. 1
         /\ Flying = 1 => bDecoderRun \/ pc = "sent"
         /\ hDecFrameEnd > 0 => Flying = 0 /\ (bDecoderRun \/ pc = "sent")
         /\ dpc = "exe" => Flying = 1 /\ job = ctx /\ hDecFrameStart = 0 /\ hDecFrameEnd = 0
         /\ hDecFrameStart > 0 => dpc = "wait" \/ dpc = "dead"
         /\ pc \in {"read", "send", "sent"} => ~bDecoderRun
         /\ bFirstFrame => ~bDecoderRun
         /\ bDecoderRun => ctx.buf = Other(index)
         /\ pc = "sent" => ctx.buf = index
         /\ dpc # "dead"
BY DEF Clear, HandOver, HandTypes, Exiting, OneHanded, Handed, Busy, Calm, Flying, Typed, ThreadsOK

\* A tag given out less than a round ago is another one.
LEMMA BackTagType ==
  ASSUME NEW t \in Tags, NEW j \in 1 .. MAX_TIMESTAMP - 1
  PROVE  BackTag(t, j) \in Tags /\ BackTag(t, j) # t
BY MfcDecodeAssumption DEF BackTag, Tags

\* The next tag, without the remainder.
LEMMA NextTagIs ==
  ASSUME tag \in Tags
  PROVE  NextTag = IF tag + 1 = MAX_TIMESTAMP THEN 0 ELSE tag + 1
BY MfcDecodeAssumption DEF NextTag, Tags

\* When a tag is given out, the ones before it are one further back.
LEMMA BackTagShift ==
  ASSUME tag \in Tags
  PROVE  /\ NextTag \in Tags /\ BackTag(NextTag, 1) = tag
         /\ \A j \in 0 .. MAX_TIMESTAMP - 1 : BackTag(NextTag, j + 1) = BackTag(tag, j)
BY MfcDecodeAssumption, NextTagIs, NextTagIsTag DEF BackTag, Tags

\* The elements of a sequence.
LEMMA ElementType ==
  ASSUME NEW S, NEW s \in Seq(S)
  PROVE  Len(s) \in Nat /\ \A i \in 1 .. Len(s) : s[i] \in S
OBVIOUS

\* The types of what the device holds.
LEMMA PendTypes ==
  ASSUME Typed
  PROVE  /\ Len(pend) \in Nat /\ tag \in Tags /\ disp.tag \in Tags /\ ctx.tag \in Tags
         /\ \A i \in 1 .. Len(pend) : pend[i].tag \in Tags /\ pend[i].c \in Contents
         /\ disp.c \in Contents
<1>1. pend \in Seq([c : Contents, tag : Tags])
  BY DEF Typed, DeviceOK
<1>2. \A i \in 1 .. Len(pend) : pend[i] \in [c : Contents, tag : Tags]
  BY <1>1, ElementType
<1>3. \A i \in 1 .. Len(pend) : pend[i].tag \in Tags /\ pend[i].c \in Contents
  BY <1>2
<1>4. Len(pend) \in Nat
  BY <1>1
<1>5. tag \in Tags /\ disp.tag \in Tags /\ ctx.tag \in Tags /\ disp.c \in Contents
  BY DEF Typed, DeviceOK, CodecOK
<1>6. QED
  BY <1>3, <1>4, <1>5

\* The tag to be given out next is not in use.
LEMMA TagFree ==
  ASSUME Clear, InTurn
  PROVE  /\ \A i \in 1 .. Len(pend) : pend[i].tag # tag
         /\ Flying = 1 => ctx.tag # tag
         /\ Displayed \/ tag > 0 => disp.tag # tag
<1>1. /\ Len(pend) \in Nat /\ Len(pend) <= Delay /\ tag \in Tags /\ Flying \in 0 .. 1
      /\ Delay \in Nat /\ MAX_TIMESTAMP \in Nat /\ MAX_TIMESTAMP > Delay + 2
  BY PendTypes, Handing1, MfcDecodeAssumption DEF Clear, InTurn
<1>2. \A i \in 0 .. Len(pend) : Place(i) \in 1 .. MAX_TIMESTAMP - 1
  BY <1>1 DEF Place
<1>3. \A i \in 1 .. Len(pend) : pend[i].tag # tag
  BY <1>1, <1>2, BackTagType DEF InTurn
<1>4. Flying = 1 => ctx.tag # tag
  BY <1>1, BackTagType DEF InTurn
<1>5. Displayed => disp.tag # tag
  BY <1>1, <1>2, BackTagType DEF InTurn
<1>6. ~Displayed /\ tag > 0 => disp.tag # tag
  BY <1>1 DEF InTurn, Tags
<1>7. QED
  BY <1>3, <1>4, <1>5, <1>6

-----------------------------------------------------------------------------
\* What depends on the device and on the table of time stamps stays as it is when
\* they do.
LEMMA AheadKept ==
  ASSUME Flying' = Flying, UNCHANGED <<pend, disp>>,
         (Reading' <=> Reading)
  PROVE  Ahead' = Ahead /\ (Displayed' <=> Displayed) /\ (Unread' <=> Unread)
BY DEF Ahead, Unread, Displayed

\* ... the order of the tags,
LEMMA InTurnKept ==
  ASSUME InTurn, Flying' = Flying, UNCHANGED <<pend, disp, ctx, tag>>, (Begins' <=> Begins)
  PROVE  InTurn'
BY DEF InTurn, Displayed, Place

\* ... what is entered for the frames in the line,
LEMMA LineKept ==
  ASSUME NEW d \in Nat, NEW x \in Nat, Line(d, x), Flying' = Flying,
         UNCHANGED <<pend, disp, ctx, timeStamp, nFlags, from, gen>>,
         Flying = 1 => buf'[ctx.buf] = buf[ctx.buf]
  PROVE  Line(d, x)'
BY DEF Line, Displayed, Entry, Place, Carried

\* ... and with the output what has been delivered.
LEMMA FlowKept ==
  ASSUME NEW d \in Nat, NEW x \in Nat, Flow(d, x), Flying' = Flying,
         UNCHANGED <<pend, disp, ctx, timeStamp, nFlags, from, gen>>,
         Flying = 1 => buf'[ctx.buf] = buf[ctx.buf],
         Reading' <=> Reading,
         UNCHANGED <<shown, out, checkTimeStamp, eosOut>>
  PROVE  Flow(d, x)' /\ Ahead' = Ahead
<1>1. Line(d, x)'
  BY LineKept DEF Flow
<1>2. Ahead' = Ahead
  BY AheadKept
<1>3. Delivered(d, x)'
  BY <1>2 DEF Flow, Delivered, Count, OutFrame
<1>4. Checked(d, x)'
  BY <1>2 DEF Flow, Checked
<1>5. QED
  BY <1>1, <1>2, <1>3, <1>4 DEF Flow

-----------------------------------------------------------------------------
(* The client. *)

\* What a buffer that is fed changes.
LEMMA FeedFacts ==
  ASSUME NEW c, NEW t, NEW e \in BOOLEAN, Feed(c, t, e)
  PROVE  /\ Flying' = Flying /\ (Reading' <=> Reading) /\ (Begins' <=> Begins)
         /\ UNCHANGED <<pend, disp, ctx, tag, timeStamp, nFlags, from, gen, buf, shown, out,
                        checkTimeStamp, eosOut, flush, inp, prevLen, bUseFlagEOF, bSaveFlagEOS,
                        reInputData, pc, yet, len, bConfiguredMFC, bFirstFrame,
                        getAllDelayBuffer, bDecoderRun, index>>
         /\ cur'.valid /\ (cur'.left <=> c # Blank) /\ cur'.c = c /\ cur'.time = t
         /\ (cur'.eos <=> e)
BY DEF Feed, codecVars, threadVars, deviceVars, Flying, Reading, Begins

\* The codec header comes first and alone.
LEMMA GetHeaderStep ==
  ASSUME Sure, Clear', GetHeader
  PROVE  (InTurn /\ Begun /\ Stage)'
<1>1. /\ pc = "input" /\ ~reInputData /\ ~cur.valid /\ flush \in {"none", "asked"} /\ pos = 0
      /\ pos' = 1 /\ fed' = fed
      /\ Feed([gen |-> gen, n |-> Header], 0, FALSE)
  BY DEF GetHeader, TakesInput, Header
<1>2. [gen |-> gen, n |-> Header] # Blank
  BY DEF Header, Blank
<1> DEFINE c == [gen |-> gen, n |-> Header]
<1>3. /\ Flying' = Flying /\ (Reading' <=> Reading) /\ (Begins' <=> Begins)
      /\ UNCHANGED <<pend, disp, ctx, tag, timeStamp, nFlags, from, gen, buf, shown, out,
                     checkTimeStamp, eosOut, flush, inp, prevLen, bUseFlagEOF, bSaveFlagEOS,
                     reInputData, pc, yet, len, bConfiguredMFC, bFirstFrame,
                     getAllDelayBuffer, bDecoderRun, index>>
      /\ cur'.valid /\ cur'.left /\ cur'.c = c /\ ~cur'.eos
  BY <1>1, <1>2, FeedFacts
<1>a. cur'.c.n = Header
  BY <1>3
<1> HIDE DEF c
<1>4. InTurn'
  BY <1>3, InTurnKept DEF Sure
<1>5. bFirstFrame /\ ~bConfiguredMFC /\ flush = "none"
  BY <1>1 DEF Sure, Begun
<1>6. ~Begins
  BY <1>1, <1>5 DEF Begins
<1>7. Start
  BY <1>5, <1>6 DEF Sure, Stage, Feeding, EndTaken, Draining, Finished, Silent, Seeking, Running
<1>8. Opening
  BY <1>1, <1>7, MfcDecodeAssumption DEF Start, FirstIn, NextIs
<1>9. Begun'
  BY <1>1, <1>3, <1>5, <1>a DEF Sure, Begun, Displayed
<1>10. Start'
  BY <1>1, <1>3, <1>7, <1>8, <1>a DEF Start, Opening
<1>11. QED
  BY <1>4, <1>9, <1>10 DEF Stage

\* The frame fed is the next one of the stream.
LEMMA GetFrameStep ==
  ASSUME Sure, Clear', NEW e \in BOOLEAN, GetFrame(e)
  PROVE  (InTurn /\ Begun /\ Stage)'
<1> DEFINE c == [gen |-> gen, n |-> pos]
<1>1. /\ pc = "input" /\ ~reInputData /\ ~cur.valid /\ flush \in {"none", "asked"}
      /\ pos \in 1 .. Frames
      /\ pos' = (IF e THEN Frames + 2 ELSE pos + 1)
      /\ fed' = (IF e THEN fed ELSE fed + 1)
      /\ Feed(c, pos, e)
  BY DEF GetFrame, TakesInput
<1>2. c # Blank
  BY <1>1, MfcDecodeAssumption DEF Blank
<1>3. /\ Flying' = Flying /\ (Reading' <=> Reading) /\ (Begins' <=> Begins)
      /\ UNCHANGED <<pend, disp, ctx, tag, timeStamp, nFlags, from, gen, buf, shown, out,
                     checkTimeStamp, eosOut, flush, inp, prevLen, bUseFlagEOF, bSaveFlagEOS,
                     reInputData, pc, yet, len, bConfiguredMFC, bFirstFrame,
                     getAllDelayBuffer, bDecoderRun, index>>
      /\ cur'.valid /\ cur'.left /\ cur'.c = c /\ cur'.time = pos /\ (cur'.eos <=> e)
  BY <1>1, <1>2, FeedFacts
<1>a. cur'.c.n = pos /\ pos # Header /\ pos' # 0 /\ pos # Frames + 2
  BY <1>1, <1>3, MfcDecodeAssumption DEF Header
<1> HIDE DEF c
<1>4. InTurn'
  BY <1>3, InTurnKept DEF Sure
<1>5. Begun'
  BY <1>1, <1>3, <1>a DEF Sure, Begun, Displayed
<1>b. ASSUME NEW y \in Nat, NextIs(y) PROVE NextIs(y)'
  <2>1. pos = y /\ from + fed <= y /\ cur.left = FALSE
    BY <1>1, <1>a, <1>b DEF NextIs, Sure, Clear, Typed, InputOK
  <2>2. /\ from \in Nat /\ fed \in Nat
    BY DEF Sure, Clear, Typed, ClientOK
  <2>3. from + fed' <= y + (IF ~e THEN 1 ELSE 0)
    BY <1>1, <2>1, <2>2
  <2>4. pos' = IF cur'.eos THEN Frames + 2 ELSE y + 1
    BY <1>1, <1>3, <2>1
  <2>5. cur'.c = [gen |-> gen, n |-> y] /\ cur'.time = y /\ y <= Frames
    BY <1>1, <1>3, <2>1 DEF c
  <2>6. QED
    BY <1>3, <2>3, <2>4, <2>5 DEF NextIs
<1>6. CASE Start
  <2>1. FirstIn
    BY <1>1, <1>6 DEF Start, Opening
  <2>2. NextIs(IF bConfiguredMFC /\ inp.len = 1 THEN 2 ELSE 1)'
    BY <1>3, <1>b, <2>1 DEF FirstIn
  <2>3. ~bSaveFlagEOS /\ ~eosOut /\ ~out.eos
    BY <1>a, <2>1 DEF FirstIn
  <2>4. FirstIn'
    BY <1>1, <1>3, <1>a, <2>1, <2>2, <2>3 DEF FirstIn
  <2>5. Start'
    BY <1>3, <1>6, <2>4, Zenon DEF Start
  <2>6. QED
    BY <1>4, <1>5, <2>5 DEF Stage
<1>7. ASSUME NEW x \in Nat, Feeding(x) PROVE Feeding(x)'
  <2>1. Flow(0, x)'
    BY <1>3, <1>7, FlowKept DEF Feeding
  <2>2. NextIs(x)'
    BY <1>1, <1>b, <1>7 DEF Feeding, Working
  <2>3. QED
    BY <1>1, <1>3, <1>7, <2>1, <2>2 DEF Feeding, Running, Filled, Handing, Working, Begins
<1>8. ASSUME NEW x \in Nat, EndTaken(x) PROVE FALSE
  BY <1>8, <1>a DEF EndTaken, Over
<1>9. ASSUME NEW x \in Nat, NEW d \in Nat, Draining(d, x) PROVE FALSE
  BY <1>9, <1>a DEF Draining, Over
<1>10. ~Finished /\ ~Silent
  BY <1>a DEF Finished, Silent
<1>11. Seeking => Seeking'
  BY <1>1, <1>3 DEF Seeking
<1>12. QED
  BY <1>4, <1>5, <1>6, <1>7, <1>8, <1>9, <1>10, <1>11 DEF Sure, Stage

\* The buffer that only ends the stream.
LEMMA GetEndStep ==
  ASSUME Sure, Clear', GetEnd
  PROVE  (InTurn /\ Begun /\ Stage)'
<1>1. /\ pc = "input" /\ ~reInputData /\ ~cur.valid /\ flush \in {"none", "asked"}
      /\ pos <= Frames + 1 /\ (gen > 0 => fed > 0)
      /\ pos' = Frames + 2 /\ fed' = fed
      /\ Feed(Blank, EosTime, TRUE)
  BY DEF GetEnd, TakesInput
<1>3. /\ Flying' = Flying /\ (Reading' <=> Reading) /\ (Begins' <=> Begins)
      /\ UNCHANGED <<pend, disp, ctx, tag, timeStamp, nFlags, from, gen, buf, shown, out,
                     checkTimeStamp, eosOut, flush, inp, prevLen, bUseFlagEOF, bSaveFlagEOS,
                     reInputData, pc, yet, len, bConfiguredMFC, bFirstFrame,
                     getAllDelayBuffer, bDecoderRun, index>>
      /\ cur'.valid /\ ~cur'.left /\ cur'.eos
  BY <1>1, FeedFacts
<1>a. pos' # 0 /\ pos # Frames + 2
  BY <1>1, MfcDecodeAssumption DEF Sure, Clear, Typed, ClientOK
<1>4. InTurn'
  BY <1>3, InTurnKept DEF Sure
<1>5. Begun'
  BY <1>1, <1>3, <1>a DEF Sure, Begun, Displayed
<1>b. ASSUME NEW y \in Nat, NextIs(y) \/ (pos = 0 /\ y = 1 /\ fed = 0 /\ from = 1) PROVE NextIs(y)'
  <2>1. from + fed <= y
    <3>1. cur.left = FALSE \/ pos = 0
      BY <1>1, <1>b DEF NextIs, Sure, Clear, Typed, InputOK
    <3>2. from \in Nat /\ fed \in Nat
      BY DEF Sure, Clear, Typed, ClientOK
    <3>3. CASE NextIs(y) /\ ~cur.left
      BY <3>3, <3>2 DEF NextIs
    <3>4. CASE pos = 0 /\ y = 1 /\ fed = 0 /\ from = 1
      BY <3>4
    <3>5. QED
      BY <1>1, <1>b, <3>3, <3>4 DEF NextIs
  <2>2. QED
    BY <1>1, <1>3, <2>1 DEF NextIs
<1>6. CASE Start
  <2>1. FirstIn \/ (pos = 0 /\ fed = 0 /\ Opening)
    BY <1>1, <1>6 DEF Start, Opening
  <2>2. from = 1 /\ out = NoOutput /\ ~out.eos
    BY <1>1, <1>6 DEF Start, Sure, Begun, NoOutput
  <2>3. CASE FirstIn
    <3>1. NextIs(IF bConfiguredMFC /\ inp.len = 1 THEN 2 ELSE 1)'
      BY <1>3, <1>b, <2>3 DEF FirstIn
    <3>2. ~eosOut /\ ~bSaveFlagEOS
      BY <1>a, <2>3 DEF FirstIn
    <3>a. ~(bConfiguredMFC /\ inp.len = 0)
      BY <1>1, <1>a, <2>3 DEF FirstIn, NextIs
    <3>3. FirstIn'
      BY <1>1, <1>3, <1>a, <2>2, <2>3, <3>1, <3>2, <3>a DEF FirstIn
    <3>4. Start'
      BY <1>3, <1>6, <3>3, Zenon DEF Start
    <3>5. QED
      BY <1>4, <1>5, <3>4 DEF Stage
  <2>4. CASE pos = 0 /\ fed = 0 /\ Opening
    <3>1. NextIs(IF bConfiguredMFC /\ inp.len = 1 THEN 2 ELSE 1)'
      <4>1. NextIs(1)'
        BY <1>b, <2>2, <2>4
      <4>2. QED
        BY <1>3, <2>4, <4>1 DEF Opening
    <3>3. FirstIn'
      BY <1>1, <1>3, <1>a, <2>2, <2>4, <3>1 DEF FirstIn, Opening
    <3>4. Start'
      BY <1>3, <1>6, <3>3, Zenon DEF Start
    <3>5. QED
      BY <1>4, <1>5, <3>4 DEF Stage
  <2>5. QED
    BY <2>1, <2>3, <2>4
<1>7. ASSUME NEW x \in Nat, Feeding(x) PROVE Feeding(x)'
  <2>1. Flow(0, x)'
    BY <1>3, <1>7, FlowKept DEF Feeding
  <2>2. NextIs(x) /\ NextIs(x)'
    BY <1>1, <1>b, <1>7 DEF Feeding, Working
  <2>3. QED
    BY <1>1, <1>3, <1>7, <2>1, <2>2 DEF Feeding, Running, Filled, Handing, Working, Begins
<1>8. ASSUME NEW x \in Nat, EndTaken(x) PROVE FALSE
  BY <1>8, <1>a DEF EndTaken, Over
<1>9. ASSUME NEW x \in Nat, NEW d \in Nat, Draining(d, x) PROVE FALSE
  BY <1>9, <1>a DEF Draining, Over
<1>10. ~Finished /\ ~Silent
  BY <1>a DEF Finished, Silent
<1>11. Seeking => Seeking'
  BY <1>1, <1>3 DEF Seeking
<1>12. QED
  BY <1>4, <1>5, <1>6, <1>7, <1>8, <1>9, <1>10, <1>11 DEF Sure, Stage

\* A flush begins when a picture has been shown, so that none is under way.
LEMMA AskFlushStep ==
  ASSUME Sure, Clear', AskFlush
  PROVE  (InTurn /\ Begun /\ Stage)'
<1>1. /\ flush' = "asked" /\ shown # <<>> /\ Flying' = Flying /\ (Begins' <=> Begins)
      /\ UNCHANGED <<pos, gen, shown, cur, bUseFlagEOF, pc, bConfiguredMFC, bFirstFrame, tag,
                     ctx, pend, disp, out>>
  BY DEF AskFlush, portVars, codecVars, threadVars, deviceVars, Flying, Begins
<1>2. InTurn'
  BY <1>1, InTurnKept DEF Sure
<1>3. Begun'
  BY <1>1 DEF Sure, Begun, Displayed
<1>4. Seeking'
  BY <1>1 DEF Seeking
<1>5. QED
  BY <1>2, <1>3, <1>4 DEF Stage

-----------------------------------------------------------------------------
(* The decode thread. *)

\* A step of the decode thread, or no step of it, that leaves the line as it is.
LEMMA StageKept ==
  ASSUME Sure, Flying' = Flying,
         UNCHANGED <<clientVars, portVars, pc, codecVars, ctx, pend, disp>>
  PROVE  (InTurn /\ Begun /\ Stage)'
<1>1. /\ UNCHANGED <<pos, gen, from, fed, flush, shown, eosOut, cur, inp, prevLen, bUseFlagEOF,
                     bSaveFlagEOS, reInputData, checkTimeStamp, pc, yet, len, out,
                     bConfiguredMFC, bFirstFrame, getAllDelayBuffer, bDecoderRun, index, buf,
                     tag, timeStamp, nFlags, ctx, pend, disp>>
      /\ Flying' = Flying
  BY DEF clientVars, portVars, codecVars
<1>2. (Reading' <=> Reading) /\ (Begins' <=> Begins)
  BY <1>1 DEF Reading, Begins
<1>3. InTurn'
  BY <1>1, <1>2, InTurnKept DEF Sure
<1>4. Begun'
  BY <1>1 DEF Sure, Begun, Displayed
<1>5. CASE Start
  <2>1. (Opening => Opening') /\ (FirstIn => FirstIn')
    BY <1>1 DEF Opening, FirstIn, NextIs
  <2>2. Start'
    BY <1>1, <1>5, <2>1, Zenon DEF Start
  <2>3. QED
    BY <1>3, <1>4, <2>2 DEF Stage
<1>6. ASSUME NEW x \in Nat, Feeding(x) PROVE Feeding(x)'
  <2>1. Flow(0, x)'
    BY <1>1, <1>2, <1>6, FlowKept DEF Feeding
  <2>2. QED
    BY <1>1, <1>2, <1>6, <2>1 DEF Feeding, Running, Filled, Handing, NextIs
<1>7. ASSUME NEW x \in Nat, EndTaken(x) PROVE EndTaken(x)'
  <2>1. Flow(0, x)'
    BY <1>1, <1>2, <1>7, FlowKept DEF EndTaken
  <2>2. QED
    BY <1>1, <1>2, <1>7, <2>1 DEF EndTaken, Running, Filled, Handing, Over
<1>8. ASSUME NEW x \in Nat, NEW d \in Nat, Draining(d, x) PROVE Draining(d, x)'
  <2>1. Flow(d, x)' /\ Ahead' = Ahead
    BY <1>1, <1>2, <1>8, FlowKept DEF Draining
  <2>2. QED
    BY <1>1, <1>2, <1>8, <2>1 DEF Draining, Running, Filled, Handing, Over
<1>9. Finished => Finished'
  BY <1>1, <1>2 DEF Finished, Running, Displayed
<1>10. Silent => Silent'
  BY <1>1, <1>2 DEF Silent, Running, Displayed
<1>11. Seeking => Seeking'
  BY <1>1 DEF Seeking, Forgotten
<1>12. QED
  BY <1>3, <1>4, <1>5, <1>6, <1>7, <1>8, <1>9, <1>10, <1>11 DEF Sure, Stage

\* The decode thread takes the frame up ...
LEMMA StartExeStep ==
  ASSUME Sure, Clear', StartExe
  PROVE  (InTurn /\ Begun /\ Stage)'
<1>1. Flying' = Flying
  BY Handing1 DEF StartExe, Flying, Sure, Clear, Typed, ThreadsOK, HandOver, Exiting, Ends
<1>2. UNCHANGED <<clientVars, portVars, pc, codecVars, ctx, pend, disp>>
  BY DEF StartExe
<1>3. QED
  BY <1>1, <1>2, StageKept

\* ... and says that it is done.
LEMMA PostEndStep ==
  ASSUME Sure, Clear', PostEnd
  PROVE  (InTurn /\ Begun /\ Stage)'
<1>1. Flying' = Flying
  BY Handing1 DEF PostEnd, Flying, Sure, Clear
<1>2. UNCHANGED <<clientVars, portVars, pc, codecVars, ctx, pend, disp>>
  BY DEF PostEnd, deviceVars
<1>3. QED
  BY <1>1, <1>2, StageKept

-----------------------------------------------------------------------------
(* The buffer process thread, as far as it leaves the line of frames as it is. *)

\* The input is kept for another call.
LEMMA SkipPreprocessStep ==
  ASSUME Sure, Clear', SkipPreprocess
  PROVE  (InTurn /\ Begun /\ Stage)'
<1>1. /\ pc = "input" /\ pc' = "decode" /\ Flying' = Flying
      /\ reInputData \/ (~cur.valid /\ flush \in {"asked", "port"})
      /\ UNCHANGED <<pos, gen, from, fed, flush, shown, eosOut, cur, inp, prevLen, bUseFlagEOF,
                     bSaveFlagEOS, reInputData, checkTimeStamp, yet, len, out,
                     bConfiguredMFC, bFirstFrame, getAllDelayBuffer, bDecoderRun, index, buf,
                     tag, timeStamp, nFlags, ctx, pend, disp>>
  BY DEF SkipPreprocess, clientVars, portVars, codecVars, threadVars, deviceVars, Flying
<1>2. (Reading' <=> Reading) /\ (Begins' <=> Begins)
  BY <1>1 DEF Reading, Begins
<1>3. InTurn'
  BY <1>1, <1>2, InTurnKept DEF Sure
<1>4. Begun'
  BY <1>1 DEF Sure, Begun, Displayed
<1>5. ~Start
  BY <1>1 DEF Start
<1>6. ASSUME NEW x \in Nat, Feeding(x) PROVE Feeding(x)'
  <2>1. Flow(0, x)' /\ Ahead' = Ahead
    BY <1>1, <1>2, <1>6, FlowKept DEF Feeding
  <2>2. QED
    BY <1>1, <1>2, <1>6, <2>1 DEF Feeding, Running, Filled, Handing, NextIs, Working
<1>7. ASSUME NEW x \in Nat, EndTaken(x) PROVE EndTaken(x)'
  <2>1. Flow(0, x)' /\ Ahead' = Ahead
    BY <1>1, <1>2, <1>7, FlowKept DEF EndTaken
  <2>2. QED
    BY <1>1, <1>2, <1>7, <2>1 DEF EndTaken, Running, Filled, Handing, Over
<1>8. ASSUME NEW x \in Nat, NEW d \in Nat, Draining(d, x) PROVE Draining(d, x)'
  <2>1. Flow(d, x)' /\ Ahead' = Ahead
    BY <1>1, <1>2, <1>8, FlowKept DEF Draining
  <2>2. QED
    BY <1>1, <1>2, <1>8, <2>1 DEF Draining, Running, Filled, Handing, Over
<1>9. Finished => Finished'
  BY <1>1, <1>2 DEF Finished, Running, Displayed
<1>10. Silent => Silent'
  BY <1>1, <1>2 DEF Silent, Running, Displayed
<1>11. Seeking => Seeking'
  BY <1>1 DEF Seeking, Forgotten
<1>12. QED
  BY <1>3, <1>4, <1>5, <1>6, <1>7, <1>8, <1>9, <1>10, <1>11 DEF Sure, Stage

\* The outcome of the frame before this one is to be had.
LEMMA AwaitStep ==
  ASSUME Sure, Clear', Await
  PROVE  (InTurn /\ Begun /\ Stage)'
<1>1. /\ pc = "await" /\ pc' = "read" /\ Flying' = Flying /\ bDecoderRun /\ ~bDecoderRun'
      /\ UNCHANGED <<pos, gen, from, fed, flush, shown, eosOut, cur, inp, prevLen, bUseFlagEOF,
                     bSaveFlagEOS, reInputData, checkTimeStamp, yet, len, out,
                     bConfiguredMFC, bFirstFrame, getAllDelayBuffer, index, buf,
                     tag, timeStamp, nFlags, ctx, pend, disp>>
  BY Handing1 DEF Await, clientVars, portVars, codecVars, threadVars, deviceVars, Flying, Sure
<1>2. (Reading' <=> Reading) /\ (Begins' <=> Begins)
  BY <1>1 DEF Reading, Begins
<1>3. InTurn'
  BY <1>1, <1>2, InTurnKept DEF Sure
<1>4. Begun'
  BY <1>1 DEF Sure, Begun, Displayed
<1>5. ~Start
  BY <1>1 DEF Start
<1>6. ASSUME NEW x \in Nat, Feeding(x) PROVE Feeding(x)'
  <2>1. Flow(0, x)' /\ Ahead' = Ahead
    BY <1>1, <1>2, <1>6, FlowKept DEF Feeding
  <2>2. QED
    BY <1>1, <1>2, <1>6, <2>1 DEF Feeding, Running, Filled, Handing, NextIs, Working
<1>7. ASSUME NEW x \in Nat, EndTaken(x) PROVE EndTaken(x)'
  <2>1. Flow(0, x)' /\ Ahead' = Ahead
    BY <1>1, <1>2, <1>7, FlowKept DEF EndTaken
  <2>2. QED
    BY <1>1, <1>2, <1>7, <2>1 DEF EndTaken, Running, Filled, Handing, Over
<1>8. ASSUME NEW x \in Nat, NEW d \in Nat, Draining(d, x) PROVE Draining(d, x)'
  <2>1. Flow(d, x)' /\ Ahead' = Ahead
    BY <1>1, <1>2, <1>8, FlowKept DEF Draining
  <2>2. QED
    BY <1>1, <1>2, <1>8, <2>1 DEF Draining, Running, Filled, Handing, Over
<1>9. Finished => Finished'
  BY <1>1, <1>2 DEF Finished, Running, Displayed
<1>10. Silent => Silent'
  BY <1>1, <1>2 DEF Silent, Running, Displayed
<1>11. Seeking => Seeking'
  BY <1>1 DEF Seeking, Forgotten
<1>12. QED
  BY <1>3, <1>4, <1>5, <1>6, <1>7, <1>8, <1>9, <1>10, <1>11 DEF Sure, Stage

\* What is to be decoded yet is remembered.
LEMMA DoneStep ==
  ASSUME Sure, Clear', Done
  PROVE  (InTurn /\ Begun /\ Stage)'
<1>1. /\ pc = "done" /\ pc' = "output" /\ Flying' = Flying /\ (reInputData' <=> yet)
      /\ UNCHANGED <<pos, gen, from, fed, flush, shown, eosOut, cur, inp, prevLen, bUseFlagEOF,
                     bSaveFlagEOS, checkTimeStamp, yet, len, out,
                     bConfiguredMFC, bFirstFrame, getAllDelayBuffer, bDecoderRun, index, buf,
                     tag, timeStamp, nFlags, ctx, pend, disp>>
  BY DEF Done, clientVars, codecVars, threadVars, deviceVars, Flying
<1>2. (Reading' <=> Reading) /\ (Begins' <=> Begins)
  BY <1>1 DEF Reading, Begins
<1>3. InTurn'
  BY <1>1, <1>2, InTurnKept DEF Sure
<1>4. Begun'
  BY <1>1 DEF Sure, Begun, Displayed
<1>5. Start => Start'
  <2>1. SUFFICES ASSUME Start PROVE Start'
    OBVIOUS
  <2>2. FirstIn /\ ~yet
    BY <1>1, <2>1 DEF Start, Opening
  <2>3. FirstIn'
    BY <1>1, <2>2 DEF FirstIn, NextIs
  <2>4. QED
    BY <1>1, <2>1, <2>2, <2>3, Zenon DEF Start
<1>6. ASSUME NEW x \in Nat, Feeding(x) PROVE Feeding(x)'
  <2>1. Flow(0, x)' /\ Ahead' = Ahead
    BY <1>1, <1>2, <1>6, FlowKept DEF Feeding
  <2>2. QED
    BY <1>1, <1>2, <1>6, <2>1 DEF Feeding, Running, Filled, Handing, NextIs, Working
<1>7. ASSUME NEW x \in Nat, EndTaken(x) PROVE EndTaken(x)'
  <2>1. Flow(0, x)' /\ Ahead' = Ahead
    BY <1>1, <1>2, <1>7, FlowKept DEF EndTaken
  <2>2. QED
    BY <1>1, <1>2, <1>7, <2>1 DEF EndTaken, Running, Filled, Handing, Over
<1>8. ASSUME NEW x \in Nat, NEW d \in Nat, Draining(d, x) PROVE Draining(d, x)'
  <2>1. Flow(d, x)' /\ Ahead' = Ahead
    BY <1>1, <1>2, <1>8, FlowKept DEF Draining
  <2>2. QED
    BY <1>1, <1>2, <1>8, <2>1 DEF Draining, Running, Filled, Handing, Over
<1>9. Finished => Finished'
  BY <1>1, <1>2 DEF Finished, Running, Displayed
<1>10. Silent => Silent'
  BY <1>1, <1>2 DEF Silent, Running, Displayed
<1>11. Seeking => Seeking'
  BY <1>1 DEF Seeking, Forgotten
<1>12. QED
  BY <1>3, <1>4, <1>5, <1>6, <1>7, <1>8, <1>9, <1>10, <1>11 DEF Sure, Stage

\* The codec header, or the end of a stream without one.
LEMMA UnconfiguredStart ==
  ASSUME Sure, pc = "decode", ~bConfiguredMFC
  PROVE  Start /\ FirstIn
<1>1. bFirstFrame /\ flush = "none" /\ ~Begins
  BY DEF Sure, Begun, Begins
<1>2. Start
  BY <1>1 DEF Sure, Stage, Feeding, EndTaken, Draining, Finished, Silent, Seeking, Running
<1>3. QED
  BY <1>2 DEF Start, Opening

\* It is consumed, and the next buffer holds the first frame.
LEMMA UnconfiguredStep ==
  ASSUME Sure, Clear', DecodeNothing \/ Configure
  PROVE  (InTurn /\ Begun /\ Stage)'
<1>1. Start /\ FirstIn
  BY UnconfiguredStart DEF DecodeNothing, Configure
<1>2. /\ pc = "decode" /\ ~bConfiguredMFC /\ pc' = "done"
      /\ bConfiguredMFC' \in BOOLEAN
      /\ out' = [NoOutput EXCEPT !.time = inp.time, !.eos = inp.eos]
      /\ ~yet' /\ inp' = [inp EXCEPT !.len = 0]
      /\ bConfiguredMFC' => inp.len > 0
      /\ ~bConfiguredMFC' => inp.eos
      /\ UNCHANGED <<pos, gen, from, fed, flush, shown, eosOut, cur, bUseFlagEOF,
                     bSaveFlagEOS, reInputData, checkTimeStamp,
                     bFirstFrame, getAllDelayBuffer, bDecoderRun, index, buf,
                     tag, ctx, pend, disp>>
      /\ Flying' = Flying
  <2>1. CASE DecodeNothing
    BY <2>1 DEF DecodeNothing, Conclude, clientVars, threadVars, deviceVars, Flying, Sure, Clear,
       Typed, CodecOK
  <2>2. CASE Configure
    <3>1. errors' = errors
      BY <2>2 DEF Configure, Sure, Clear, Calm
    <3>2. errors' # errors + 1
      BY <3>1 DEF Sure, Clear, Calm
    <3>3. bConfiguredMFC' = TRUE /\ out' = [NoOutput EXCEPT !.time = inp.time, !.eos = inp.eos]
          /\ Conclude(FALSE)
      BY <2>2, <3>2, Zenon DEF Configure
    <3>4. QED
      BY <2>2, <3>3 DEF Configure, Conclude, clientVars, threadVars, Flying
  <2>3. QED
    BY <2>1, <2>2
<1>3. /\ inp'.len = 0 /\ (inp'.eos <=> inp.eos) /\ (out'.eos <=> inp.eos) /\ ~out'.valid
  BY <1>2 DEF Sure, Clear, Typed, InputOK, NoOutput
<1>4. (Reading' <=> Reading) /\ (Begins' <=> Begins)
  BY <1>2 DEF Reading, Begins
<1>5. InTurn'
  BY <1>2, <1>4, InTurnKept DEF Sure
<1>6. NextIs(1) /\ pos # 0 /\ ~(cur.left /\ cur.c.n = Header)
  <2>1. NextIs(1)
    BY <1>1, <1>2 DEF FirstIn
  <2>2. pos # 0
    BY <1>1, <2>1, MfcDecodeAssumption DEF FirstIn, NextIs, Header, Sure, Clear, Typed, ClientOK
  <2>3. QED
    BY <1>1, <2>1, <2>2 DEF FirstIn
<1>7. Begun'
  BY <1>1, <1>2, <1>3, <1>6 DEF Sure, Begun, Displayed, Start
<1>8. from = 1 /\ fed \in Nat
  BY <1>1 DEF Start, Sure, Clear, Typed, ClientOK
<1>9. inp.eos => pos = Frames + 2 /\ fed = 0 /\ ~cur.valid /\ ~cur.left
  <2>1. SUFFICES ASSUME inp.eos
                 PROVE  pos = Frames + 2 /\ fed = 0 /\ ~cur.valid /\ ~cur.left
    OBVIOUS
  <2>2. ~cur.valid /\ pos = Frames + 2
    BY <1>1, <1>2, <2>1 DEF FirstIn
  <2>3. ~cur.left
    BY <1>6, <2>2 DEF NextIs
  <2>4. QED
    BY <1>6, <1>8, <2>2, <2>3 DEF NextIs
<1>10. NextIs(1)'
  BY <1>2, <1>6 DEF NextIs
<1>11. inp.len > 0 => inp.len = 1
  BY DEF Sure, Clear, Typed, InputOK
<1>12. FirstIn'
  BY <1>1, <1>2, <1>3, <1>6, <1>9, <1>10, <1>11 DEF FirstIn
<1>13. Start'
  BY <1>1, <1>2, <1>3, <1>12, Zenon DEF Start
<1>14. QED
  BY <1>5, <1>7, <1>13 DEF Stage

-----------------------------------------------------------------------------
(* The beginning of a decode, which enters the frame into the table. *)

\* What Begin enters.
LEMMA BeginTable ==
  ASSUME Sure, Begin
  PROVE  /\ timeStamp'[tag] = inp.time /\ (nFlags'[tag] <=> inp.eos)
         /\ \A t \in Tags : t # tag => timeStamp'[t] = timeStamp[t] /\ (nFlags'[t] <=> nFlags[t])
<1>1. /\ timeStamp' = [timeStamp EXCEPT ![tag] = inp.time]
      /\ nFlags' = [nFlags EXCEPT ![tag] = inp.eos]
  BY DEF Begin
<1>2. timeStamp \in [Tags -> Times] /\ nFlags \in [Tags -> BOOLEAN] /\ tag \in Tags
  BY DEF Sure, Clear, Typed, CodecOK
<1>3. \A t \in Tags : timeStamp'[t] = IF t = tag THEN inp.time ELSE timeStamp[t]
  BY <1>1, <1>2
<1>4. \A t \in Tags : nFlags'[t] = IF t = tag THEN inp.eos ELSE nFlags[t]
  BY <1>1, <1>2
<1>5. QED
  BY <1>2, <1>3, <1>4

\* What Begin does once the device is configured.
LEMMA BeginFacts ==
  ASSUME Sure, Begin
  PROVE  /\ pc = "decode" /\ bConfiguredMFC /\ len' = inp.len /\ ~yet' /\ Flying' = Flying
         /\ bUseFlagEOF' <=> bUseFlagEOF \/ inp.eof
         /\ UNCHANGED <<pos, gen, from, fed, flush, shown, eosOut, cur, prevLen,
                        bSaveFlagEOS, reInputData, checkTimeStamp, bConfiguredMFC,
                        bFirstFrame, bDecoderRun, index, buf, tag, ctx, pend, disp>>
         /\ ~bFirstFrame => /\ out' = NoOutput /\ (getAllDelayBuffer' <=> getAllDelayBuffer)
                            /\ inp' = inp
                            /\ pc' = IF bDecoderRun THEN "await" ELSE "read"
         /\ bFirstFrame => pc' = "send"
<1>1. returnCodec = "ok" /\ getAllDelayBuffer \in BOOLEAN
  BY DEF Sure, Clear, HandOver, OneHanded, Calm, Typed, CodecOK
<1>2. QED
  BY <1>1 DEF Begin, Collect, clientVars, threadVars, deviceVars, Flying

\* A tag that is entered is not in use, so the line keeps its entries.
LEMMA LineBegun ==
  ASSUME Sure, Begin, Begins, NEW d \in Nat, NEW x \in Nat, Line(d, x)
  PROVE  Line(d, x)'
<1>1. /\ \A i \in 1 .. Len(pend) : pend[i].tag \in Tags /\ pend[i].tag # tag
      /\ Flying = 1 => ctx.tag \in Tags /\ ctx.tag # tag
      /\ Displayed => disp.tag \in Tags /\ disp.tag # tag
  BY PendTypes, TagFree DEF Sure, Clear
<1>2. Flying' = Flying /\ UNCHANGED <<pend, disp, ctx, buf, from, gen>>
  BY BeginFacts
<1>3. ASSUME NEW t \in Tags, t # tag, NEW j, NEW c, Entry(d, x, j, c, t)
      PROVE  Entry(d, x, j, c, t)'
  BY <1>2, <1>3, BeginTable DEF Entry
<1>4. Flying = 1 => Entry(d, x, 1, Carried, ctx.tag)'
  BY <1>1, <1>2, <1>3 DEF Line, Carried
<1>5. ASSUME NEW i \in 1 .. Len(pend)
      PROVE  Entry(d, x, Place(i), pend[i].c, pend[i].tag)'
  <2>1. Entry(d, x, Place(i), pend[i].c, pend[i].tag)
    BY DEF Line
  <2>2. Place(i)' = Place(i) /\ pend[i]' = pend[i]
    BY <1>2 DEF Place
  <2>3. pend[i].tag \in Tags /\ pend[i].tag # tag
    BY <1>1
  <2>4. /\ timeStamp'[pend[i].tag] = timeStamp[pend[i].tag]
        /\ (nFlags'[pend[i].tag] <=> nFlags[pend[i].tag])
    BY <2>3, BeginTable
  <2>5. QED
    BY <1>2, <2>1, <2>2, <2>4 DEF Entry
<1>6. Displayed' => Entry(d, x, Place(0), disp.c, disp.tag)'
  <2>1. Place(0)' = Place(0) /\ (Displayed' <=> Displayed)
    BY <1>2 DEF Place, Displayed
  <2>2. QED
    BY <1>1, <1>2, <1>3, <2>1 DEF Line, Entry
<1>7. QED
  BY <1>2, <1>4, <1>5, <1>6 DEF Line, Carried

\* The types of the numbers the invariant counts with.
LEMMA NumberTypes ==
  ASSUME Sure
  PROVE  /\ from \in Nat /\ fed \in Nat /\ gen \in Nat /\ Len(shown) \in Nat /\ Len(pend) \in Nat
         /\ Flying \in 0 .. 1 /\ Ahead \in Nat /\ pos \in Nat /\ from >= 1
         /\ Frames \in Nat /\ Delay \in Nat
<1>1. Len(shown) \in Nat
  BY DEF Sure, Clear, Typed, ClientOK
<1>2. /\ from \in Nat /\ fed \in Nat /\ gen \in Nat /\ pos \in Nat /\ from >= 1
      /\ Frames \in Nat /\ Delay \in Nat
  BY MfcDecodeAssumption DEF Sure, Clear, Typed, ClientOK
<1>3. Len(pend) \in Nat /\ Flying \in 0 .. 1
  BY PendTypes, Handing1 DEF Sure, Clear
<1>4. QED
  BY <1>1, <1>2, <1>3 DEF Ahead

\* Nothing is due or lost by the entry.
LEMMA FlowBegun ==
  ASSUME Sure, Begin, Begins, NEW d \in Nat, NEW x \in Nat, Flow(d, x),
         bDecoderRun \/ (x = from /\ d = 0 /\ (checkTimeStamp.set \/ checkTimeStamp.check))
  PROVE  Flow(d, x)' /\ (bDecoderRun => Ahead' = Ahead)
<1>1. /\ pc = "decode" /\ ~bFirstFrame /\ out = NoOutput /\ out' = NoOutput
      /\ pc' = (IF bDecoderRun THEN "await" ELSE "read")
      /\ Flying' = Flying
      /\ UNCHANGED <<from, gen, shown, eosOut, checkTimeStamp, bDecoderRun, pend, disp>>
  BY BeginFacts DEF Begins, Sure, Begun
<1>2. Line(d, x)'
  BY LineBegun DEF Flow
<1>3. bDecoderRun => Ahead' = Ahead
  BY <1>1 DEF Ahead, Unread, Reading, Displayed
<1>4. ~bDecoderRun => Ahead' \in Nat
  <2>1. Ahead' = Flying + Len(pend) + (IF Unread' THEN 1 ELSE 0)
    BY <1>1, Zenon DEF Ahead
  <2> DEFINE u == IF Unread' THEN 1 ELSE 0
  <2>2. u \in 0 .. 1
    OBVIOUS
  <2> HIDE DEF u
  <2>3. Ahead' = Flying + Len(pend) + u
    BY <2>1 DEF u
  <2>4. Flying \in 0 .. 1 /\ Len(pend) \in Nat
    BY NumberTypes
  <2>5. QED
    BY <2>2, <2>3, <2>4
<1>5. ~out.valid /\ ~out.eos /\ ~out'.valid /\ ~out'.eos
  BY <1>1 DEF NoOutput
<1>6. Count(d, x)' = Count(d, x)
  <2>1. CASE bDecoderRun
    BY <1>1, <1>3, <2>1 DEF Count
  <2>2. CASE ~bDecoderRun
    <3>1. x = from /\ d = 0 /\ Ahead \in Nat /\ Ahead' \in Nat /\ from \in Nat /\ from' = from
      BY <1>1, <1>4, <2>2, NumberTypes
    <3>2. ~(x + d - Ahead > from)
      BY <3>1
    <3>a. ~(x + d - Ahead' > from')
      <4> DEFINE a == Ahead'
      <4>1. x = from /\ d = 0 /\ a \in Nat /\ from \in Nat /\ from' = from
        BY <3>1
      <4> HIDE DEF a
      <4>2. ~(x + d - a > from)
        BY <4>1
      <4>3. QED
        BY <4>1, <4>2 DEF a
    <3>3. Count(d, x) = 0
      BY <3>2, Zenon DEF Count
    <3>4. Count(d, x)' = 0
      BY <3>a, Zenon DEF Count
    <3>5. QED
      BY <3>3, <3>4
  <2>3. QED
    BY <2>1, <2>2
<1>7. Delivered(d, x)'
  BY <1>1, <1>5, <1>6 DEF Flow, Delivered, OutFrame
<1>8. Checked(d, x)'
  <2>1. CASE bDecoderRun
    BY <1>1, <1>3, <2>1 DEF Flow, Checked
  <2>2. CASE ~bDecoderRun
    <3>1. checkTimeStamp.set \/ checkTimeStamp.check
      BY <2>2
    <3>2. QED
      BY <1>1, <3>1 DEF Flow, Checked
  <2>3. QED
    BY <2>1, <2>2
<1>9. QED
  BY <1>2, <1>3, <1>7, <1>8 DEF Flow

\* The first frame goes to the device at once.
LEMMA BeginStart ==
  ASSUME Sure, Clear', Begin, Start
  PROVE  (InTurn /\ Begun /\ Stage)'
<1>1. /\ pc = "decode" /\ bFirstFrame /\ pc' = "send" /\ FirstIn /\ ~Begins /\ ~Begins'
      /\ bConfiguredMFC /\ inp.len = 1 /\ inp.time = 1 /\ ~inp.eos /\ inp.eof
      /\ out = NoOutput
  BY BeginFacts DEF Start, Opening, FirstIn, Begins, Sure, Begun
<1>2. /\ Flying' = Flying /\ len' = 1 /\ ~yet' /\ bUseFlagEOF'
      /\ UNCHANGED <<pos, gen, from, fed, flush, shown, eosOut, cur, prevLen,
                     bSaveFlagEOS, reInputData, checkTimeStamp, bConfiguredMFC,
                     bFirstFrame, bDecoderRun, index, buf, tag, ctx, pend, disp>>
  BY <1>1, BeginFacts
<1>3. bSaveFlagEOS \in BOOLEAN /\ ~getAllDelayBuffer
  BY DEF Start, Sure, Clear, Typed, InputOK
<1>4. /\ ~getAllDelayBuffer' /\ ~out'.valid /\ ~out'.eos
      /\ (inp'.eos <=> bSaveFlagEOS) /\ inp'.len = 1 /\ inp'.time = 1 /\ (inp'.cfg <=> inp.cfg)
      /\ inp'.eof
  <2>1. inp' = IF bSaveFlagEOS THEN [inp EXCEPT !.eos = TRUE] ELSE inp
    BY <1>1, <1>3 DEF Begin
  <2>2. /\ (inp'.eos <=> bSaveFlagEOS) /\ inp'.len = 1 /\ inp'.time = 1
        /\ (inp'.cfg <=> inp.cfg) /\ inp'.eof
    BY <1>1, <1>3, <2>1 DEF Sure, Clear, Typed, InputOK
  <2>3. out' = [NoOutput EXCEPT !.time = inp.time, !.eos = FALSE]
    BY <1>1, <1>3 DEF Begin
  <2>4. ~out'.valid /\ ~out'.eos
    BY <2>3 DEF NoOutput
  <2>5. ~getAllDelayBuffer'
    BY <1>1, <1>3 DEF Begin
  <2>6. QED
    BY <2>2, <2>4, <2>5
<1>5. InTurn'
  BY <1>1, <1>2, InTurnKept DEF Sure
<1>6. Begun'
  BY <1>1, <1>2, <1>4 DEF Sure, Begun, Displayed
<1>7. timeStamp'[tag'] = 1 /\ ~nFlags'[tag']
  BY <1>1, <1>2, BeginTable
<1>8. NextIs(2) /\ NextIs(2)'
  BY <1>1, <1>2 DEF FirstIn, NextIs
<1>9. ~eosOut
  BY <1>1 DEF FirstIn
<1>10. FirstIn'
  <2>1. NextIs(IF bConfiguredMFC /\ inp.len = 1 THEN 2 ELSE 1)'
    BY <1>1, <1>2, <1>4, <1>8
  <2>2. buf'[index'] = [gen |-> 0, n |-> 1] /\ (cur'.left => cur'.c.n # Header)
    BY <1>1, <1>2 DEF FirstIn
  <2>3. ~inp.cfg /\ (bSaveFlagEOS => pos = Frames + 2)
    BY <1>1 DEF FirstIn
  <2>4. QED
    BY <1>1, <1>2, <1>4, <1>7, <1>9, <2>1, <2>2, <2>3 DEF FirstIn
<1>11. Start'
  BY <1>1, <1>2, <1>4, <1>10, Zenon DEF Start
<1>12. QED
  BY <1>5, <1>6, <1>11 DEF Stage

\* The later ones wait for the frame before them.
LEMMA BeginStep ==
  ASSUME Sure, Clear', Begin
  PROVE  (InTurn /\ Begun /\ Stage)'
<1>1. CASE Start
  BY <1>1, BeginStart
<1>2. CASE ~Start
  <2>1. Begins /\ ~bFirstFrame /\ pc = "decode"
    <3>1. Begins \/ Seeking
      BY <1>2 DEF Sure, Stage, Feeding, EndTaken, Draining, Finished, Silent, Running
    <3>2. pc = "decode"
      BY BeginFacts
    <3>3. Seeking => ~bFirstFrame
      BY DEF Sure, Begun, Seeking
    <3>4. QED
      BY <3>1, <3>2, <3>3 DEF Begins
  <2>2. /\ len' = inp.len /\ ~yet' /\ Flying' = Flying /\ out' = NoOutput /\ out = NoOutput
        /\ (getAllDelayBuffer' <=> getAllDelayBuffer) /\ bUseFlagEOF'
        /\ pc' = (IF bDecoderRun THEN "await" ELSE "read")
        /\ UNCHANGED <<pos, gen, from, fed, flush, shown, eosOut, cur, prevLen, inp,
                       bSaveFlagEOS, reInputData, checkTimeStamp, bConfiguredMFC,
                       bFirstFrame, bDecoderRun, index, buf, tag, ctx, pend, disp>>
    BY <2>1, BeginFacts DEF Sure, Begun
  <2>3. InTurn'
    BY <2>1, <2>2, InTurnKept DEF Sure, Begins
  <2>4. Begun'
    BY <2>1, <2>2 DEF Sure, Begun, Displayed
  <2>5. /\ timeStamp'[tag'] = inp.time /\ (nFlags'[tag'] <=> inp.eos)
        /\ \A t \in Tags : t # tag => timeStamp'[t] = timeStamp[t] /\ (nFlags'[t] <=> nFlags[t])
    BY <2>2, BeginTable
  <2>6. /\ \A i \in 1 .. Len(pend) : pend[i].tag \in Tags /\ pend[i].tag # tag
        /\ Flying = 1 => ctx.tag \in Tags /\ ctx.tag # tag
        /\ disp.tag \in Tags /\ disp.tag # tag
    BY <2>1, PendTypes, TagFree DEF Sure, Clear, InTurn
  <2>7. ASSUME NEW x \in Nat, Feeding(x) PROVE Feeding(x)'
    <3>1. bDecoderRun \/ (x = from /\ (checkTimeStamp.set \/ checkTimeStamp.check))
      <4>1. x = from \/ x > from
        <5>1. from \in Nat /\ fed \in Nat
          BY NumberTypes
        <5>2. x >= from
          BY <2>7 DEF Feeding
        <5>3. QED
          BY <5>1, <5>2
      <4>2. x > from => bDecoderRun
        BY <2>1, <2>7 DEF Feeding, Handing
      <4>3. x = from => checkTimeStamp.set \/ checkTimeStamp.check
        BY <2>7 DEF Feeding
      <4>4. QED
        BY <4>1, <4>2, <4>3
    <3>2. Flow(0, x)'
      BY <2>1, <2>7, <3>1, FlowBegun DEF Feeding
    <3>3. QED
      BY <2>1, <2>2, <2>5, <2>7, <3>1, <3>2
      DEF Feeding, Running, Begins, Filled, Handing, NextIs, Working
  <2>8. ASSUME NEW x \in Nat, EndTaken(x) PROVE EndTaken(x)'
    <3>1. bDecoderRun \/ (x = from /\ (checkTimeStamp.set \/ checkTimeStamp.check))
      <4>1. x = from \/ x > from
        <5>1. from \in Nat /\ fed \in Nat
          BY NumberTypes
        <5>2. from + fed <= x
          BY <2>8 DEF EndTaken, Over
        <5>3. QED
          BY <5>1, <5>2
      <4>2. x > from => bDecoderRun
        BY <2>1, <2>8 DEF EndTaken, Handing
      <4>3. x = from => checkTimeStamp.set \/ checkTimeStamp.check
        BY <2>8 DEF EndTaken
      <4>4. QED
        BY <4>1, <4>2, <4>3
    <3>2. Flow(0, x)'
      BY <2>1, <2>8, <3>1, FlowBegun DEF EndTaken
    <3>3. QED
      BY <2>1, <2>2, <2>5, <2>8, <3>1, <3>2
      DEF EndTaken, Running, Begins, Filled, Handing, Over
  <2>9. ASSUME NEW x \in Nat, NEW d \in Nat, Draining(d, x) PROVE Draining(d, x)'
    <3>1. bDecoderRun /\ d # 0
      BY <2>1, <2>9 DEF Draining, Handing
    <3>2. Flow(d, x)' /\ Ahead' = Ahead
      BY <2>1, <2>9, <3>1, FlowBegun DEF Draining
    <3>3. QED
      BY <2>1, <2>2, <2>9, <3>1, <3>2 DEF Draining, Running, Begins, Filled, Handing, Over
  <2>10. Finished => Finished'
    BY <2>1, <2>2, <2>5, <2>6 DEF Finished, Running, Begins, Displayed, NoOutput
  <2>11. Silent => Silent'
    BY <2>1, <2>2, <2>5, <2>6 DEF Silent, Running, Begins, Displayed, NoOutput
  <2>12. Seeking => Seeking'
    BY <2>2, <2>5, <2>6 DEF Seeking, Forgotten
  <2>13. QED
    BY <1>2, <2>3, <2>4, <2>7, <2>8, <2>9, <2>10, <2>11, <2>12 DEF Sure, Stage
<1>3. QED
  BY <1>1, <1>2

-----------------------------------------------------------------------------
(* The outcome of a decode is read. *)

\* What Read does when no call has failed.
LEMMA ReadFacts ==
  ASSUME Sure, Read
  PROVE  /\ pc = "read" /\ pc' = "send" /\ Flying = 0 /\ Flying' = 0 /\ ~bFirstFrame
         /\ ~bDecoderRun /\ ~bDecoderRun' /\ out = NoOutput
         /\ out'.time = timeStamp[disp.tag] /\ (out'.eos <=> nFlags[disp.tag])
         /\ out'.c = disp.c /\ (out'.valid <=> Displayed /\ ~nFlags[disp.tag])
         /\ inp'.len = inp.len /\ inp'.time = inp.time /\ ~inp'.eos
         /\ (yet' <=> Again) /\ (Again => index' = Other(index))
         /\ (~Again => index' = index /\ len' = len)
         /\ UNCHANGED <<pos, gen, from, fed, flush, shown, eosOut, cur, prevLen, bUseFlagEOF,
                        bSaveFlagEOS, reInputData, checkTimeStamp, bConfiguredMFC,
                        bFirstFrame, bDecoderRun, buf, tag, timeStamp, nFlags, ctx, pend, disp>>
<1>1. pc = "read" /\ pc' = "send"
  BY DEF Read
<1>2. Flying = 0 /\ ~bDecoderRun /\ ~bFirstFrame
  <2>1. Flying = 0 /\ ~bDecoderRun
    BY <1>1, Handing1 DEF Sure
  <2>2. ~bFirstFrame
    BY <1>1 DEF Sure, Begun, Stage, Start, Feeding, EndTaken, Draining, Finished, Silent,
                Seeking, Running, Begins
  <2>3. QED
    BY <2>1, <2>2
<1>3. UNCHANGED <<pos, gen, from, fed, flush, shown, eosOut, cur, prevLen, bUseFlagEOF,
                        bSaveFlagEOS, reInputData, checkTimeStamp, bConfiguredMFC,
                        bFirstFrame, bDecoderRun, buf, tag, timeStamp, nFlags, ctx, pend, disp>>
  BY DEF Read, clientVars, threadVars, deviceVars
<1>4. Flying' = 0
  BY <1>2 DEF Read, threadVars, Flying
<1>5. nFlags[disp.tag] \in BOOLEAN /\ inp.eos \in BOOLEAN /\ disp.status \in {"decoding", "display"}
      /\ inp \in [len : 0 .. 1, time : Times, eos : BOOLEAN, eof : BOOLEAN, cfg : BOOLEAN]
  BY PendTypes DEF Sure, Clear, Typed, CodecOK, InputOK, InTurn
<1>6. out' = [time |-> timeStamp[disp.tag], eos |-> nFlags[disp.tag], c |-> disp.c,
             valid |-> disp.status # "decoding" /\ ~nFlags[disp.tag]]
  BY DEF Read, OutFlag
<1>7. /\ out'.time = timeStamp[disp.tag] /\ (out'.eos <=> nFlags[disp.tag])
      /\ out'.c = disp.c /\ (out'.valid <=> Displayed /\ ~nFlags[disp.tag])
  BY <1>5, <1>6 DEF Displayed
<1>8. inp' = IF Ending THEN [inp EXCEPT !.eos = FALSE] ELSE inp
  BY DEF Read
<1>9. inp'.len = inp.len /\ inp'.time = inp.time /\ ~inp'.eos
  <2>1. CASE Ending
    BY <1>5, <1>8, <2>1
  <2>2. CASE ~Ending
    BY <1>5, <1>8, <2>2 DEF Ending
  <2>3. QED
    BY <2>1, <2>2
<1>11. /\ yet' <=> Again
       /\ Again => index' = Other(index)
       /\ ~Again => index' = index /\ len' = len
  BY DEF Read
<1>12. out = NoOutput
  BY <1>1 DEF Sure, Begun
<1>13. QED
  BY <1>1, <1>2, <1>3, <1>4, <1>7, <1>9, <1>11, <1>12

\* When the draining of the device begins and ends.
LEMMA ReadDrains ==
  ASSUME Sure, Read
  PROVE  /\ getAllDelayBuffer' <=> Ending \/ (getAllDelayBuffer /\ ~nFlags[disp.tag])
         /\ Ending <=> inp.eos \/ (~Displayed /\ (bSaveFlagEOS \/ getAllDelayBuffer))
         /\ Again <=> Ending \/ (~nFlags[disp.tag] /\ Displayed /\ getAllDelayBuffer)
BY DEF Read, Ending, Again, OutFlag, Displayed, Sure, InTurn

\* The first frame is still held back as long as none has been shown.
LEMMA ReadNone ==
  ASSUME Sure, Read, ~Displayed, NEW d \in Nat, NEW x \in Nat, Flow(d, x), Begins,
         x >= from, x = from => checkTimeStamp.set \/ checkTimeStamp.check
  PROVE  ~nFlags[disp.tag] /\ d < Len(pend)
<1>1. /\ from \in Nat /\ Len(pend) \in Nat /\ Flying = 0 /\ tag \in Tags /\ tag \in Nat
      /\ out = NoOutput
  BY NumberTypes, PendTypes, ReadFacts DEF Sure, Clear, Tags
<1>2. shown = <<>> /\ gen = 0
  BY DEF Sure, Begun, Clear, Typed, ClientOK
<1>3. ~(checkTimeStamp.set \/ checkTimeStamp.check)
  BY <1>2 DEF Flow, Checked
<1>4. x > from
  BY <1>1, <1>3
<1>5. Ahead = Len(pend)
  BY <1>1 DEF Ahead, Unread
<1>6. x + d - Ahead >= from
  BY <1>3 DEF Flow, Checked
<1>7. ~OutFrame
  BY <1>1 DEF OutFrame, NoOutput
<1>8. ~(x + d - Ahead > from)
  <2>1. Count(d, x) = 0
    BY <1>2, <1>7 DEF Flow, Delivered
  <2>2. Ahead \in Nat
    BY <1>1, <1>5
  <2>3. QED
    BY <1>1, <2>1, <2>2 DEF Count
<1>9. d < Len(pend)
  BY <1>1, <1>4, <1>5, <1>6, <1>8
<1>10. disp.tag = 0 /\ tag = Len(pend) /\ 1 \in 1 .. Len(pend)
  BY <1>1, <1>9 DEF Sure, InTurn
<1>11. Place(1) = Len(pend)
  BY <1>1 DEF Place
<1>12. pend[1].tag = 0
  <2>1. pend[1].tag = BackTag(tag, Place(1))
    BY <1>10 DEF Sure, InTurn
  <2>2. QED
    BY <1>1, <1>10, <1>11, <2>1 DEF BackTag
<1>13. Entry(d, x, Place(1), pend[1].c, pend[1].tag)
  BY <1>10 DEF Flow, Line
<1>14. ~nFlags[0]
  BY <1>1, <1>9, <1>11, <1>12, <1>13 DEF Entry
<1>15. QED
  BY <1>9, <1>10, <1>14

\* The line stays as it is when the outcome is read.
LEMMA LineRead ==
  ASSUME Sure, Read, NEW d \in Nat, NEW x \in Nat, Line(d, x)
  PROVE  Line(d, x)'
<1>1. Flying' = Flying /\ UNCHANGED <<pend, disp, ctx, buf, timeStamp, nFlags, from, gen>>
  BY ReadFacts
<1>2. QED
  BY <1>1, LineKept

\* The picture that is read is the one due next, or none is due.
LEMMA FlowRead ==
  ASSUME Sure, Read, NEW d \in Nat, NEW x \in Nat, Flow(d, x), Begins, d <= Ahead,
         x >= from, x = from => checkTimeStamp.set \/ checkTimeStamp.check,
         ~Displayed \/ ~nFlags[disp.tag]
  PROVE  Flow(d, x)' /\ ~nFlags[disp.tag] /\ d <= Ahead'
<1>1. /\ from \in Nat /\ Len(pend) \in Nat /\ Flying = 0 /\ Len(shown) \in Nat
      /\ ~bDecoderRun /\ pc = "read" /\ out = NoOutput /\ from >= 1
  BY NumberTypes, ReadFacts
<1>2. Line(d, x)'
  BY LineRead DEF Flow
<1>3. Ahead' = Len(pend) /\ Ahead = Len(pend) + (IF Displayed THEN 1 ELSE 0)
  BY <1>1, ReadFacts DEF Ahead, Unread, Reading, Displayed
<1>4. ~OutFrame /\ ~eosOut
  BY <1>1 DEF OutFrame, NoOutput, Flow, Delivered
<1>5. Len(shown) = Count(d, x)
  BY <1>1, <1>4 DEF Flow, Delivered
<1>6. UNCHANGED <<from, gen, shown, eosOut, checkTimeStamp, disp>>
  BY ReadFacts
<1>7. CASE ~Displayed
  <2>1. ~nFlags[disp.tag] /\ d < Len(pend)
    BY <1>7, ReadNone
  <2>2. ~out'.valid /\ ~out'.eos
    BY <1>7, <2>1, ReadFacts
  <2>3. Ahead' = Ahead
    BY <1>1, <1>3, <1>7
  <2>4. Delivered(d, x)'
    <3>1. ~OutFrame'
      BY <2>2 DEF OutFrame
    <3>2. Count(d, x)' = Count(d, x)
      BY <1>6, <2>3 DEF Count
    <3>3. QED
      BY <1>1, <1>4, <1>5, <1>6, <2>2, <3>1, <3>2 DEF Delivered
  <2>5. Checked(d, x)'
    BY <1>6, <2>3 DEF Flow, Checked
  <2>6. QED
    BY <1>1, <1>2, <1>3, <2>1, <2>4, <2>5 DEF Flow
<1>8. CASE Displayed
  <2>1. ~nFlags[disp.tag] /\ Place(0) = Len(pend) + 1 /\ Ahead = Len(pend) + 1
    BY <1>1, <1>3, <1>8 DEF Place
  <2>2. Entry(d, x, Len(pend) + 1, disp.c, disp.tag)
    BY <1>8, <2>1 DEF Flow, Line
  <2>3. d < Len(pend) + 1
    BY <1>1, <2>1, <2>2 DEF Entry
  <2>4. /\ out'.valid /\ ~out'.eos /\ out'.time = timeStamp[disp.tag] /\ out'.c = disp.c
    BY <1>8, <2>1, ReadFacts
  <2>5. CASE x + d - (Len(pend) + 1) >= from
    <3> DEFINE n == x + d - (Len(pend) + 1)
    <3>1. n \in Nat /\ n >= from
      BY <1>1, <2>5
    <3>2. disp.c = [gen |-> gen, n |-> n] /\ timeStamp[disp.tag] = n
      BY <2>2, <2>3, <2>5 DEF Entry
    <3>3. n = x + d - Ahead /\ n + 1 = x + d - Ahead'
      BY <1>1, <1>3, <2>1
    <3>a. Ahead \in Nat
      BY <1>1, <2>1
    <3> HIDE DEF n
    <3>4. n # NoTime
      BY <3>1 DEF NoTime
    <3>5. OutFrame'
      BY <2>4, <3>2, <3>4 DEF OutFrame
    <3>6. Count(d, x) = n - from
      BY <1>1, <3>1, <3>3, <3>a DEF Count
    <3>7. Count(d, x)' = n + 1 - from
      <4>1. n + 1 > from
        BY <1>1, <3>1
      <4>2. x + d - Ahead' > from' /\ x + d - Ahead' - from' = n + 1 - from
        <5> DEFINE a == Ahead'
        <5>1. n + 1 = x + d - a /\ from' = from /\ a \in Nat
          BY <1>1, <1>3, <1>6, <3>3
        <5> HIDE DEF a
        <5>2. x + d - a > from /\ x + d - a - from = n + 1 - from
          BY <1>1, <3>1, <4>1, <5>1
        <5>3. QED
          BY <5>1, <5>2 DEF a
      <4>3. QED
        BY <4>2, Zenon DEF Count
    <3>8. Delivered(d, x)'
      <4>1. n = from + Len(shown) /\ Len(shown) + 1 = n + 1 - from
        BY <1>1, <1>5, <3>1, <3>6
      <4>2. Len(shown)' + (IF OutFrame' THEN 1 ELSE 0) = Count(d, x)'
        BY <1>6, <3>5, <3>7, <4>1
      <4>3. out'.time = from' + Len(shown)' /\ out'.c = [gen |-> gen', n |-> out'.time]
        BY <1>6, <2>4, <3>2, <4>1
      <4>4. QED
        BY <1>4, <1>6, <2>4, <3>5, <4>2, <4>3 DEF Delivered
    <3>9. Checked(d, x)'
      <4>1. n + 1 >= from
        BY <1>1, <3>1
      <4>2. x + d - Ahead' >= from'
        BY <1>6, <3>3, <4>1
      <4>3. QED
        BY <1>6, <4>2 DEF Flow, Checked
    <3>10. QED
      BY <1>1, <1>2, <1>3, <2>1, <2>3, <3>8, <3>9 DEF Flow
  <2>6. CASE ~(x + d - (Len(pend) + 1) >= from)
    <3>1. timeStamp[disp.tag] = NoTime
      BY <2>2, <2>3, <2>6 DEF Entry
    <3>2. ~OutFrame'
      BY <2>4, <3>1 DEF OutFrame
    <3>3. checkTimeStamp.set \/ checkTimeStamp.check
      BY <2>1, <2>6 DEF Flow, Checked
    <3>4. ~(x + d - Ahead > from) /\ ~(x + d - Ahead' > from)
      BY <1>1, <1>3, <2>1, <2>6
    <3>5. Count(d, x) = 0
      BY <3>4, Zenon DEF Count
    <3>6. Count(d, x)' = 0
      BY <1>6, <3>4, Zenon DEF Count
    <3>7. Delivered(d, x)'
      BY <1>1, <1>4, <1>5, <1>6, <2>4, <3>2, <3>3, <3>5, <3>6 DEF Delivered
    <3>8. Checked(d, x)'
      BY <1>6, <3>3 DEF Flow, Checked
    <3>9. QED
      BY <1>1, <1>2, <1>3, <2>1, <2>3, <3>7, <3>8 DEF Flow
  <2>7. QED
    BY <2>5, <2>6
<1>9. QED
  BY <1>7, <1>8

\* The picture of the end of the stream ends the draining.
LEMMA ReadStep ==
  ASSUME Sure, Clear', Read
  PROVE  (InTurn /\ Begun /\ Stage)'
<1>1. /\ pc = "read" /\ pc' = "send" /\ Flying = 0 /\ Flying' = 0 /\ ~bFirstFrame
      /\ ~bDecoderRun /\ ~bDecoderRun'
      /\ (out'.eos <=> nFlags[disp.tag]) /\ (out'.valid <=> Displayed /\ ~nFlags[disp.tag])
      /\ inp'.len = inp.len /\ inp'.time = inp.time /\ ~inp'.eos
      /\ (yet' <=> Again) /\ (Again => index' = Other(index))
      /\ (~Again => index' = index /\ len' = len)
      /\ UNCHANGED <<pos, gen, from, fed, flush, shown, eosOut, cur, prevLen, bUseFlagEOF,
                     bSaveFlagEOS, reInputData, checkTimeStamp, bConfiguredMFC,
                     bFirstFrame, bDecoderRun, buf, tag, timeStamp, nFlags, ctx, pend, disp>>
  BY ReadFacts
<1>2. Begins /\ Begins' /\ (Displayed' <=> Displayed) /\ ~Start
  BY <1>1 DEF Begins, Displayed, Start
<1>3. InTurn'
  BY <1>1, <1>2, InTurnKept DEF Sure
<1>4. Begun'
  BY <1>1, <1>2 DEF Sure, Begun
<1>5. ASSUME NEW x \in Nat, Feeding(x) PROVE Feeding(x)'
  <2>1. x >= from /\ (x = from => checkTimeStamp.set \/ checkTimeStamp.check)
    BY <1>5 DEF Feeding
  <2>2. 0 <= Ahead
    BY NumberTypes
  <2>3. ~Displayed \/ ~nFlags[disp.tag]
    <3>1. Displayed => Entry(0, x, Place(0), disp.c, disp.tag)
      BY <1>5 DEF Feeding, Flow, Line
    <3>2. Place(0) > 0
      BY <1>1, NumberTypes DEF Place
    <3>3. QED
      BY <3>1, <3>2 DEF Entry
  <2>4. Flow(0, x)' /\ ~nFlags[disp.tag]
    BY <1>2, <1>5, <2>1, <2>2, <2>3, FlowRead DEF Feeding
  <2>5. ~Again
    BY <1>5, ReadDrains DEF Feeding
  <2>6. buf[index] = [gen |-> gen, n |-> x] => buf[index] # Blank
    BY DEF Blank
  <2>7. /\ inp.len = 1 => inp.time = x /\ buf[index] = [gen |-> gen, n |-> x]
                          /\ timeStamp[tag] = x /\ ~nFlags[tag] /\ len = 1
        /\ inp.len = 0 => x = from /\ ~cur.valid
        /\ ~bSaveFlagEOS /\ ~getAllDelayBuffer /\ ~inp.eos
        /\ x = from => IF inp.len = 0 THEN checkTimeStamp.set
                       ELSE checkTimeStamp.check /\ ~checkTimeStamp.eos
        /\ x >= from /\ (gen = 0 => x > from)
        /\ NextIs(IF inp.len = 1 THEN x + 1 ELSE x)
        /\ Running
    BY <1>1, <1>5 DEF Feeding, Working
  <2>8. inp.len \in 0 .. 1 /\ from \in Nat
    BY NumberTypes DEF Sure, Clear, Typed, InputOK
  <2>9. (x > from => Filled /\ Handing)'
    <3>1. x > from => inp.len = 1
      BY <2>7, <2>8
    <3>2. x > from => buf[index] # Blank
      BY <2>6, <2>7, <3>1
    <3>3. QED
      BY <1>1, <2>5, <3>2 DEF Filled, Handing
  <2>10. ~getAllDelayBuffer'
    BY <1>5, ReadDrains DEF Feeding
  <2>11. NextIs(IF inp.len = 1 THEN x + 1 ELSE x)'
    BY <1>1, <2>7 DEF NextIs
  <2>12. QED
    BY <1>1, <1>2, <2>4, <2>5, <2>7, <2>9, <2>10, <2>11 DEF Feeding, Running, Working
<1>6. ASSUME NEW x \in Nat, EndTaken(x) PROVE Draining(0, x)'
  <2>1. x >= from
    <3>1. from + fed <= x
      BY <1>6 DEF EndTaken, Over
    <3>2. from \in Nat /\ fed \in Nat
      BY NumberTypes
    <3>3. QED
      BY <3>1, <3>2
  <2>2. 0 <= Ahead
    BY NumberTypes
  <2>3. ~Displayed \/ ~nFlags[disp.tag]
    <3>1. Displayed => Entry(0, x, Place(0), disp.c, disp.tag)
      BY <1>6 DEF EndTaken, Flow, Line
    <3>2. Place(0) > 0
      BY <1>1, NumberTypes DEF Place
    <3>3. QED
      BY <3>1, <3>2 DEF Entry
  <2>4. Flow(0, x)' /\ 0 <= Ahead'
    BY <1>2, <1>6, <2>1, <2>2, <2>3, FlowRead DEF EndTaken
  <2>5. Again /\ getAllDelayBuffer' /\ nFlags[tag] /\ inp.len = 1
    BY <1>1, <1>6, ReadDrains DEF EndTaken
  <2>6. x = from \/ Filled
    <3>1. from \in Nat
      BY NumberTypes
    <3>2. x = from \/ x > from
      BY <2>1, <3>1
    <3>3. QED
      BY <1>6, <3>2 DEF EndTaken
  <2>7. (Filled \/ x = from)'
    BY <1>1, <2>5, <2>6 DEF Filled
  <2>8. Over(x)' /\ Running'
    BY <1>1, <1>2, <1>6 DEF EndTaken, Over, Running
  <2>9. QED
    BY <1>1, <1>6, <2>4, <2>5, <2>7, <2>8 DEF Draining, EndTaken, Handing
<1>7. ASSUME NEW x \in Nat, NEW d \in Nat, Draining(d, x) PROVE Draining(d, x)' \/ Finished'
  <2>1. x >= from /\ from + fed <= x /\ from \in Nat /\ fed \in Nat
    <3>1. from + fed <= x
      BY <1>7 DEF Draining, Over
    <3>2. from \in Nat /\ fed \in Nat
      BY NumberTypes
    <3>3. QED
      BY <3>1, <3>2
  <2>2. d # 0 /\ d <= Ahead /\ Flow(d, x)
    BY <1>1, <1>7 DEF Draining
  <2>3. CASE ~Displayed \/ ~nFlags[disp.tag]
    <3>1. Flow(d, x)' /\ ~nFlags[disp.tag] /\ d <= Ahead'
      BY <1>2, <1>7, <2>1, <2>2, <2>3, FlowRead DEF Draining
    <3>2. Again /\ getAllDelayBuffer' /\ inp.len = 1
      BY <1>1, <1>7, <3>1, ReadDrains DEF Draining
    <3>3. Filled'
      BY <1>1, <1>7, <2>2, <3>2 DEF Draining, Filled
    <3>4. Over(x)' /\ Running'
      BY <1>1, <1>2, <1>7 DEF Draining, Over, Running
    <3>5. QED
      BY <1>1, <1>7, <2>2, <3>1, <3>2, <3>3, <3>4 DEF Draining, Handing
  <2>4. CASE Displayed /\ nFlags[disp.tag]
    <3>1. Entry(d, x, Place(0), disp.c, disp.tag)
      BY <2>2, <2>4 DEF Flow, Line
    <3>2. Ahead = Len(pend) + 1 /\ Place(0) = Len(pend) + 1 /\ Len(pend) \in Nat
      BY <1>1, <2>4, NumberTypes DEF Ahead, Unread, Reading, Place
    <3>3. d = Ahead
      BY <2>2, <2>4, <3>1, <3>2 DEF Entry
    <3>4. ~OutFrame
      BY ReadFacts DEF OutFrame, NoOutput
    <3>5. Len(shown) = Count(d, x)
      BY <2>2, <3>4, NumberTypes DEF Flow, Delivered
    <3>6. fed <= Len(shown)
      <4>1. x + d - Ahead = x
        BY <3>2, <3>3
      <4>2. Count(d, x) = IF x > from THEN x - from ELSE 0
        BY <4>1, <2>1, <3>2, <3>3 DEF Count
      <4>3. QED
        BY <2>1, <3>5, <4>2
    <3>7. Finished'
      BY <1>1, <1>2, <1>7, <2>4, <3>6 DEF Finished, Draining, Over, Running
    <3>8. QED
      BY <3>7
  <2>5. QED
    BY <2>3, <2>4
<1>8. Finished => Finished'
  BY <1>1, <1>2 DEF Finished, Running
<1>9. Silent => Silent'
  BY <1>1, <1>2 DEF Silent, Running
<1>10. Seeking => Seeking'
  <2>1. SUFFICES ASSUME Seeking PROVE Seeking'
    OBVIOUS
  <2>2. Displayed
    BY <2>1 DEF Sure, Begun, Seeking
  <2>3. flush = "reset" => ~getAllDelayBuffer'
    BY <2>1, <2>2, ReadDrains DEF Seeking
  <2>4. QED
    BY <1>1, <2>1, <2>3 DEF Seeking, Forgotten
<1>11. QED
  BY <1>2, <1>3, <1>4, <1>5, <1>6, <1>7, <1>8, <1>9, <1>10 DEF Sure, Stage

-----------------------------------------------------------------------------
(* A frame is handed to the decode thread. *)

\* What Send does.
LEMMA SendFacts ==
  ASSUME Sure, Send
  PROVE  /\ pc = "send" /\ pc' = "sent" /\ Flying = 0 /\ Flying' = 1 /\ ~bDecoderRun
         /\ inp.len = 1 /\ buf[index] # Blank /\ ~out.eos
         /\ ctx'.buf = index /\ ctx'.tag = tag /\ ctx'.size = len /\ tag' = NextTag
         /\ UNCHANGED <<pos, gen, from, fed, flush, shown, eosOut, cur, inp, prevLen,
                        bUseFlagEOF, bSaveFlagEOS, reInputData, checkTimeStamp, yet, len, out,
                        bConfiguredMFC, bFirstFrame, getAllDelayBuffer, bDecoderRun, index,
                        buf, timeStamp, nFlags, pend, disp>>
<1>1. pc = "send" /\ pc' = "sent" /\ inp.len > 0 /\ buf[index] # Blank /\ ~out.eos
  BY DEF Send, Submits
<1>2. Flying = 0 /\ ~bDecoderRun /\ inp.len = 1
  BY <1>1, Handing1 DEF Sure, Clear, Typed, InputOK
<1>3. Flying' = 1
  <2>1. hDecFrameStart' = hDecFrameStart + 1 /\ hDecFrameStart \in Nat
    BY DEF Send, Sure, Clear, Typed, ThreadsOK
  <2>2. hDecFrameStart' > 0
    BY <2>1
  <2>3. QED
    BY <2>2 DEF Flying
<1>4. QED
  BY <1>1, <1>2, <1>3 DEF Send, clientVars, portVars, deviceVars

\* The frame takes the place of the one submitted last.
LEMMA SendInTurn ==
  ASSUME Sure, Send
  PROVE  InTurn'
<1>1. /\ Flying = 0 /\ Flying' = 1 /\ pc' = "sent" /\ ctx'.tag = tag /\ tag' = NextTag
      /\ UNCHANGED <<pend, disp>>
  BY SendFacts
<1>2. /\ Len(pend) \in Nat /\ Len(pend) <= Delay /\ tag \in Tags
      /\ Delay \in Nat /\ MAX_TIMESTAMP \in Nat /\ MAX_TIMESTAMP > Delay + 2
  BY PendTypes, MfcDecodeAssumption DEF Sure, Clear, InTurn
<1>3. \A i \in 0 .. Len(pend) : /\ Place(i) \in 1 .. MAX_TIMESTAMP - 2
                                /\ Place(i)' = Place(i) + 1
  BY <1>1, <1>2 DEF Place
<1>4. \A j \in 1 .. MAX_TIMESTAMP - 2 : BackTag(tag', j + 1) = BackTag(tag, j)
  BY <1>1, <1>2, BackTagShift
<1>5. ASSUME NEW i \in 1 .. Len(pend) PROVE pend[i].tag = BackTag(tag', Place(i)')
  <2>1. pend[i].tag = BackTag(tag, Place(i))
    BY DEF Sure, InTurn
  <2>2. QED
    BY <1>3, <1>4, <2>1
<1>6. ctx'.tag = BackTag(tag', 1)
  BY <1>1, <1>2, BackTagShift
<1>7. Displayed => Len(pend) = Delay /\ disp.tag = BackTag(tag', Place(0)')
  <2>1. Displayed => Len(pend) = Delay /\ disp.tag = BackTag(tag, Place(0))
    BY DEF Sure, InTurn
  <2>2. Place(0) \in 1 .. MAX_TIMESTAMP - 2 /\ Place(0)' = Place(0) + 1
    BY <1>2, <1>3
  <2>3. QED
    BY <1>4, <2>1, <2>2
<1>8. ~Displayed => disp.tag = 0 /\ tag' = 1 + Len(pend)
  <2>1. ~Displayed => disp.tag = 0 /\ tag = Len(pend)
    BY <1>1, <1>2 DEF Sure, InTurn
  <2>2. QED
    BY <1>1, <1>2, <2>1, NextTagIs
<1>9. Displayed \/ tag' > 0
  BY <1>2, <1>8
<1>10. Displayed' <=> Displayed
  BY <1>1 DEF Displayed
<1>11. \A i \in 1 .. Len(pend)' : pend[i].tag' = BackTag(tag', Place(i)')
  BY <1>1, <1>5
<1>12. Begins' /\ disp.status \in {"decoding", "display"}
  BY <1>1 DEF Begins, Sure, InTurn
<1>13. QED
  BY <1>1, <1>2, <1>6, <1>7, <1>8, <1>9, <1>10, <1>11, <1>12 DEF InTurn

\* Those before it are one further back.
LEMMA LineSent ==
  ASSUME Sure, Send, NEW d \in Nat, NEW x \in Nat, NEW e \in Nat, NEW y \in Nat, Line(d, x),
         (d = 0 /\ e = 0 /\ y = x + 1) \/ (e = d + 1 /\ y = x),
         e = 0 => /\ buf[index] = [gen |-> gen, n |-> x] /\ len = 1 /\ x >= from
                  /\ timeStamp[tag] = x /\ ~nFlags[tag],
         e = 1 => nFlags[tag]
  PROVE  Line(e, y)'
<1>1. /\ Flying = 0 /\ Flying' = 1 /\ ctx'.buf = index /\ ctx'.size = len /\ ctx'.tag = tag
      /\ UNCHANGED <<pend, disp, buf, timeStamp, nFlags, from, gen>>
  BY SendFacts
<1>2. Len(pend) \in Nat /\ from \in Nat
  BY NumberTypes
<1>3. ASSUME NEW j \in Nat, j >= 1, NEW c, NEW t, Entry(d, x, j, c, t)
      PROVE  Entry(e, y, j + 1, c, t)
  <2>1. y + e - (j + 1) = x + d - j
    OBVIOUS
  <2>2. (j + 1 > e => j > d) /\ (j + 1 = e => j = d)
    BY <1>3
  <2>3. QED
    BY <1>3, <2>1, <2>2 DEF Entry
<1>4. \A i \in 0 .. Len(pend) : Place(i) \in Nat /\ Place(i) >= 1 /\ Place(i)' = Place(i) + 1
  BY <1>1, <1>2 DEF Place
<1>5. Entry(e, y, 1, Carried, ctx.tag)'
  <2>1. CASE e = 0
    <3>1. Carried' = [gen |-> gen, n |-> x]
      BY <1>1, <2>1 DEF Carried
    <3>2. y + e - 1 = x
      BY <2>1
    <3>3. QED
      BY <1>1, <2>1, <3>1, <3>2 DEF Entry
  <2>2. CASE e = 1
    BY <1>1, <2>2 DEF Entry
  <2>3. CASE e > 1
    BY <2>3 DEF Entry
  <2>4. QED
    BY <2>1, <2>2, <2>3
<1>6. ASSUME NEW i \in 1 .. Len(pend)
      PROVE  Entry(e, y, Place(i), pend[i].c, pend[i].tag)'
  <2>1. Entry(d, x, Place(i), pend[i].c, pend[i].tag)
    BY DEF Line
  <2>2. Entry(e, y, Place(i) + 1, pend[i].c, pend[i].tag)
    BY <1>3, <1>4, <2>1
  <2>3. Place(i)' = Place(i) + 1
    BY <1>4
  <2>4. QED
    BY <1>1, <2>2, <2>3 DEF Entry
<1>7. Displayed' => Entry(e, y, Place(0), disp.c, disp.tag)'
  <2>1. SUFFICES ASSUME Displayed' PROVE Entry(e, y, Place(0), disp.c, disp.tag)'
    OBVIOUS
  <2>2. Entry(d, x, Place(0), disp.c, disp.tag)
    BY <1>1, <2>1 DEF Line, Displayed
  <2>3. Place(0) \in Nat /\ Place(0) >= 1 /\ Place(0)' = Place(0) + 1
    BY <1>2, <1>4
  <2>4. Entry(e, y, Place(0) + 1, disp.c, disp.tag)
    BY <1>3, <2>2, <2>3
  <2>5. QED
    BY <1>1, <2>3, <2>4 DEF Entry
<1>8. QED
  BY <1>1, <1>5, <1>6, <1>7 DEF Line

\* One more frame is ahead.
LEMMA AheadSent ==
  ASSUME Sure, Send
  PROVE  Ahead = Len(pend) /\ Ahead' = Len(pend) + 1 /\ Len(pend) \in Nat
<1>1. /\ Flying = 0 /\ Flying' = 1 /\ pc = "send" /\ ~bDecoderRun /\ pend' = pend
  BY SendFacts
<1>2. Len(pend) \in Nat
  BY NumberTypes
<1>3. ~Unread /\ ~Unread'
  BY <1>1 DEF Unread, Reading
<1>4. Ahead = 0 + Len(pend) + 0 /\ Ahead' = 1 + Len(pend) + 0
  BY <1>1, <1>3, Zenon DEF Ahead
<1>5. QED
  BY <1>2, <1>4

\* What is due is what was due.
LEMMA FlowSent ==
  ASSUME Sure, Send, NEW d \in Nat, NEW x \in Nat, NEW e \in Nat, NEW y \in Nat, Flow(d, x),
         (d = 0 /\ e = 0 /\ y = x + 1) \/ (e = d + 1 /\ y = x),
         e = 0 => /\ buf[index] = [gen |-> gen, n |-> x] /\ len = 1 /\ x >= from
                  /\ timeStamp[tag] = x /\ ~nFlags[tag],
         e = 1 => nFlags[tag],
         ~checkTimeStamp.set, checkTimeStamp.check /\ checkTimeStamp.eos => y = from
  PROVE  Flow(e, y)'
<1>1. UNCHANGED <<from, gen, shown, eosOut, checkTimeStamp, out>>
  BY SendFacts
<1>2. Line(e, y)'
  BY LineSent DEF Flow
<1>3. x + d - Ahead = y + e - Ahead'
  <2>1. Ahead = Len(pend) /\ Ahead' = Len(pend) + 1 /\ Len(pend) \in Nat
    BY AheadSent
  <2>2. x + d - Len(pend) = y + e - (Len(pend) + 1)
    <3> DEFINE p == Len(pend)
    <3>1. p \in Nat
      BY <2>1
    <3> HIDE DEF p
    <3>2. y + e = x + d + 1
      OBVIOUS
    <3>3. x + d - p = y + e - (p + 1)
      BY <3>1, <3>2
    <3>4. QED
      BY <3>3 DEF p
  <2>3. QED
    BY <2>1, <2>2
<1>4. Count(e, y)' = Count(d, x)
  <2>1. from' = from
    BY <1>1
  <2>2. CASE x + d - Ahead > from
    <3>1. y + e - Ahead' > from'
      BY <1>3, <2>1, <2>2
    <3>2. Count(d, x) = x + d - Ahead - from
      BY <2>2, Zenon DEF Count
    <3>3. Count(e, y)' = y + e - Ahead' - from'
      BY <3>1, Zenon DEF Count
    <3>4. x + d - Ahead - from = y + e - Ahead' - from
      <4> DEFINE a == Ahead
                 b == Ahead'
      <4>1. a \in Nat /\ b \in Nat /\ x + d - a = y + e - b /\ from \in Nat
        BY <1>3, NumberTypes, AheadSent
      <4> HIDE DEF a, b
      <4>2. x + d - a - from = y + e - b - from
        BY <4>1
      <4>3. QED
        BY <4>2 DEF a, b
    <3>5. QED
      BY <2>1, <3>2, <3>3, <3>4
  <2>3. CASE ~(x + d - Ahead > from)
    <3>1. ~(y + e - Ahead' > from')
      BY <1>3, <2>1, <2>3
    <3>2. Count(d, x) = 0
      BY <2>3, Zenon DEF Count
    <3>3. Count(e, y)' = 0
      BY <3>1, Zenon DEF Count
    <3>4. QED
      BY <3>2, <3>3
  <2>4. QED
    BY <2>2, <2>3
<1>5. Delivered(e, y)'
  BY <1>1, <1>4 DEF Flow, Delivered, OutFrame
<1>6. Checked(e, y)'
  <2>1. IF checkTimeStamp.set \/ checkTimeStamp.check THEN gen > 0 ELSE x + d - Ahead >= from
    BY DEF Flow, Checked
  <2>2. IF checkTimeStamp.set' \/ checkTimeStamp.check' THEN gen' > 0
        ELSE y + e - Ahead' >= from'
    BY <1>1, <1>3, <2>1
  <2>3. checkTimeStamp.check => shown = <<>> /\ checkTimeStamp.time = from
    BY DEF Flow, Checked
  <2>4. QED
    BY <1>1, <2>2, <2>3 DEF Checked
<1>7. QED
  BY <1>2, <1>5, <1>6 DEF Flow

\* The first frame is handed over.
LEMMA SendStart ==
  ASSUME Sure, Clear', Send, Start
  PROVE  Feeding(2)' \/ EndTaken(2)'
<1>1. /\ pc = "send" /\ pc' = "sent" /\ Flying = 0 /\ Flying' = 1
      /\ inp.len = 1 /\ buf[index] # Blank /\ ~out.eos
      /\ UNCHANGED <<pos, gen, from, fed, flush, shown, eosOut, cur, inp, prevLen,
                     bUseFlagEOF, bSaveFlagEOS, reInputData, checkTimeStamp, yet, len, out,
                     bConfiguredMFC, bFirstFrame, getAllDelayBuffer, bDecoderRun, index,
                     buf, timeStamp, nFlags, pend, disp>>
  BY SendFacts
<1>2. /\ bFirstFrame /\ gen = 0 /\ from = 1 /\ flush = "none" /\ shown = <<>> /\ FirstIn
      /\ ~checkTimeStamp.set /\ ~checkTimeStamp.check /\ ~yet /\ ~getAllDelayBuffer /\ ~out.valid
  BY <1>1 DEF Start, Opening
<1>3. bConfiguredMFC /\ ~Begins /\ Begins'
  BY <1>1, <1>2 DEF Sure, Begun, Begins
<1>4. /\ NextIs(2) /\ inp.time = 1 /\ buf[index] = [gen |-> gen, n |-> 1]
      /\ ~eosOut /\ (bSaveFlagEOS => pos = Frames + 2)
      /\ len = 1 /\ timeStamp[tag] = 1 /\ ~nFlags[tag] /\ (inp.eos <=> bSaveFlagEOS)
  BY <1>1, <1>2, <1>3 DEF FirstIn
<1>5. ~Displayed /\ Len(pend) = 0 /\ Ahead = 0
  <2>1. ~Displayed /\ tag = 0 /\ tag = 0 + Len(pend)
    BY <1>1, <1>3 DEF Sure, InTurn
  <2>2. QED
    BY <2>1, AheadSent
<1>6. Flow(0, 1)
  <2>1. Line(0, 1)
    BY <1>1, <1>5 DEF Line
  <2>2. Delivered(0, 1)
    <3>1. ~OutFrame /\ Len(shown) = 0
      BY <1>2 DEF OutFrame
    <3>2. ~(1 + 0 - Ahead > from)
      BY <1>2, <1>5
    <3>3. Count(0, 1) = 0
      BY <3>2, Zenon DEF Count
    <3>4. QED
      BY <1>1, <1>2, <1>4, <3>1, <3>3 DEF Delivered
  <2>3. Checked(0, 1)
    BY <1>2, <1>5 DEF Checked
  <2>4. QED
    BY <2>1, <2>2, <2>3 DEF Flow
<1>7. Flow(0, 2)'
  BY <1>2, <1>4, <1>6, FlowSent
<1>8. Running' /\ Filled' /\ Handing'
  BY <1>1, <1>2, <1>3 DEF Running, Filled, Handing
<1>9. CASE ~bSaveFlagEOS
  <2>1. NextIs(2)'
    BY <1>1, <1>4 DEF NextIs
  <2>2. ~inp.eos
    BY <1>4, <1>9
  <2>3. Feeding(2)'
    BY <1>1, <1>2, <1>7, <1>8, <1>9, <2>1, <2>2 DEF Feeding, Working
  <2>4. QED
    BY <2>3
<1>10. CASE bSaveFlagEOS
  <2>1. from + fed <= 2 /\ pos = Frames + 2
    <3>1. pos = Frames + 2
      BY <1>4, <1>10
    <3>2. ~(cur.left /\ ~cur.eos)
      BY <1>4, <3>1, NumberTypes DEF NextIs
    <3>3. QED
      BY <1>4, <3>1, <3>2 DEF NextIs
  <2>2. Over(2)'
    BY <1>1, <2>1 DEF Over
  <2>3. EndTaken(2)'
    BY <1>1, <1>2, <1>4, <1>7, <1>8, <1>10, <2>2 DEF EndTaken
  <2>4. QED
    BY <2>3
<1>11. QED
  BY <1>9, <1>10

\* A frame fed is one more of the stream, one sent again one more of the draining.
LEMMA SendStep ==
  ASSUME Sure, Clear', Send
  PROVE  (InTurn /\ Begun /\ Stage)'
<1>1. /\ pc = "send" /\ pc' = "sent" /\ Flying = 0 /\ Flying' = 1 /\ ~bDecoderRun
      /\ inp.len = 1 /\ buf[index] # Blank /\ ~out.eos
      /\ ctx'.buf = index /\ ctx'.tag = tag /\ ctx'.size = len
      /\ UNCHANGED <<pos, gen, from, fed, flush, shown, eosOut, cur, inp, prevLen,
                     bUseFlagEOF, bSaveFlagEOS, reInputData, checkTimeStamp, yet, len, out,
                     bConfiguredMFC, bFirstFrame, getAllDelayBuffer, bDecoderRun, index,
                     buf, timeStamp, nFlags, pend, disp>>
  BY SendFacts
<1>2. Begins' /\ (Displayed' <=> Displayed)
  BY <1>1 DEF Begins, Displayed
<1>3. InTurn'
  BY SendInTurn
<1>4. Begun'
  BY <1>1, <1>2 DEF Sure, Begun
<1>5. CASE Start
  BY <1>3, <1>4, <1>5, SendStart DEF Stage
<1>a. Filled' /\ Handing'
  BY <1>1 DEF Filled, Handing
<1>6. ASSUME NEW x \in Nat, Feeding(x) PROVE Feeding(x + 1)'
  <2>1. /\ inp.time = x /\ buf[index] = [gen |-> gen, n |-> x] /\ len = 1
        /\ timeStamp[tag] = x /\ ~nFlags[tag] /\ x >= from /\ NextIs(x + 1)
        /\ Flow(0, x) /\ Running /\ ~bSaveFlagEOS /\ ~getAllDelayBuffer /\ ~inp.eos /\ ~yet
        /\ x = from => checkTimeStamp.check /\ ~checkTimeStamp.eos
    BY <1>1, <1>6 DEF Feeding, Working
  <2>2. ~checkTimeStamp.set /\ ~(checkTimeStamp.check /\ checkTimeStamp.eos)
    BY <2>1 DEF Flow, Checked
  <2>3. Flow(0, x + 1)'
    BY <2>1, <2>2, FlowSent
  <2>4. x + 1 > from /\ x + 1 # from /\ x + 1 >= from
    <3>1. x >= from
      BY <2>1
    <3>2. from \in Nat
      BY NumberTypes
    <3>3. QED
      BY <3>1, <3>2
  <2>5. NextIs(x + 1)'
    BY <1>1, <2>1 DEF NextIs
  <2>6. Running'
    BY <1>1, <1>2, <2>1 DEF Running
  <2>7. x + 1 > from' /\ x + 1 # from' /\ x + 1 >= from'
    BY <1>1, <2>4
  <2>8. QED
    BY <1>1, <1>a, <2>1, <2>3, <2>5, <2>6, <2>7 DEF Feeding, Working
<1>7. ~(\E x \in Nat : EndTaken(x))
  BY <1>1 DEF EndTaken
<1>8. ASSUME NEW x \in Nat, NEW d \in Nat, Draining(d, x) PROVE Draining(d + 1, x)'
  <2>1. /\ Flow(d, x) /\ Running /\ Over(x) /\ ~inp.eos /\ getAllDelayBuffer /\ d <= Ahead /\ yet
        /\ d = 0 => nFlags[tag]
        /\ x = from => checkTimeStamp.check /\ checkTimeStamp.eos /\ ~cur.valid
    BY <1>1, <1>8 DEF Draining
  <2>2. ~checkTimeStamp.set /\ (checkTimeStamp.check /\ checkTimeStamp.eos => x = from)
    BY <2>1 DEF Flow, Checked
  <2>3. d + 1 \in Nat /\ d + 1 # 0 /\ (d + 1 = 1 => d = 0)
    OBVIOUS
  <2>4. Flow(d + 1, x)'
    BY <2>1, <2>2, <2>3, FlowSent
  <2>5. d + 1 <= Ahead'
    BY <2>1, AheadSent
  <2>6. Running' /\ Over(x)'
    BY <1>1, <1>2, <2>1 DEF Running, Over
  <2>7. QED
    BY <1>1, <1>a, <2>1, <2>3, <2>4, <2>5, <2>6 DEF Draining
<1>9. ~Finished
  BY <1>1 DEF Finished
<1>10. Silent => Silent'
  BY <1>1, <1>2 DEF Silent, Running
<1>11. Seeking => Seeking'
  BY <1>1 DEF Seeking
<1>12. (\E x \in Nat : Feeding(x)) => (\E x \in Nat : Feeding(x)')
  <2>1. \A x \in Nat : x + 1 \in Nat
    OBVIOUS
  <2>2. QED
    BY <1>6, <2>1
<1>13. (\E x \in Nat, d \in Nat : Draining(d, x)) => (\E x \in Nat, d \in Nat : Draining(d, x)')
  <2>1. \A x \in Nat : x + 1 \in Nat
    OBVIOUS
  <2>2. QED
    BY <1>8, <2>1
<1>14. QED
  BY <1>3, <1>4, <1>5, <1>7, <1>9, <1>10, <1>11, <1>12, <1>13 DEF Sure, Stage

-----------------------------------------------------------------------------
(* The input is concluded. *)

\* The input is kept, or its length remembered.
LEMMA ConcludeFacts ==
  ASSUME Sure, NEW a \in BOOLEAN, Conclude(a)
  PROVE  /\ pc' = "done" /\ (yet' <=> a) /\ inp'.time = inp.time /\ (inp'.eos <=> inp.eos)
         /\ (inp'.eof <=> inp.eof) /\ (inp'.cfg <=> inp.cfg)
         /\ a => inp'.len = inp.len /\ prevLen' = prevLen
         /\ ~a => inp'.len = 0 /\ prevLen' = inp.len
         /\ inp.len = 0 => inp'.len = 0
<1>1. inp \in [len : 0 .. 1, time : Times, eos : BOOLEAN, eof : BOOLEAN, cfg : BOOLEAN]
  BY DEF Sure, Clear, Typed, InputOK
<1>2. CASE a
  BY <1>2 DEF Conclude
<1>3. CASE ~a
  <2>1. inp' = [inp EXCEPT !.len = 0] /\ prevLen' = inp.len /\ pc' = "done" /\ ~yet'
    BY <1>3 DEF Conclude
  <2>2. inp'.len = 0 /\ inp'.time = inp.time /\ inp'.eos = inp.eos /\ inp'.eof = inp.eof
        /\ inp'.cfg = inp.cfg
    BY <1>1, <2>1
  <2>3. QED
    BY <1>3, <2>1, <2>2
<1>4. QED
  BY <1>2, <1>3

\* The decode thread has it when the input is concluded.
LEMMA SentStep ==
  ASSUME Sure, Clear', Sent
  PROVE  (InTurn /\ Begun /\ Stage)'
<1> DEFINE again == yet \/ (bSaveFlagEOS /\ bFirstFrame /\ ~out.valid)
<1>a. again \in BOOLEAN /\ Conclude(again)
  BY DEF Sent
<1>b. again <=> yet \/ (bSaveFlagEOS /\ bFirstFrame /\ ~out.valid)
  OBVIOUS
<1> HIDE DEF again
<1>1. /\ pc = "sent" /\ pc' = "done" /\ Flying' = Flying /\ bDecoderRun' /\ ~bFirstFrame'
      /\ index' = Other(index)
      /\ UNCHANGED <<pos, gen, from, fed, flush, shown, eosOut, cur,
                     bUseFlagEOF, bSaveFlagEOS, reInputData, checkTimeStamp, len, out,
                     bConfiguredMFC, getAllDelayBuffer, buf, timeStamp, nFlags, pend, disp,
                     ctx, tag>>
  BY <1>a, ConcludeFacts DEF Sent, clientVars, threadVars, deviceVars, Flying
<1>2. /\ (yet' <=> again) /\ (inp'.eos <=> inp.eos)
      /\ again => inp'.len = inp.len /\ prevLen' = prevLen
      /\ ~again => inp'.len = 0 /\ prevLen' = inp.len
      /\ inp.len = 0 => inp'.len = 0
  BY <1>a, ConcludeFacts
<1>3. (Reading' <=> Reading) /\ Begins /\ Begins' /\ (Displayed' <=> Displayed)
  BY <1>1 DEF Reading, Begins, Displayed
<1>4. InTurn'
  BY <1>1, <1>3, InTurnKept DEF Sure
<1>5. Begun'
  BY <1>1, <1>3 DEF Sure, Begun
<1>6. Filled' <=> Filled
  <2>1. index \in Bufs
    BY DEF Sure, Clear, HandOver, HandTypes
  <2>2. Other(Other(index)) = index
    BY <2>1 DEF Bufs, Other
  <2>3. QED
    BY <1>1, <2>2 DEF Filled
<1>7. Handing'
  BY <1>1 DEF Handing
<1>8. ~Start /\ ~Finished
  BY <1>1 DEF Start, Finished
<1>9. ASSUME NEW x \in Nat, Feeding(x) PROVE Feeding(x)'
  <2>1. Flow(0, x)'
    BY <1>1, <1>3, <1>9, FlowKept DEF Feeding
  <2>2. ~again /\ inp.len = 1 /\ x > from
    BY <1>1, <1>9, <1>b DEF Feeding
  <2>3. x # from /\ NextIs(x)
    BY <1>1, <1>9, <2>2, NumberTypes DEF Feeding, Working
  <2>4. NextIs(x)'
    BY <1>1, <2>3 DEF NextIs
  <2>5. QED
    BY <1>1, <1>2, <1>3, <1>6, <1>7, <1>9, <2>1, <2>2, <2>3, <2>4 DEF Feeding, Running, Working
<1>10. ASSUME NEW x \in Nat, EndTaken(x) PROVE EndTaken(x)'
  <2>1. Flow(0, x)'
    BY <1>1, <1>3, <1>10, FlowKept DEF EndTaken
  <2>2. again
    BY <1>1, <1>10, <1>b DEF EndTaken
  <2>3. QED
    BY <1>1, <1>2, <1>3, <1>6, <1>7, <1>10, <2>1, <2>2 DEF EndTaken, Running, Over
<1>11. ASSUME NEW x \in Nat, NEW d \in Nat, Draining(d, x) PROVE Draining(d, x)'
  <2>1. Flow(d, x)' /\ Ahead' = Ahead
    BY <1>1, <1>3, <1>11, FlowKept DEF Draining
  <2>2. again /\ d # 0
    BY <1>1, <1>11, <1>b DEF Draining
  <2>3. QED
    BY <1>1, <1>2, <1>3, <1>6, <1>7, <1>11, <2>1, <2>2 DEF Draining, Running, Over
<1>12. Silent => Silent'
  BY <1>1, <1>2, <1>3 DEF Silent, Running
<1>13. Seeking => Seeking'
  BY <1>1, <1>2 DEF Seeking, Forgotten
<1>14. QED
  BY <1>4, <1>5, <1>8, <1>9, <1>10, <1>11, <1>12, <1>13 DEF Sure, Stage

\* Nothing is sent after the end, or without a frame.
LEMMA SendNothingStep ==
  ASSUME Sure, Clear', SendNothing
  PROVE  (InTurn /\ Begun /\ Stage)'
<1>a. yet \in BOOLEAN /\ Conclude(yet)
  BY DEF SendNothing, Sure, Clear, Typed, CodecOK
<1>1. /\ pc = "send" /\ pc' = "done" /\ Flying' = Flying /\ ~Submits
      /\ UNCHANGED <<pos, gen, from, fed, flush, shown, eosOut, cur,
                     bUseFlagEOF, bSaveFlagEOS, reInputData, checkTimeStamp, len, out,
                     bConfiguredMFC, bFirstFrame, getAllDelayBuffer, bDecoderRun, index, buf,
                     timeStamp, nFlags, pend, disp, ctx, tag>>
  BY <1>a, ConcludeFacts DEF SendNothing, clientVars, threadVars, deviceVars, Flying
<1>2. /\ (yet' <=> yet) /\ (inp'.eos <=> inp.eos)
      /\ yet => inp'.len = inp.len /\ prevLen' = prevLen
      /\ ~yet => inp'.len = 0 /\ prevLen' = inp.len
      /\ inp.len = 0 => inp'.len = 0
  BY <1>a, ConcludeFacts
<1>3. Flying = 0 /\ ~bDecoderRun /\ inp.len \in 0 .. 1
  BY <1>1, Handing1 DEF Sure, Clear, Typed, InputOK
<1>4. (Reading' <=> Reading) /\ (Begins' <=> Begins) /\ (Displayed' <=> Displayed)
  BY <1>1, <1>3 DEF Reading, Begins, Displayed
<1>5. InTurn'
  BY <1>1, <1>4, InTurnKept DEF Sure
<1>6. Begun'
  BY <1>1, <1>4 DEF Sure, Begun
<1>b. inp.len = 0 \/ buf[index] = Blank \/ out.eos
  BY <1>1, <1>3 DEF Submits
<1>c. [gen |-> gen, n |-> 1] # Blank /\ \A x \in Nat : [gen |-> gen, n |-> x] # Blank
  BY DEF Blank
<1>7. ~Start
  <2>1. SUFFICES ASSUME Start PROVE FALSE
    OBVIOUS
  <2>2. bConfiguredMFC /\ FirstIn
    BY <1>1, <2>1 DEF Start, Opening, Sure, Begun
  <2>3. inp.len = 1 /\ buf[index] = [gen |-> 0, n |-> 1] /\ ~out.eos /\ gen = 0
    BY <1>1, <2>1, <2>2 DEF FirstIn, Start
  <2>4. QED
    BY <1>b, <1>c, <2>3
<1>8. ASSUME NEW x \in Nat, Feeding(x) PROVE Feeding(x)'
  <2>1. Flow(0, x)'
    BY <1>1, <1>4, <1>8, FlowKept DEF Feeding
  <2>2. ~out.eos
    BY <1>8 DEF Feeding, Flow, Delivered
  <2>3. inp.len = 0
    <3>1. inp.len = 1 => buf[index] = [gen |-> gen, n |-> x]
      BY <1>1, <1>8 DEF Feeding, Working
    <3>2. QED
      BY <1>3, <1>b, <1>c, <2>2, <3>1
  <2>4. x = from /\ ~cur.valid /\ ~yet /\ NextIs(x)
    BY <1>1, <1>8, <2>3 DEF Feeding, Working
  <2>5. ~(x > from)
    BY <2>4, NumberTypes
  <2>6. NextIs(x)'
    BY <1>1, <2>4 DEF NextIs
  <2>7. ~(x > from)'
    BY <1>1, <2>5
  <2>8. QED
    BY <1>1, <1>2, <1>4, <1>8, <2>1, <2>3, <2>4, <2>5, <2>6, <2>7 DEF Feeding, Running, Working
<1>9. ~(\E x \in Nat : EndTaken(x))
  BY <1>1 DEF EndTaken
<1>10. ASSUME NEW x \in Nat, NEW d \in Nat, Draining(d, x) PROVE Silent'
  <2>1. /\ Running /\ Flow(d, x) /\ Over(x) /\ inp.len = 1 /\ ~inp.eos
        /\ IF d = 0 THEN Filled \/ x = from ELSE Filled
        /\ x = from => checkTimeStamp.check /\ checkTimeStamp.eos /\ ~cur.valid
    BY <1>1, <1>10 DEF Draining
  <2>2. ~out.eos /\ ~eosOut
    BY <2>1 DEF Flow, Delivered
  <2>3. ~Filled
    BY <1>1, <1>b, <2>1, <2>2 DEF Filled
  <2>4. d = 0 /\ x = from
    BY <2>1, <2>3
  <2>5. checkTimeStamp.check /\ checkTimeStamp.eos /\ ~cur.valid
    BY <2>1, <2>4
  <2>6. gen > 0 /\ shown = <<>>
    BY <2>1, <2>5 DEF Flow, Checked
  <2>7. Displayed
    BY <2>6 DEF Sure, Begun
  <2>8. fed = 0 /\ pos = Frames + 2
    <3>1. from + fed <= from /\ pos = Frames + 2
      BY <2>1, <2>4 DEF Over
    <3>2. from \in Nat /\ fed \in Nat
      BY NumberTypes
    <3>3. QED
      BY <3>1, <3>2
  <2>9. \A i \in 0 .. Len(pend) : Place(i) > 0
    BY <1>3, NumberTypes DEF Place
  <2>10. \A i \in 1 .. Len(pend) : ~nFlags[pend[i].tag]
    <3>1. TAKE i \in 1 .. Len(pend)
    <3>2. Entry(0, x, Place(i), pend[i].c, pend[i].tag) /\ Place(i) > 0
      BY <2>1, <2>4, <2>9, NumberTypes DEF Flow, Line
    <3>3. QED
      BY <3>2 DEF Entry
  <2>11. ~nFlags[disp.tag]
    <3>1. Entry(0, x, Place(0), disp.c, disp.tag) /\ Place(0) > 0
      BY <2>1, <2>4, <2>7, <2>9, NumberTypes DEF Flow, Line
    <3>2. QED
      BY <3>1 DEF Entry
  <2>12. QED
    BY <1>1, <1>2, <1>3, <1>4, <2>1, <2>2, <2>5, <2>6, <2>7, <2>8, <2>10, <2>11
    DEF Silent, Running
<1>11. Finished => Finished'
  BY <1>1, <1>4 DEF Finished, Running
<1>12. Silent => Silent'
  BY <1>1, <1>2, <1>4 DEF Silent, Running
<1>13. Seeking => Seeking'
  BY <1>1, <1>2 DEF Seeking, Forgotten
<1>14. QED
  BY <1>5, <1>6, <1>7, <1>8, <1>9, <1>10, <1>11, <1>12, <1>13 DEF Sure, Stage

-----------------------------------------------------------------------------
(* The output is delivered. *)

\* The output is not delivered.
Drops == IF checkTimeStamp.check THEN ~Matches ELSE checkTimeStamp.set

\* What leaves the output port and what does not.
LEMMA PostprocessFacts ==
  ASSUME Sure, Postprocess
  PROVE  /\ pc = "output" /\ pc' = "input" /\ Flying' = Flying /\ out' = NoOutput
         /\ ~(checkTimeStamp.check /\ Matches) => checkTimeStamp' = checkTimeStamp
         /\ checkTimeStamp.check /\ Matches => ~checkTimeStamp'.set /\ ~checkTimeStamp'.check
         /\ ~Drops /\ flush = "none" /\ out.valid /\ Len(shown) <= Frames
              => shown' = Append(shown, [c |-> out.c, time |-> out.time])
         /\ ~(~Drops /\ flush = "none" /\ out.valid) => shown' = shown
         /\ shown' = shown \/ shown' = Append(shown, [c |-> out.c, time |-> out.time])
         /\ eosOut' <=> eosOut \/ (~Drops /\ flush = "none" /\ out.eos)
         /\ UNCHANGED <<pos, gen, from, fed, flush, cur, inp, prevLen, bUseFlagEOF,
                        bSaveFlagEOS, reInputData, yet, len, bConfiguredMFC, bFirstFrame,
                        getAllDelayBuffer, bDecoderRun, index, buf, tag, timeStamp, nFlags,
                        ctx, pend, disp>>
<1>1. /\ pc = "output" /\ pc' = "input" /\ out' = NoOutput
      /\ checkTimeStamp' = IF checkTimeStamp.check /\ Matches THEN NoStart ELSE checkTimeStamp
      /\ shown' = IF (~Drops /\ flush = "none") /\ out.valid /\ Len(shown) <= Frames
                 THEN Append(shown, [c |-> out.c, time |-> out.time]) ELSE shown
      /\ eosOut' = (eosOut \/ ((~Drops /\ flush = "none") /\ out.eos))
  BY Zenon DEF Postprocess, Drops
<1>2. /\ Flying' = Flying
      /\ UNCHANGED <<pos, gen, from, fed, flush, cur, inp, prevLen, bUseFlagEOF,
                        bSaveFlagEOS, reInputData, yet, len, bConfiguredMFC, bFirstFrame,
                        getAllDelayBuffer, bDecoderRun, index, buf, tag, timeStamp, nFlags,
                        ctx, pend, disp>>
  BY DEF Postprocess, threadVars, deviceVars, Flying
<1>3. ~NoStart.set /\ ~NoStart.check
  BY DEF NoStart
<1>4. QED
  BY <1>1, <1>2, <1>3, Zenon

\* What is due next is delivered, and nothing else.
LEMMA Due ==
  ASSUME Sure, pc = "output", NEW d \in Nat, NEW x \in Nat, Flow(d, x), d <= Ahead
  PROVE  /\ OutFrame => ~Drops /\ Len(shown) <= Frames /\ x + d - Ahead > from /\ x > from
         /\ ~OutFrame => ~(checkTimeStamp.check /\ Matches) /\ (out.valid => Drops)
         /\ OutFrame /\ checkTimeStamp.check => Matches
<1>1. /\ from \in Nat /\ Len(shown) \in Nat /\ Ahead \in Nat /\ from >= 1 /\ Frames \in Nat
  BY NumberTypes
<1>2. /\ Len(shown) + (IF OutFrame THEN 1 ELSE 0) = Count(d, x)
      /\ OutFrame => out.time = from + Len(shown)
      /\ out.valid /\ ~OutFrame => checkTimeStamp.set \/ checkTimeStamp.check
      /\ ~out.eos
  BY DEF Flow, Delivered
<1>3. /\ checkTimeStamp.set => x = from /\ d = 0 /\ ~checkTimeStamp.check
      /\ checkTimeStamp.check => shown = <<>> /\ checkTimeStamp.time = from
                             /\ (checkTimeStamp.eos => x = from)
      /\ checkTimeStamp.set \/ checkTimeStamp.check => gen > 0
  BY DEF Flow, Checked
<1>t. out.time \in Times
  BY DEF Sure, Clear, Typed, CodecOK
<1>4. ASSUME OutFrame
      PROVE  /\ ~Drops /\ Len(shown) <= Frames /\ x + d - Ahead > from /\ x > from
             /\ checkTimeStamp.check => Matches
  <2>1. Count(d, x) > 0
    <3>1. Len(shown) + 1 = Count(d, x)
      BY <1>2, <1>4
    <3>2. QED
      BY <1>1, <3>1
  <2>2. x + d - Ahead > from
    <3>1. CASE ~(x + d - Ahead > from)
      <4>1. Count(d, x) = 0
        BY <3>1, Zenon DEF Count
      <4>2. QED
        BY <2>1, <4>1
    <3>2. QED
      BY <3>1
  <2>3. x > from
    BY <1>1, <2>2
  <2>4. ~checkTimeStamp.set
    BY <1>1, <1>3, <2>3
  <2>5. checkTimeStamp.check => Matches
    <3>1. SUFFICES ASSUME checkTimeStamp.check PROVE Matches
      OBVIOUS
    <3>2. shown = <<>> /\ checkTimeStamp.time = from /\ ~checkTimeStamp.eos
      BY <1>1, <1>3, <2>3, <3>1
    <3>3. out.time = from + Len(shown) /\ ~out.eos
      BY <1>2, <1>4
    <3>4. Len(shown) = 0
      BY <3>2
    <3>5. out.time = from
      BY <1>1, <3>3, <3>4
    <3>6. checkTimeStamp.eos \in BOOLEAN /\ out.eos \in BOOLEAN
      BY DEF Sure, Clear, Typed, InputOK, CodecOK
    <3>7. QED
      BY <3>2, <3>3, <3>5, <3>6 DEF Matches
  <2>6. Len(shown) <= Frames
    <3>1. out.time = from + Len(shown)
      BY <1>2, <1>4
    <3>2. QED
      BY <1>1, <1>t, <3>1 DEF Times, EosTime, NoTime
  <2>7. QED
    BY <2>2, <2>3, <2>4, <2>5, <2>6 DEF Drops
<1>5. ASSUME ~OutFrame
      PROVE  ~(checkTimeStamp.check /\ Matches) /\ (out.valid => Drops)
  <2>1. checkTimeStamp.check => ~Matches
    <3>1. SUFFICES ASSUME checkTimeStamp.check, Matches PROVE FALSE
      OBVIOUS
    <3>2. gen > 0 /\ out.time = from
      BY <1>3, <3>1 DEF Matches
    <3>3. out.valid \/ out.time = 0
      BY <1>2, <3>2 DEF Sure, Begun
    <3>4. out.time # NoTime /\ out.time # 0
      BY <1>1, <3>2 DEF NoTime
    <3>5. QED
      BY <1>5, <3>3, <3>4 DEF OutFrame
  <2>2. out.valid => checkTimeStamp.set \/ checkTimeStamp.check
    BY <1>2, <1>5
  <2>3. QED
    BY <2>1, <2>2 DEF Drops
<1>6. QED
  BY <1>4, <1>5

\* A sequence with one more element.
LEMMA OneMore ==
  ASSUME NEW S, NEW s \in Seq(S), NEW e \in S
  PROVE  /\ Append(s, e) \in Seq(S) /\ Len(Append(s, e)) = Len(s) + 1 /\ Append(s, e) # <<>>
         /\ \A i \in 1 .. Len(s) : Append(s, e)[i] = s[i]
         /\ Append(s, e)[Len(s) + 1] = e
OBVIOUS

\* The types of what has been shown and of what is to be.
LEMMA ShownTypes ==
  ASSUME Sure
  PROVE  /\ shown \in Seq([c : Contents, time : Times])
         /\ [c |-> out.c, time |-> out.time] \in [c : Contents, time : Times]
BY DEF Sure, Clear, Typed, ClientOK, CodecOK

\* It is counted as shown from then on.
LEMMA FlowPosted ==
  ASSUME Sure, Postprocess, flush = "none", NEW d \in Nat, NEW x \in Nat, Flow(d, x), d <= Ahead
  PROVE  /\ Flow(d, x)' /\ Ahead' = Ahead
         /\ x = from => checkTimeStamp' = checkTimeStamp
<1>1. /\ pc = "output" /\ pc' = "input" /\ Flying' = Flying /\ out' = NoOutput
      /\ UNCHANGED <<from, gen, timeStamp, nFlags, pend, disp, ctx, buf, bDecoderRun,
                     bFirstFrame, flush>>
  BY PostprocessFacts
<1>2. (Reading' <=> Reading) /\ ~OutFrame' /\ ~out'.valid /\ ~out'.eos
  BY <1>1 DEF Reading, OutFrame, NoOutput
<1>3. Line(d, x)'
  BY <1>1, LineKept DEF Flow
<1>4. Ahead' = Ahead
  BY <1>1, <1>2, AheadKept
<1>5. Count(d, x)' = Count(d, x)
  BY <1>1, <1>4 DEF Count
<1>6. /\ OutFrame => ~Drops /\ Len(shown) <= Frames /\ x + d - Ahead > from /\ x > from
      /\ ~OutFrame => ~(checkTimeStamp.check /\ Matches) /\ (out.valid => Drops)
      /\ OutFrame /\ checkTimeStamp.check => Matches
  BY <1>1, Due
<1>7. /\ Len(shown) + (IF OutFrame THEN 1 ELSE 0) = Count(d, x) /\ ~out.eos /\ ~eosOut
  BY DEF Flow, Delivered
<1>8. ~eosOut'
  BY <1>7, PostprocessFacts
<1>9. Len(shown') = Count(d, x)
  <2>1. CASE OutFrame
    <3>1. shown' = Append(shown, [c |-> out.c, time |-> out.time])
      BY <1>6, <2>1, PostprocessFacts DEF OutFrame
    <3>2. Len(shown') = Len(shown) + 1
      BY <3>1, ShownTypes, OneMore
    <3>3. QED
      BY <1>7, <2>1, <3>2
  <2>2. CASE ~OutFrame
    <3>1. shown' = shown
      BY <1>6, <2>2, PostprocessFacts
    <3>2. Len(shown) \in Nat
      BY NumberTypes
    <3>3. QED
      BY <1>7, <2>2, <3>1, <3>2
  <2>3. QED
    BY <2>1, <2>2
<1>10. Delivered(d, x)'
  <2>1. Len(shown') + 0 = Count(d, x)
    <3>1. Len(shown') \in Nat
      BY PostprocessFacts, ShownTypes, OneMore, NumberTypes
    <3>2. QED
      BY <1>9, <3>1
  <2>2. Len(shown)' + (IF OutFrame' THEN 1 ELSE 0) = Count(d, x)'
    BY <1>2, <1>5, <2>1
  <2>3. QED
    BY <1>2, <1>8, <2>2 DEF Delivered
<1>11. /\ checkTimeStamp.set => x = from /\ d = 0 /\ ~checkTimeStamp.check
       /\ checkTimeStamp.check => shown = <<>> /\ checkTimeStamp.time = from
                             /\ (checkTimeStamp.eos => x = from)
       /\ IF checkTimeStamp.set \/ checkTimeStamp.check THEN gen > 0 ELSE x + d - Ahead >= from
  BY DEF Flow, Checked
<1>12. Checked(d, x)' /\ (x = from => checkTimeStamp' = checkTimeStamp)
  <2>1. CASE checkTimeStamp.check /\ Matches
    <3>1. OutFrame
      BY <1>6, <2>1
    <3>2. x + d - Ahead >= from /\ x # from
      <4>1. x + d - Ahead > from /\ x > from
        BY <1>6, <3>1
      <4>2. from \in Nat /\ Ahead \in Nat
        BY NumberTypes
      <4>3. QED
        BY <4>1, <4>2
    <3>3. ~checkTimeStamp'.set /\ ~checkTimeStamp'.check
      BY <2>1, PostprocessFacts
    <3>4. x + d - Ahead' >= from'
      BY <1>1, <1>4, <3>2
    <3>5. QED
      BY <3>2, <3>3, <3>4 DEF Checked
  <2>2. CASE ~(checkTimeStamp.check /\ Matches)
    <3>1. checkTimeStamp' = checkTimeStamp
      BY <2>2, PostprocessFacts
    <3>2. checkTimeStamp.check => shown' = shown
      <4>1. checkTimeStamp.check => Drops
        BY <2>2 DEF Drops
      <4>2. QED
        BY <4>1, PostprocessFacts
    <3>3. IF checkTimeStamp.set \/ checkTimeStamp.check THEN gen > 0
          ELSE x + d - Ahead' >= from
      BY <1>4, <1>11
    <3>4. QED
      BY <1>1, <1>11, <3>1, <3>2, <3>3 DEF Checked
  <2>3. QED
    BY <2>1, <2>2
<1>13. QED
  BY <1>3, <1>4, <1>10, <1>12 DEF Flow

\* The check of the first time stamp ends with the picture it waits for.
LEMMA PostprocessStep ==
  ASSUME Sure, Clear', Postprocess
  PROVE  (InTurn /\ Begun /\ Stage)'
<1>1. /\ pc = "output" /\ pc' = "input" /\ Flying' = Flying /\ out' = NoOutput
      /\ eosOut' <=> eosOut \/ (~Drops /\ flush = "none" /\ out.eos)
      /\ ~(checkTimeStamp.check /\ Matches) => checkTimeStamp' = checkTimeStamp
      /\ ~(~Drops /\ flush = "none" /\ out.valid) => shown' = shown
      /\ UNCHANGED <<pos, gen, from, fed, flush, cur, inp, prevLen, bUseFlagEOF,
                        bSaveFlagEOS, reInputData, yet, len, bConfiguredMFC, bFirstFrame,
                        getAllDelayBuffer, bDecoderRun, index, buf, tag, timeStamp, nFlags,
                        ctx, pend, disp>>
  BY PostprocessFacts
<1>2. /\ (Reading' <=> Reading) /\ (Begins' <=> Begins) /\ (Displayed' <=> Displayed)
      /\ ~out'.valid /\ ~out'.eos /\ out'.time = 0
  BY <1>1 DEF Reading, Begins, Displayed, NoOutput
<1>3. InTurn'
  BY <1>1, <1>2, InTurnKept DEF Sure
<1>4. Begun'
  <2>1. shown' # <<>> => shown # <<>> \/ out.valid
    BY <1>1
  <2>2. QED
    BY <1>1, <1>2, <2>1 DEF Sure, Begun
<1>5. Start => Start'
  <2>1. SUFFICES ASSUME Start PROVE Start'
    OBVIOUS
  <2>2. /\ FirstIn /\ ~out.valid /\ flush = "none" /\ ~checkTimeStamp.check /\ shown = <<>>
        /\ ~checkTimeStamp.set
    BY <1>1, <2>1 DEF Start, Opening
  <2>3. shown' = shown /\ checkTimeStamp' = checkTimeStamp /\ (eosOut' <=> eosOut \/ out.eos)
    BY <1>1, <2>2 DEF Drops
  <2>4. inp.len = 0
    BY <1>1, <2>2 DEF FirstIn, Sure, Clear, Typed, InputOK
  <2>5. FirstIn'
    BY <1>1, <1>2, <2>2, <2>3, <2>4 DEF FirstIn, NextIs
  <2>6. QED
    BY <1>1, <1>2, <2>1, <2>2, <2>3, <2>5, Zenon DEF Start
<1>6. ASSUME NEW x \in Nat, Feeding(x) PROVE Feeding(x)'
  <2>1. Flow(0, x)' /\ (x = from => checkTimeStamp' = checkTimeStamp)
    <3>1. 0 <= Ahead
      BY NumberTypes
    <3>2. flush = "none" /\ Flow(0, x)
      BY <1>6 DEF Feeding, Running
    <3>3. QED
      BY <3>1, <3>2, FlowPosted
  <2>2. QED
    BY <1>1, <1>2, <1>6, <2>1 DEF Feeding, Running, Filled, Handing, NextIs, Working
<1>7. ASSUME NEW x \in Nat, EndTaken(x) PROVE EndTaken(x)'
  <2>1. Flow(0, x)' /\ (x = from => checkTimeStamp' = checkTimeStamp)
    BY <1>7, FlowPosted, NumberTypes DEF EndTaken, Running
  <2>2. QED
    BY <1>1, <1>2, <1>7, <2>1 DEF EndTaken, Running, Filled, Handing, Over
<1>8. ASSUME NEW x \in Nat, NEW d \in Nat, Draining(d, x) PROVE Draining(d, x)'
  <2>1. Flow(d, x)' /\ Ahead' = Ahead /\ (x = from => checkTimeStamp' = checkTimeStamp)
    BY <1>8, FlowPosted DEF Draining, Running
  <2>2. QED
    BY <1>1, <1>2, <1>8, <2>1 DEF Draining, Running, Filled, Handing, Over
<1>9. Finished => Finished'
  BY <1>1, <1>2 DEF Finished, Running
<1>10. Silent => Silent'
  <2>1. SUFFICES ASSUME Silent PROVE Silent'
    OBVIOUS
  <2>2. checkTimeStamp.check /\ ~Matches
    BY <2>1 DEF Silent, Matches
  <2>3. Drops
    BY <2>2 DEF Drops
  <2>4. QED
    BY <1>1, <1>2, <2>1, <2>2, <2>3 DEF Silent, Running
<1>11. Seeking => Seeking'
  BY <1>1, <1>2 DEF Seeking, Forgotten
<1>12. QED
  BY <1>3, <1>4, <1>5, <1>6, <1>7, <1>8, <1>9, <1>10, <1>11 DEF Sure, Stage

\* What is delivered comes in order, and the end of the stream after it.
LEMMA PostprocessOrder ==
  ASSUME Sure, Postprocess, ShownInOrder
  PROVE  ShownInOrder'
<1> DEFINE Picture(i) == [c |-> [gen |-> gen, n |-> from + i - 1], time |-> from + i - 1]
<1>1. UNCHANGED <<gen, from>>
  BY PostprocessFacts
<1>2. \A i \in 1 .. Len(shown) : shown[i] = Picture(i)
  BY DEF ShownInOrder, Sure, Clear
<1>3. CASE shown' = shown
  BY <1>1, <1>2, <1>3 DEF ShownInOrder
<1>4. CASE shown' # shown
  <2>1. /\ ~Drops /\ flush = "none" /\ out.valid
        /\ Len(shown) <= Frames => shown' = Append(shown, [c |-> out.c, time |-> out.time])
    BY <1>4, PostprocessFacts
  <2>2. \E x \in Nat, d \in Nat : Flow(d, x) /\ d <= Ahead
    <3>1. ~Start /\ ~Finished /\ ~Seeking
      BY <2>1 DEF Start, Finished, Seeking
    <3>2. ~Silent
      BY <2>1 DEF Silent, Drops, Matches
    <3>3. ASSUME NEW x \in Nat, Feeding(x) \/ EndTaken(x) PROVE Flow(0, x) /\ 0 <= Ahead
      BY <3>3, NumberTypes DEF Feeding, EndTaken
    <3>4. ASSUME NEW x \in Nat, NEW d \in Nat, Draining(d, x) PROVE Flow(d, x) /\ d <= Ahead
      BY <3>4 DEF Draining
    <3>5. QED
      BY <3>1, <3>2, <3>3, <3>4 DEF Sure, Stage
  <2>3. PICK x \in Nat, d \in Nat : Flow(d, x) /\ d <= Ahead
    BY <2>2
  <2>4. OutFrame /\ Len(shown) <= Frames
    BY <2>1, <2>3, Due, PostprocessFacts
  <2>5. out.time = from + Len(shown) /\ out.c = [gen |-> gen, n |-> out.time]
    BY <2>3, <2>4 DEF Flow, Delivered
  <2>6. shown' = Append(shown, [c |-> out.c, time |-> out.time])
    BY <2>1, <2>4
  <2>7. /\ Len(shown') = Len(shown) + 1 /\ shown'[Len(shown) + 1] = [c |-> out.c, time |-> out.time]
        /\ \A i \in 1 .. Len(shown) : shown'[i] = shown[i]
    BY <2>6, ShownTypes, OneMore
  <2>8. from + (Len(shown) + 1) - 1 = from + Len(shown)
    BY NumberTypes
  <2>9. [c |-> out.c, time |-> out.time] = Picture(Len(shown) + 1)
    BY <2>5, <2>8
  <2>10. \A i \in 1 .. Len(shown') : shown'[i] = Picture(i)
    <3>1. TAKE i \in 1 .. Len(shown')
    <3>2. Len(shown) \in Nat
      BY NumberTypes
    <3>3. i \in 1 .. Len(shown) \/ i = Len(shown) + 1
      BY <2>7, <3>2
    <3>4. QED
      BY <1>2, <2>7, <2>9, <3>3
  <2>11. QED
    BY <1>1, <2>10 DEF ShownInOrder
<1>5. QED
  BY <1>3, <1>4

\* The end comes after the last picture.
LEMMA PostprocessMore ==
  ASSUME Sure, Postprocess, NoMore
  PROVE  NoMore'
<1>1. /\ pos' = pos /\ fed' = fed
      /\ eosOut' <=> eosOut \/ (~Drops /\ flush = "none" /\ out.eos)
      /\ shown' = shown \/ shown' = Append(shown, [c |-> out.c, time |-> out.time])
  BY PostprocessFacts
<1>2. Len(shown') >= Len(shown) /\ Len(shown') \in Nat
  BY <1>1, ShownTypes, OneMore, NumberTypes
<1>3. fed \in Nat /\ Len(shown) \in Nat
  BY NumberTypes
<1>4. CASE eosOut
  <2>1. Len(shown) >= fed /\ pos = Frames + 2
    BY <1>4 DEF NoMore
  <2>2. Len(shown') >= fed
    BY <1>2, <1>3, <2>1
  <2>3. QED
    BY <1>1, <2>1, <2>2 DEF NoMore
<1>5. CASE ~eosOut /\ eosOut'
  <2>1. ~Drops /\ flush = "none" /\ out.eos
    BY <1>1, <1>5
  <2>2. pos = Frames + 2 /\ Len(shown) >= fed
    <3>1. CASE Start
      <4>1. FirstIn
        BY <3>1, PostprocessFacts DEF Start, Opening
      <4>2. pos = Frames + 2 /\ fed = 0
        BY <2>1, <4>1 DEF FirstIn
      <4>3. QED
        BY <1>3, <4>2
    <3>2. CASE Finished
      <4>1. pos = Frames + 2 /\ fed <= Len(shown)
        BY <3>2 DEF Finished
      <4>2. QED
        BY <1>3, <4>1
    <3>3. ~Silent /\ ~Seeking
      BY <2>1 DEF Silent, Seeking
    <3>4. ~(\E x \in Nat : Feeding(x)) /\ ~(\E x \in Nat : EndTaken(x))
          /\ ~(\E x \in Nat, d \in Nat : Draining(d, x))
      BY <2>1 DEF Feeding, EndTaken, Draining, Flow, Delivered
    <3>5. QED
      BY <3>1, <3>2, <3>3, <3>4 DEF Sure, Stage
  <2>3. Len(shown') >= fed
    BY <1>2, <1>3, <2>2
  <2>4. QED
    BY <1>1, <2>2, <2>3 DEF NoMore
<1>6. CASE ~eosOut'
  BY <1>6 DEF NoMore
<1>7. QED
  BY <1>4, <1>5, <1>6

-----------------------------------------------------------------------------
(* The input is assembled. *)

\* What every call of it leaves alone.
LEMMA PreprocessFacts ==
  ASSUME Sure, Preprocess
  PROVE  /\ pc = "input" /\ ~reInputData /\ cur.valid /\ out = NoOutput
         /\ UNCHANGED <<pos, gen, from, fed, flush, shown, eosOut, prevLen, reInputData, yet,
                        len, out, bConfiguredMFC, bFirstFrame, getAllDelayBuffer, bDecoderRun,
                        index, tag, timeStamp, nFlags, ctx, pend, disp>>
         /\ Flying' = Flying /\ inp'.eof
         /\ pc' \in {"input", "decode"}
         /\ Flying = 1 => buf'[ctx.buf] = buf[ctx.buf]
         /\ buf'[Other(index)] = buf[Other(index)]
         /\ inp.len \in 0 .. 1
<1>1. /\ pc = "input" /\ ~reInputData /\ cur.valid
      /\ UNCHANGED <<pos, gen, from, fed, flush, shown, eosOut, prevLen, reInputData, yet,
                        len, out, bConfiguredMFC, bFirstFrame, getAllDelayBuffer, bDecoderRun,
                        index, tag, timeStamp, nFlags, ctx, pend, disp>>
      /\ pc' \in {"input", "decode"}
      /\ buf' = [buf EXCEPT ![index] = cur.c] \/ buf' = buf
  BY DEF Preprocess, clientVars, deviceVars
<1>2. Flying' = Flying
  BY DEF Preprocess, threadVars, Flying
<1>3. inp'.eof
  BY DEF Preprocess
<1>4. out = NoOutput
  BY <1>1 DEF Sure, Begun
<1>5. index \in Bufs /\ buf \in [Bufs -> Contents] /\ inp.len \in 0 .. 1
  BY DEF Sure, Clear, Typed, CodecOK, InputOK
<1>6. Other(index) \in Bufs /\ Other(index) # index
  BY <1>5 DEF Other, Bufs
<1>7. buf'[Other(index)] = buf[Other(index)]
  BY <1>1, <1>5, <1>6
<1>8. Flying = 1 => ctx.buf = Other(index)
  BY <1>1, Handing1 DEF Sure
<1>9. QED
  BY <1>1, <1>2, <1>3, <1>4, <1>5, <1>7, <1>8

\* The names Preprocess gives to what it looks at.
IsCfg == cur.left /\ cur.c.n = Header
Fresh == inp.len = 0
UseEOF == bUseFlagEOF /\ ~IsCfg
Bound == ~UseEOF /\ ~Fresh /\ cur.left /\ ~IsCfg
Copied == cur.left /\ ~Bound
Size == IF Copied THEN 1 ELSE inp.len
Saved == bSaveFlagEOS \/ cur.eos
Cfg == IF Fresh \/ Bound \/ ~Saved THEN IsCfg ELSE inp.cfg
EndFlags == IF UseEOF \/ (~Bound /\ Saved) THEN EndOfInput(UseEOF, Size, Cfg, Saved)
            ELSE [eos |-> FALSE, eof |-> FALSE, save |-> Saved]
Whole == UseEOF \/ Bound \/ EndFlags.eof
Stamp == IF Fresh THEN cur.time ELSE inp.time

\* What the step does, in these names.
LEMMA Assembled ==
  ASSUME Preprocess
  PROVE  /\ cur' = IF cur.left /\ ~Copied THEN cur ELSE NoInput
         /\ buf' = IF Copied THEN [buf EXCEPT ![index] = cur.c] ELSE buf
         /\ inp' = [len |-> IF EndFlags.eos /\ Size = 0 /\ Whole THEN prevLen ELSE Size,
                    time |-> Stamp, eos |-> EndFlags.eos, eof |-> TRUE, cfg |-> Cfg]
         /\ bUseFlagEOF' = UseEOF /\ bSaveFlagEOS' = EndFlags.save
         /\ checkTimeStamp' = IF Whole /\ checkTimeStamp.set
                              THEN [set |-> FALSE, check |-> TRUE, time |-> Stamp,
                                    eos |-> EndFlags.eos]
                              ELSE checkTimeStamp
         /\ pc' = IF Whole \/ flush \in {"asked", "port"} THEN "decode" ELSE "input"
BY DEF Preprocess, IsCfg, Fresh, UseEOF, Bound, Copied, Size, Saved, Cfg, EndFlags, Whole, Stamp

\* From the second frame on every buffer holds a frame, or the end of the stream.
LEMMA PreprocessLater ==
  ASSUME Sure, Preprocess, ~bFirstFrame
  PROVE  /\ pc' = "decode" /\ ~cur'.valid /\ ~cur'.left /\ bUseFlagEOF' /\ ~bSaveFlagEOS'
         /\ inp'.eos <=> bSaveFlagEOS \/ cur.eos
         /\ cur.left => inp'.len = 1 /\ buf'[index] = cur.c
         /\ ~cur.left /\ cur.eos /\ inp.len = 0 => inp'.len = prevLen
         /\ inp.len = 0 => inp'.time = cur.time
         /\ ~checkTimeStamp.set => checkTimeStamp' = checkTimeStamp
         /\ checkTimeStamp.set =>
              /\ ~checkTimeStamp'.set /\ checkTimeStamp'.check
              /\ checkTimeStamp'.time = inp'.time
              /\ checkTimeStamp'.eos <=> bSaveFlagEOS \/ cur.eos
<1>1. bUseFlagEOF /\ ~(cur.left /\ cur.c.n = Header)
  BY PreprocessFacts DEF Sure, Begun
<1>2. /\ bSaveFlagEOS \in BOOLEAN /\ cur.eos \in BOOLEAN
      /\ index \in Bufs /\ buf \in [Bufs -> Contents]
      /\ bUseFlagEOF \in BOOLEAN
  BY DEF Sure, Clear, Typed, CodecOK, InputOK
<1>3. UseEOF /\ ~Bound /\ (Copied <=> cur.left) /\ Whole
  BY <1>1 DEF UseEOF, IsCfg, Bound, Copied, Whole
<1>4. EndFlags = [eos |-> Saved, eof |-> Saved, save |-> FALSE]
  BY <1>3 DEF EndFlags, EndOfInput
<1>5. (EndFlags.eos <=> Saved) /\ EndFlags.save = FALSE /\ (Saved <=> bSaveFlagEOS \/ cur.eos)
  BY <1>2, <1>4 DEF Saved
<1>6. /\ pc' = "decode" /\ cur' = NoInput /\ bUseFlagEOF' /\ ~bSaveFlagEOS'
      /\ buf' = IF cur.left THEN [buf EXCEPT ![index] = cur.c] ELSE buf
      /\ inp' = [len |-> IF EndFlags.eos /\ Size = 0 /\ Whole THEN prevLen ELSE Size,
                 time |-> Stamp, eos |-> EndFlags.eos, eof |-> TRUE, cfg |-> Cfg]
      /\ checkTimeStamp' = IF checkTimeStamp.set
                              THEN [set |-> FALSE, check |-> TRUE, time |-> Stamp,
                                    eos |-> EndFlags.eos]
                              ELSE checkTimeStamp
  <2>1. /\ cur' = IF cur.left /\ ~Copied THEN cur ELSE NoInput
        /\ buf' = IF Copied THEN [buf EXCEPT ![index] = cur.c] ELSE buf
        /\ bUseFlagEOF' = UseEOF /\ bSaveFlagEOS' = EndFlags.save
        /\ pc' = IF Whole \/ flush \in {"asked", "port"} THEN "decode" ELSE "input"
    BY Assembled
  <2>2. pc' = "decode" /\ cur' = NoInput /\ bUseFlagEOF' /\ ~bSaveFlagEOS'
    BY <1>3, <1>5, <2>1
  <2>3. buf' = IF cur.left THEN [buf EXCEPT ![index] = cur.c] ELSE buf
    BY <1>3, <2>1
  <2>4. checkTimeStamp' = IF checkTimeStamp.set
                          THEN [set |-> FALSE, check |-> TRUE, time |-> Stamp,
                                eos |-> EndFlags.eos]
                          ELSE checkTimeStamp
    BY <1>3, Assembled, Zenon
  <2>5. QED
    BY <2>2, <2>3, <2>4, Assembled
<1>7. /\ inp'.len = (IF EndFlags.eos /\ Size = 0 /\ Whole THEN prevLen ELSE Size)
      /\ inp'.time = Stamp /\ (inp'.eos <=> Saved)
  BY <1>5, <1>6
<1>8. cur.left => inp'.len = 1 /\ buf'[index] = cur.c
  <2>1. SUFFICES ASSUME cur.left PROVE inp'.len = 1 /\ buf'[index] = cur.c
    OBVIOUS
  <2>2. Size = 1
    BY <1>3, <2>1 DEF Size
  <2>3. buf' = [buf EXCEPT ![index] = cur.c]
    BY <1>6, <2>1
  <2>4. QED
    BY <1>2, <1>7, <2>2, <2>3
<1>9. ~cur.left /\ cur.eos /\ inp.len = 0 => inp'.len = prevLen
  <2>1. SUFFICES ASSUME ~cur.left, cur.eos, inp.len = 0 PROVE inp'.len = prevLen
    OBVIOUS
  <2>2. Size = 0
    BY <1>3, <2>1 DEF Size
  <2>3. QED
    BY <1>3, <1>5, <1>7, <2>1, <2>2
<1>10. inp.len = 0 => inp'.time = cur.time
  BY <1>7 DEF Stamp, Fresh
<1>11. ~checkTimeStamp.set => checkTimeStamp' = checkTimeStamp
  BY <1>6
<1>12. checkTimeStamp.set =>
              /\ ~checkTimeStamp'.set /\ checkTimeStamp'.check
              /\ checkTimeStamp'.time = inp'.time
              /\ checkTimeStamp'.eos <=> bSaveFlagEOS \/ cur.eos
  <2>1. SUFFICES ASSUME checkTimeStamp.set
                 PROVE  /\ ~checkTimeStamp'.set /\ checkTimeStamp'.check
                        /\ checkTimeStamp'.time = inp'.time
                        /\ checkTimeStamp'.eos <=> bSaveFlagEOS \/ cur.eos
    OBVIOUS
  <2>2. checkTimeStamp' = [set |-> FALSE, check |-> TRUE, time |-> Stamp, eos |-> EndFlags.eos]
    BY <1>6, <2>1
  <2>3. QED
    BY <1>5, <1>7, <2>2
<1>13. ~cur'.valid /\ ~cur'.left
  BY <1>6 DEF NoInput
<1>14. QED
  BY <1>5, <1>6, <1>7, <1>8, <1>9, <1>10, <1>11, <1>12, <1>13

\* What becomes of the buffer when the first frame is not complete.
LEMMA FirstAssembled ==
  ASSUME Sure, Preprocess, ~bUseFlagEOF, flush = "none", ~checkTimeStamp.set
  PROVE  /\ ~bUseFlagEOF' /\ checkTimeStamp' = checkTimeStamp /\ inp'.eof
         /\ inp'.time = Stamp /\ (inp'.eos <=> EndFlags.eos) /\ (inp'.cfg <=> Cfg)
         /\ bSaveFlagEOS' <=> EndFlags.save
         /\ pc' = IF Bound \/ EndFlags.eof THEN "decode" ELSE "input"
         /\ Bound <=> inp.len = 1 /\ cur.left /\ ~IsCfg
         /\ Bound \/ ~cur.left => buf' = buf
         /\ cur.left /\ ~Bound => buf'[index] = cur.c /\ inp'.len = 1
         /\ Bound => inp'.len = 1 /\ cur' = cur
         /\ ~Bound => ~cur'.valid /\ ~cur'.left
         /\ inp.len = 1 => inp'.len = 1
         /\ inp'.len \in 0 .. 1
         /\ Bound => ~EndFlags.eos /\ ~EndFlags.eof /\ (EndFlags.save <=> Saved)
         /\ ~Bound /\ ~Saved => ~EndFlags.eos /\ ~EndFlags.eof /\ ~EndFlags.save
         /\ ~Bound /\ cur.eos /\ (Cfg \/ Size = 0) =>
              EndFlags.eos /\ EndFlags.eof /\ ~EndFlags.save
         /\ ~Bound /\ cur.eos /\ ~(Cfg \/ Size = 0) =>
              ~EndFlags.eos /\ EndFlags.eof /\ EndFlags.save
<1>1. /\ bSaveFlagEOS \in BOOLEAN /\ cur.eos \in BOOLEAN /\ cur.left \in BOOLEAN
      /\ index \in Bufs /\ buf \in [Bufs -> Contents]
      /\ bUseFlagEOF \in BOOLEAN /\ inp.len \in 0 .. 1 /\ inp.cfg \in BOOLEAN /\ prevLen \in 0 .. 1
  BY DEF Sure, Clear, Typed, CodecOK, InputOK
<1>2. ~UseEOF /\ (UseEOF = FALSE) /\ IsCfg \in BOOLEAN /\ Cfg \in BOOLEAN /\ Saved \in BOOLEAN
  BY <1>1 DEF UseEOF, IsCfg, Cfg, Saved
<1>3. Bound <=> inp.len = 1 /\ cur.left /\ ~IsCfg
  BY <1>1, <1>2 DEF Bound, Fresh
<1>4. (Copied <=> cur.left /\ ~Bound) /\ (Whole <=> Bound \/ EndFlags.eof)
  BY <1>2 DEF Copied, Whole
<1>5. Bound \/ ~Saved => EndFlags = [eos |-> FALSE, eof |-> FALSE, save |-> Saved]
  BY <1>2 DEF EndFlags
<1>6. ~Bound /\ cur.eos /\ (Cfg \/ Size = 0) =>
        EndFlags = [eos |-> TRUE, eof |-> TRUE, save |-> FALSE]
  BY <1>2 DEF EndFlags, EndOfInput, Saved
<1>7. ~Bound /\ cur.eos /\ ~(Cfg \/ Size = 0) =>
        EndFlags = [eos |-> FALSE, eof |-> TRUE, save |-> TRUE]
  BY <1>2 DEF EndFlags, EndOfInput, Saved
<1>8. /\ Bound => ~EndFlags.eos /\ ~EndFlags.eof /\ (EndFlags.save <=> Saved)
      /\ ~Bound /\ ~Saved => ~EndFlags.eos /\ ~EndFlags.eof /\ ~EndFlags.save
      /\ ~Bound /\ cur.eos /\ (Cfg \/ Size = 0) =>
              EndFlags.eos /\ EndFlags.eof /\ ~EndFlags.save
      /\ ~Bound /\ cur.eos /\ ~(Cfg \/ Size = 0) =>
              ~EndFlags.eos /\ EndFlags.eof /\ EndFlags.save
  BY <1>2, <1>5, <1>6, <1>7
<1>9. ~bUseFlagEOF' /\ (bSaveFlagEOS' <=> EndFlags.save)
      /\ pc' = (IF Bound \/ EndFlags.eof THEN "decode" ELSE "input")
  <2>1. bUseFlagEOF' = UseEOF /\ bSaveFlagEOS' = EndFlags.save
        /\ pc' = IF Whole \/ flush \in {"asked", "port"} THEN "decode" ELSE "input"
    BY Assembled
  <2>2. QED
    BY <1>2, <1>4, <2>1
<1>10. checkTimeStamp' = checkTimeStamp
  BY Assembled, Zenon
<1>11. /\ inp'.len = (IF EndFlags.eos /\ Size = 0 /\ Whole THEN prevLen ELSE Size)
       /\ inp'.time = Stamp /\ (inp'.eos <=> EndFlags.eos) /\ (inp'.cfg <=> Cfg) /\ inp'.eof
  <2>1. inp' = [len |-> IF EndFlags.eos /\ Size = 0 /\ Whole THEN prevLen ELSE Size,
                time |-> Stamp, eos |-> EndFlags.eos, eof |-> TRUE, cfg |-> Cfg]
    BY Assembled
  <2>2. QED
    BY <2>1
<1>12. Bound \/ ~cur.left => buf' = buf
  BY <1>4, Assembled
<1>13. cur.left /\ ~Bound => buf'[index] = cur.c /\ Size = 1
  <2>1. cur.left /\ ~Bound => buf' = [buf EXCEPT ![index] = cur.c]
    BY <1>4, Assembled
  <2>2. QED
    BY <1>1, <1>4, <2>1 DEF Size
<1>14. /\ Bound => cur' = cur
       /\ ~Bound => ~cur'.valid /\ ~cur'.left
  <2>1. Bound => cur' = cur
    BY <1>3, <1>4, Assembled
  <2>2. ~Bound => cur' = NoInput
    BY <1>4, Assembled
  <2>3. QED
    BY <2>1, <2>2 DEF NoInput
<1>15. Size \in 0 .. 1 /\ (inp.len = 1 => Size = 1)
  BY <1>1 DEF Size
<1>16. inp'.len \in 0 .. 1 /\ (Size = 1 => inp'.len = 1)
  BY <1>1, <1>11, <1>15
<1>17. QED
  BY <1>3, <1>8, <1>9, <1>10, <1>11, <1>12, <1>13, <1>14, <1>15, <1>16

\* The codec header, and the first frame with what ends it.
LEMMA PreprocessStart ==
  ASSUME Sure, Clear', Preprocess, Start
  PROVE  Start'
<1>1. /\ pc = "input" /\ ~reInputData /\ cur.valid /\ out = NoOutput
      /\ UNCHANGED <<pos, gen, from, fed, flush, shown, eosOut, prevLen, reInputData, yet,
                     len, out, bConfiguredMFC, bFirstFrame, getAllDelayBuffer, bDecoderRun,
                     index, tag, timeStamp, nFlags, ctx, pend, disp>>
      /\ inp.len \in 0 .. 1
  BY PreprocessFacts
<1>2. /\ bFirstFrame /\ gen = 0 /\ from = 1 /\ flush = "none" /\ shown = <<>>
      /\ ~checkTimeStamp.set /\ ~checkTimeStamp.check
      /\ ~yet /\ ~getAllDelayBuffer /\ ~out.valid /\ ~bUseFlagEOF
      /\ Opening \/ FirstIn
  BY <1>1 DEF Start
<1>3. /\ ~bUseFlagEOF' /\ checkTimeStamp' = checkTimeStamp /\ inp'.eof
      /\ inp'.time = Stamp /\ (inp'.eos <=> EndFlags.eos) /\ (inp'.cfg <=> Cfg)
      /\ bSaveFlagEOS' <=> EndFlags.save
      /\ pc' = IF Bound \/ EndFlags.eof THEN "decode" ELSE "input"
      /\ Bound <=> inp.len = 1 /\ cur.left /\ ~IsCfg
      /\ Bound \/ ~cur.left => buf' = buf
      /\ cur.left /\ ~Bound => buf'[index] = cur.c /\ inp'.len = 1
      /\ Bound => inp'.len = 1 /\ cur' = cur
      /\ ~Bound => ~cur'.valid /\ ~cur'.left
      /\ inp.len = 1 => inp'.len = 1
      /\ inp'.len \in 0 .. 1
      /\ Bound => ~EndFlags.eos /\ ~EndFlags.eof /\ (EndFlags.save <=> Saved)
      /\ ~Bound /\ ~Saved => ~EndFlags.eos /\ ~EndFlags.eof /\ ~EndFlags.save
      /\ ~Bound /\ cur.eos /\ (Cfg \/ Size = 0) =>
              EndFlags.eos /\ EndFlags.eof /\ ~EndFlags.save
      /\ ~Bound /\ cur.eos /\ ~(Cfg \/ Size = 0) =>
              ~EndFlags.eos /\ EndFlags.eof /\ EndFlags.save
  BY <1>2, FirstAssembled
<1>4. ~out.eos
  BY <1>1 DEF NoOutput
<1>5. FirstIn' => Start'
  <2>1. pc' \in {"input", "decode", "send", "done", "output"} /\ pc' # "send"
    BY <1>3
  <2>2. bFirstFrame' /\ gen' = 0 /\ from' = 1 /\ flush' = "none" /\ shown' = <<>>
    BY <1>1, <1>2
  <2>3. /\ ~checkTimeStamp'.set /\ ~checkTimeStamp'.check
        /\ ~reInputData' /\ ~yet' /\ ~getAllDelayBuffer' /\ ~out'.valid
    BY <1>1, <1>2, <1>3
  <2>4. bUseFlagEOF' <=> pc' = "send"
    BY <1>3, <2>1
  <2>5. QED
    BY <2>1, <2>2, <2>3, <2>4, Zenon DEF Start
<1>6. CASE Opening
  <2>1. /\ ~bConfiguredMFC /\ inp.len = 0 /\ fed = 0 /\ ~bSaveFlagEOS /\ ~eosOut
        /\ pos = 1 /\ cur.left /\ cur.c.n = Header /\ ~cur.eos
    BY <1>1, <1>6 DEF Opening
  <2>2. ~Bound /\ ~Saved
    BY <1>3, <2>1 DEF Saved
  <2>3. pc' = "input" /\ ~bSaveFlagEOS' /\ inp'.len = 1 /\ ~inp'.eos /\ ~cur'.left /\ ~cur'.valid
    BY <1>3, <2>1, <2>2
  <2>4. NextIs(1)'
    BY <1>1, <1>2, <2>1, <2>3 DEF NextIs
  <2>5. FirstIn'
    BY <1>1, <1>3, <1>4, <2>1, <2>3, <2>4 DEF FirstIn
  <2>6. QED
    BY <1>5, <2>5
<1>7. CASE FirstIn
  <2>1. /\ NextIs(IF bConfiguredMFC /\ inp.len = 1 THEN 2 ELSE 1)
        /\ ~IsCfg
        /\ bConfiguredMFC /\ inp.len = 1 =>
             /\ inp.time = 1 /\ buf[index] = [gen |-> 0, n |-> 1] /\ ~inp.cfg /\ ~inp.eos
             /\ ~eosOut
        /\ inp.len = 1 => ~bSaveFlagEOS
        /\ bSaveFlagEOS => pos = Frames + 2
        /\ bConfiguredMFC /\ inp.len = 0 => cur.left
        /\ ~bConfiguredMFC /\ inp.len = 0 => ~cur.left /\ pos = Frames + 2
        /\ ~eosOut
    BY <1>1, <1>7 DEF FirstIn, IsCfg
  <2>2. cur.left \/ cur.eos
    BY <1>1, <2>1 DEF NextIs
  <2>3. NextIs(1) /\ cur.left => (Saved <=> cur.eos)
    <3>1. NextIs(1) /\ cur.left /\ ~cur.eos => pos = 2 /\ pos # Frames + 2
      BY NumberTypes, MfcDecodeAssumption DEF NextIs
    <3>2. QED
      BY <2>1, <3>1 DEF Saved
  <2>4. CASE ~bConfiguredMFC /\ inp.len = 0
    <3>1. ~cur.left /\ cur.eos /\ NextIs(1) /\ pos = Frames + 2 /\ ~Bound
      BY <1>3, <2>1, <2>2, <2>4
    <3>2. Size = 0
      BY <2>4, <3>1 DEF Size, Copied
    <3>3. pc' = "decode" /\ ~bSaveFlagEOS' /\ ~cur'.left /\ ~cur'.valid
      BY <1>3, <3>1, <3>2
    <3>4. NextIs(1)'
      BY <1>1, <1>2, <3>1, <3>3 DEF NextIs
    <3>5. FirstIn'
      BY <1>1, <1>3, <1>4, <2>1, <2>4, <3>1, <3>3, <3>4 DEF FirstIn
    <3>6. QED
      BY <1>5, <3>5
  <2>5. CASE bConfiguredMFC /\ inp.len = 0
    <3>1. cur.left /\ NextIs(1) /\ ~Bound /\ (Saved <=> cur.eos) /\ ~Cfg
      BY <1>3, <2>1, <2>3, <2>5 DEF Cfg, Fresh
    <3>2. cur.c = [gen |-> 0, n |-> 1] /\ cur.time = 1
      BY <1>2, <3>1 DEF NextIs
    <3>3. Size = 1 /\ Stamp = 1
      BY <2>5, <3>1, <3>2 DEF Size, Copied, Stamp, Fresh
    <3>4. /\ inp'.len = 1 /\ inp'.time = 1 /\ ~inp'.eos /\ ~inp'.cfg /\ ~cur'.valid /\ ~cur'.left
          /\ buf'[index] = [gen |-> 0, n |-> 1] /\ (bSaveFlagEOS' <=> cur.eos)
          /\ pc' = IF cur.eos THEN "decode" ELSE "input"
      BY <1>3, <3>1, <3>2, <3>3
    <3>5. pos = (IF cur.eos THEN Frames + 2 ELSE 2)
          /\ from + fed <= 1 + (IF cur.left /\ ~cur.eos THEN 1 ELSE 0)
      BY <3>1 DEF NextIs
    <3>6. NextIs(2)'
      <4>1. pos \in {2, Frames + 2} /\ from + fed <= 2
        BY <1>2, <3>5, NumberTypes
      <4>2. QED
        BY <1>1, <3>4, <4>1 DEF NextIs
    <3>7. FirstIn'
      BY <1>1, <1>3, <1>4, <2>1, <2>5, <3>4, <3>5, <3>6 DEF FirstIn
    <3>8. QED
      BY <1>5, <3>7
  <2>6. CASE inp.len = 1 /\ cur.left
    <3>1. Bound /\ (Saved <=> cur.eos) /\ Stamp = inp.time /\ ~Cfg
      BY <1>3, <2>1, <2>6 DEF Saved, Stamp, Fresh, Cfg
    <3>2. /\ pc' = "decode" /\ cur' = cur /\ inp'.len = 1 /\ ~inp'.eos /\ ~inp'.cfg
          /\ inp'.time = inp.time /\ buf' = buf /\ (bSaveFlagEOS' <=> cur.eos)
      BY <1>3, <3>1
    <3>3. NextIs(IF bConfiguredMFC /\ inp.len = 1 THEN 2 ELSE 1)'
      BY <1>1, <2>1, <2>6, <3>2 DEF NextIs
    <3>4. cur.eos => pos = Frames + 2
      BY <2>1, <2>6 DEF NextIs
    <3>5. cur.c.n # Header
      BY <2>1, <2>6 DEF IsCfg
    <3>6. FirstIn'
      BY <1>1, <1>3, <1>4, <2>1, <2>6, <3>2, <3>3, <3>4, <3>5 DEF FirstIn
    <3>7. QED
      BY <1>5, <3>6
  <2>7. CASE inp.len = 1 /\ ~cur.left
    <3>1. ~Bound /\ cur.eos /\ Stamp = inp.time /\ Size = 1
      BY <1>3, <2>2, <2>7 DEF Stamp, Fresh, Size, Copied
    <3>2. pos = Frames + 2
      BY <1>1, <2>1, <2>7 DEF NextIs
    <3>3. Cfg <=> inp.cfg
      BY <1>1, <2>7, <3>1 DEF Cfg, Fresh, Saved, Sure, Clear, Typed, InputOK
    <3>4. /\ pc' = "decode" /\ ~cur'.valid /\ ~cur'.left /\ inp'.len = 1 /\ buf' = buf
          /\ inp'.time = inp.time /\ (inp'.cfg <=> inp.cfg)
          /\ ~inp.cfg => ~inp'.eos
      BY <1>3, <2>7, <3>1, <3>3
    <3>5. NextIs(IF bConfiguredMFC /\ inp.len = 1 THEN 2 ELSE 1)'
      BY <1>1, <1>2, <2>1, <2>7, <3>2, <3>4 DEF NextIs
    <3>6. FirstIn'
      BY <1>1, <1>3, <1>4, <2>1, <2>7, <3>2, <3>4, <3>5 DEF FirstIn
    <3>7. QED
      BY <1>5, <3>6
  <2>8. QED
    BY <1>1, <2>4, <2>5, <2>6, <2>7
<1>8. QED
  BY <1>2, <1>6, <1>7

\* The time stamp the check waits for is that of the frame.
LEMMA FlowAssembled ==
  ASSUME Sure, Preprocess, ~bFirstFrame, NEW x \in Nat, Flow(0, x),
         checkTimeStamp.set => inp.len = 0 /\ cur.time = x
  PROVE  Flow(0, x)'
<1>1. /\ pc = "input" /\ pc' = "decode" /\ out = NoOutput
      /\ Flying' = Flying /\ (Flying = 1 => buf'[ctx.buf] = buf[ctx.buf])
      /\ UNCHANGED <<from, gen, shown, eosOut, out, bDecoderRun, timeStamp, nFlags, ctx, pend,
                     disp>>
  BY PreprocessFacts, PreprocessLater
<1>2. Reading' <=> Reading
  BY <1>1 DEF Reading
<1>3. CASE ~checkTimeStamp.set
  BY <1>1, <1>2, <1>3, FlowKept, PreprocessLater
<1>4. CASE checkTimeStamp.set
  <2>1. x = from /\ inp.len = 0 /\ cur.time = from /\ gen > 0
    BY <1>4 DEF Flow, Checked
  <2>2. ~checkTimeStamp'.set /\ checkTimeStamp'.check /\ checkTimeStamp'.time = from
    BY <1>4, <2>1, PreprocessLater
  <2>3. Line(0, x)'
    BY <1>1, LineKept DEF Flow
  <2>4. Ahead' = Ahead
    BY <1>1, <1>2, AheadKept
  <2>5. shown = <<>>
    <3>1. ~OutFrame
      BY <1>1 DEF OutFrame, NoOutput
    <3>2. ~(x + 0 - Ahead > from)
      BY <2>1, NumberTypes
    <3>3. Count(0, x) = 0
      BY <3>2, Zenon DEF Count
    <3>4. Len(shown) = 0
      BY <3>1, <3>3, NumberTypes DEF Flow, Delivered
    <3>5. QED
      BY <3>4, ShownTypes
  <2>6. Delivered(0, x)'
    <3>1. Count(0, x)' = Count(0, x)
      BY <1>1, <2>4 DEF Count
    <3>2. ~out.valid /\ ~OutFrame /\ ~OutFrame'
      BY <1>1 DEF OutFrame, NoOutput
    <3>3. QED
      BY <1>1, <3>1, <3>2 DEF Flow, Delivered
  <2>7. Checked(0, x)'
    BY <1>1, <2>1, <2>2, <2>5 DEF Checked
  <2>8. QED
    BY <2>3, <2>6, <2>7 DEF Flow
<1>5. QED
  BY <1>3, <1>4

\* A frame, the last one, or the end of the stream is at hand.
LEMMA PreprocessStep ==
  ASSUME Sure, Clear', Preprocess
  PROVE  (InTurn /\ Begun /\ Stage)'
<1>1. /\ pc = "input" /\ ~reInputData /\ cur.valid /\ out = NoOutput
      /\ UNCHANGED <<pos, gen, from, fed, flush, shown, eosOut, prevLen, reInputData, yet,
                     len, out, bConfiguredMFC, bFirstFrame, getAllDelayBuffer, bDecoderRun,
                     index, tag, timeStamp, nFlags, ctx, pend, disp>>
      /\ Flying' = Flying /\ pc' \in {"input", "decode"}
      /\ Flying = 1 => buf'[ctx.buf] = buf[ctx.buf]
      /\ buf'[Other(index)] = buf[Other(index)]
      /\ inp.len \in 0 .. 1
  BY PreprocessFacts
<1>2. /\ (Reading' <=> Reading) /\ (Begins' <=> Begins) /\ (Displayed' <=> Displayed)
      /\ (Begins <=> ~bFirstFrame) /\ ~out.valid
  BY <1>1 DEF Reading, Begins, Displayed, NoOutput
<1>3. InTurn'
  BY <1>1, <1>2, InTurnKept DEF Sure
<1>a. pos # 0
  BY <1>1 DEF Sure, Begun
<1>4. Begun'
  <2>1. cur'.left /\ cur'.c.n = Header => cur.left /\ cur.c.n = Header
    <3>1. cur' = cur \/ cur' = NoInput
      BY DEF Preprocess
    <3>2. QED
      BY <3>1 DEF NoInput
  <2>2. ~bFirstFrame => bUseFlagEOF' /\ bConfiguredMFC
    BY PreprocessLater DEF Sure, Begun
  <2>3. QED
    BY <1>1, <1>2, <1>a, <2>1, <2>2 DEF Sure, Begun
<1>b. Start => Start'
  BY PreprocessStart
<1>5. ASSUME NEW x \in Nat, Feeding(x) PROVE Feeding(x)' \/ EndTaken(x)'
  <2>1. /\ Running /\ Flow(0, x) /\ (x > from => Filled /\ Handing)
        /\ ~bSaveFlagEOS /\ ~getAllDelayBuffer /\ ~inp.eos /\ inp.len = 0
        /\ (x > from => prevLen = 1)
        /\ x = from => checkTimeStamp.set
        /\ x >= from /\ (gen = 0 => x > from)
        /\ NextIs(x) /\ ~bFirstFrame
    BY <1>1, <1>2, <1>5 DEF Feeding, Working, Running
  <2>2. /\ pc' = "decode" /\ ~cur'.valid /\ ~cur'.left /\ bUseFlagEOF' /\ ~bSaveFlagEOS'
        /\ inp'.eos <=> cur.eos
        /\ cur.left => inp'.len = 1 /\ buf'[index] = cur.c
        /\ ~cur.left /\ cur.eos => inp'.len = prevLen
        /\ inp'.time = cur.time
        /\ ~checkTimeStamp.set => checkTimeStamp' = checkTimeStamp
        /\ checkTimeStamp.set =>
              /\ ~checkTimeStamp'.set /\ checkTimeStamp'.check
              /\ checkTimeStamp'.eos <=> cur.eos
    BY <2>1, PreprocessLater
  <2>3. Filled' <=> Filled
    BY <1>1, <2>2 DEF Filled
  <2>4. Handing' <=> Handing
    BY <1>1, <2>2 DEF Handing
  <2>5. Running'
    BY <1>1, <1>2, <2>1 DEF Running
  <2>6. CASE cur.left
    <3>1. /\ cur.c = [gen |-> gen, n |-> x] /\ cur.time = x /\ x <= Frames
          /\ pos = IF cur.eos THEN Frames + 2 ELSE x + 1
          /\ from + fed <= x + (IF cur.left /\ ~cur.eos THEN 1 ELSE 0)
      BY <2>1, <2>6 DEF NextIs
    <3>2. Flow(0, x)'
      BY <2>1, <3>1, FlowAssembled
    <3>3. CASE cur.eos
      <4>1. from + fed <= x /\ pos = Frames + 2
        BY <2>6, <3>1, <3>3, NumberTypes
      <4>2. Over(x)'
        BY <1>1, <4>1 DEF Over
      <4>3. EndTaken(x)'
        BY <1>1, <2>1, <2>2, <2>3, <2>4, <2>5, <2>6, <3>2, <3>3, <4>2 DEF EndTaken
      <4>4. QED
        BY <4>3
    <3>4. CASE ~cur.eos
      <4>1. pos = x + 1 /\ from + fed <= x + 1
        BY <2>6, <3>1, <3>4
      <4>2. NextIs(x + 1)'
        <5>1. pos' = x + 1 /\ ~cur'.left /\ ~cur'.valid /\ from' + fed' <= x + 1 + 0
          <6>1. from + fed <= x + 1 + 0
            BY <4>1
          <6>2. QED
            BY <1>1, <2>2, <4>1, <6>1
        <5>2. QED
          BY <5>1 DEF NextIs
      <4>3. inp'.len = 1 /\ inp'.time = x /\ buf'[index] = [gen |-> gen, n |-> x] /\ ~inp'.eos
        BY <2>2, <2>6, <3>1, <3>4
      <4>4. Feeding(x)'
        BY <1>1, <2>1, <2>2, <2>3, <2>4, <2>5, <3>2, <3>4, <4>2, <4>3 DEF Feeding, Working
      <4>5. QED
        BY <4>4
    <3>5. QED
      BY <3>3, <3>4
  <2>7. CASE ~cur.left
    <3>1. cur.eos /\ pos = Frames + 2 /\ (gen > 0 => fed > 0)
          /\ from + fed <= x + (IF cur.left /\ ~cur.eos THEN 1 ELSE 0)
      BY <1>1, <2>1, <2>7 DEF NextIs
    <3>2. from + fed <= x
      BY <2>7, <3>1, NumberTypes
    <3>3. x > from
      <4>1. gen > 0 => x > from
        <5>1. gen > 0 => fed > 0
          BY <3>1
        <5>2. from \in Nat /\ fed \in Nat
          BY NumberTypes
        <5>3. fed > 0 => x > from
          BY <3>2, <5>2
        <5>4. QED
          BY <5>1, <5>3
      <4>2. gen = 0 \/ gen > 0
        BY NumberTypes
      <4>3. QED
        BY <2>1, <4>1, <4>2
    <3>4. ~checkTimeStamp.set /\ x # from
      <4>1. x # from
        BY <3>3, NumberTypes
      <4>2. QED
        BY <2>1, <4>1 DEF Flow, Checked
    <3>5. Flow(0, x)'
      BY <2>1, <3>4, FlowAssembled
    <3>6. inp'.len = 1 /\ inp'.eos
      BY <2>1, <2>2, <2>7, <3>1, <3>3
    <3>7. Over(x)'
      BY <1>1, <3>1, <3>2 DEF Over
    <3>8. EndTaken(x)'
      BY <1>1, <2>1, <2>2, <2>3, <2>4, <2>5, <3>3, <3>4, <3>5, <3>6, <3>7 DEF EndTaken
    <3>9. QED
      BY <3>8
  <2>8. QED
    BY <2>6, <2>7
<1>6. ~(\E x \in Nat : EndTaken(x)) /\ ~(\E x \in Nat, d \in Nat : Draining(d, x)) /\ ~Silent
  BY <1>1 DEF EndTaken, Draining, Silent
<1>7. Finished => Finished'
  <2>1. SUFFICES ASSUME Finished PROVE Finished'
    OBVIOUS
  <2>2. pc' = "decode"
    BY <1>2, <2>1, PreprocessLater DEF Finished, Running
  <2>3. QED
    BY <1>1, <1>2, <2>1, <2>2 DEF Finished, Running
<1>8. Seeking => Seeking'
  BY <1>1 DEF Seeking
<1>9. QED
  BY <1>3, <1>4, <1>b, <1>5, <1>6, <1>7, <1>8 DEF Sure, Stage

-----------------------------------------------------------------------------
(* The device decodes a frame. *)

\* A sequence shifted by one.
LEMMA ShiftIn ==
  ASSUME NEW S, NEW s \in Seq(S), NEW e \in S
  PROVE  /\ Append(s, e) \in Seq(S) /\ Len(Append(s, e)) = Len(s) + 1
         /\ Head(Append(s, e)) = Append(s, e)[1] /\ Tail(Append(s, e)) \in Seq(S)
         /\ Len(Tail(Append(s, e))) = Len(s)
         /\ \A i \in 1 .. Len(s) : Tail(Append(s, e))[i] = Append(s, e)[i + 1]
         /\ \A i \in 1 .. Len(s) : Append(s, e)[i] = s[i]
         /\ Append(s, e)[Len(s) + 1] = e
OBVIOUS

\* The frames after a decode that succeeds: the same, the new one last.
Frame == [c |-> Carried, tag |-> ctx.tag]
All == Append(pend, Frame)

\* What a decode that succeeds does.
LEMMA ExeFacts ==
  ASSUME Sure, Clear', Exe
  PROVE  /\ Flying = 1 /\ Flying' = 0 /\ (bDecoderRun \/ pc = "sent") /\ Begins
         /\ UNCHANGED <<pos, gen, from, fed, flush, shown, eosOut, cur, inp, prevLen, bUseFlagEOF,
                        bSaveFlagEOS, reInputData, checkTimeStamp, pc, yet, len, out,
                        bConfiguredMFC, bFirstFrame, getAllDelayBuffer, bDecoderRun, index, buf,
                        tag, timeStamp, nFlags, ctx>>
         /\ IF Len(pend) = Delay
            THEN pend' = Tail(All) /\ disp'.status = "display"
                 /\ disp'.c = Head(All).c /\ disp'.tag = Head(All).tag
            ELSE pend' = All /\ disp'.status = "decoding" /\ disp'.tag = disp.tag
<1>1. dpc = "exe" /\ dpc' = "post" /\ hDecFrameStart' = hDecFrameStart
      /\ UNCHANGED <<pos, gen, from, fed, flush, shown, eosOut, cur, inp, prevLen, bUseFlagEOF,
                        bSaveFlagEOS, reInputData, checkTimeStamp, pc, yet, len, out,
                        bConfiguredMFC, bFirstFrame, getAllDelayBuffer, bDecoderRun, index, buf,
                        tag, timeStamp, nFlags, ctx>>
  BY DEF Exe, clientVars, portVars, codecVars
<1>2. Flying = 1 /\ job = ctx /\ hDecFrameStart = 0 /\ (bDecoderRun \/ pc = "sent")
  BY <1>1, Handing1 DEF Sure
<1>3. Flying' = 0
  BY <1>1, <1>2 DEF Flying
<1>4. Begins
  BY <1>2, Handing1 DEF Begins, Sure
<1>5. Decoded
  <2>1. errors = 0 /\ repeats = 0 /\ errors' = 0 /\ repeats' = 0
    BY DEF Sure, Clear, Calm
  <2>2. ~ShownOnly /\ ~ExeFails
    BY <2>1 DEF ShownOnly, ExeFails
  <2>3. QED
    BY <2>2 DEF Exe
<1>6. Append(pend, [c |-> IF job.size > 0 THEN buf[job.buf] ELSE Blank, tag |-> job.tag]) = All
  BY <1>2 DEF All, Frame, Carried
<1>7. IF Len(All) > Delay
      THEN /\ disp' = [status |-> "display", c |-> Head(All).c, tag |-> Head(All).tag]
           /\ pend' = Tail(All)
      ELSE disp' = [disp EXCEPT !.status = "decoding"] /\ pend' = All
  BY <1>5, <1>6 DEF Decoded
<1>8. /\ pend \in Seq([c : Contents, tag : Tags]) /\ Frame \in [c : Contents, tag : Tags]
      /\ disp \in [status : {"decoding", "display", "display_only"}, c : Contents, tag : Tags]
  <2>1. Blank \in Contents
    BY MfcDecodeAssumption DEF Blank, Contents
  <2>2. Carried \in Contents
    BY <2>1 DEF Carried, Sure, Clear, Typed, CodecOK, ThreadsOK, DeviceOK
  <2>3. QED
    BY <2>2, PendTypes DEF Frame, Sure, Clear, Typed, DeviceOK
<1>9. Len(All) = Len(pend) + 1
  BY <1>8, ShiftIn DEF All
<1>10. Len(pend) \in Nat /\ Len(pend) <= Delay /\ Delay \in Nat
  BY NumberTypes DEF Sure, InTurn
<1>11. Len(All) > Delay <=> Len(pend) = Delay
  BY <1>9, <1>10
<1>12. CASE Len(pend) = Delay
  <2>1. /\ disp' = [status |-> "display", c |-> Head(All).c, tag |-> Head(All).tag]
        /\ pend' = Tail(All)
    BY <1>7, <1>11, <1>12
  <2>2. QED
    BY <1>1, <1>2, <1>3, <1>4, <1>12, <2>1
<1>13. CASE Len(pend) # Delay
  <2>1. disp' = [disp EXCEPT !.status = "decoding"] /\ pend' = All
    BY <1>7, <1>11, <1>13
  <2>2. disp'.status = "decoding" /\ disp'.tag = disp.tag
    BY <1>8, <2>1
  <2>3. QED
    BY <1>1, <1>2, <1>3, <1>4, <1>13, <2>1, <2>2
<1>14. QED
  BY <1>12, <1>13

\* The elements of that sequence.
LEMMA AllFacts ==
  ASSUME Sure
  PROVE  /\ All \in Seq([c : Contents, tag : Tags]) /\ Len(All) = Len(pend) + 1
         /\ Head(All) = All[1] /\ Len(Tail(All)) = Len(pend)
         /\ \A i \in 1 .. Len(pend) : Tail(All)[i] = All[i + 1] /\ All[i] = pend[i]
         /\ All[Len(pend) + 1].c = Carried /\ All[Len(pend) + 1].tag = ctx.tag
<1>1. Blank \in Contents
  BY MfcDecodeAssumption DEF Blank, Contents
<1>2. Carried \in Contents
  BY <1>1 DEF Carried, Sure, Clear, Typed, CodecOK, ThreadsOK, DeviceOK
<1>3. /\ pend \in Seq([c : Contents, tag : Tags]) /\ Frame \in [c : Contents, tag : Tags]
  BY <1>2, PendTypes DEF Frame, Sure, Clear, Typed, DeviceOK
<1>4. All[Len(pend) + 1] = Frame
  BY <1>3, ShiftIn DEF All
<1>5. All[Len(pend) + 1].c = Carried /\ All[Len(pend) + 1].tag = ctx.tag
  BY <1>4 DEF Frame
<1>6. QED
  BY <1>3, <1>5, ShiftIn DEF All

\* They are in turn, with the entries of the line.
LEMMA AllInTurn ==
  ASSUME Sure, Flying = 1
  PROVE  /\ Len(pend) \in Nat
         /\ \A i \in 1 .. Len(pend) + 1 : All[i].tag = BackTag(tag, Len(pend) + 2 - i)
         /\ \A d, x : Line(d, x) =>
              \A i \in 1 .. Len(pend) + 1 :
                Entry(d, x, Len(pend) + 2 - i, All[i].c, All[i].tag)
<1>1. Len(pend) \in Nat
  BY NumberTypes
<1>2. \A i \in 1 .. Len(pend) : Place(i) = Len(pend) + 2 - i
  BY <1>1 DEF Place
<1>3. Len(pend) + 2 - (Len(pend) + 1) = 1
  BY <1>1
<1>4. \A i \in 1 .. Len(pend) + 1 : i \in 1 .. Len(pend) \/ i = Len(pend) + 1
  BY <1>1
<1>5. ASSUME NEW i \in 1 .. Len(pend) + 1
      PROVE  All[i].tag = BackTag(tag, Len(pend) + 2 - i)
  <2>1. CASE i \in 1 .. Len(pend)
    BY <1>2, <2>1, AllFacts DEF Sure, InTurn
  <2>2. CASE i = Len(pend) + 1
    BY <1>3, <2>2, AllFacts DEF Sure, InTurn
  <2>3. QED
    BY <1>4, <2>1, <2>2
<1>6. ASSUME NEW d, NEW x, Line(d, x), NEW i \in 1 .. Len(pend) + 1
      PROVE  Entry(d, x, Len(pend) + 2 - i, All[i].c, All[i].tag)
  <2>1. CASE i \in 1 .. Len(pend)
    BY <1>2, <1>6, <2>1, AllFacts DEF Line
  <2>2. CASE i = Len(pend) + 1
    <3>1. Entry(d, x, 1, Carried, ctx.tag)
      BY <1>6 DEF Line
    <3>2. Len(pend) + 2 - i = 1 /\ All[i].c = Carried /\ All[i].tag = ctx.tag
      BY <1>3, <2>2, AllFacts
    <3>3. QED
      BY <3>1, <3>2
  <2>3. QED
    BY <1>4, <2>1, <2>2
<1>7. QED
  BY <1>1, <1>5, <1>6

\* Where the frames are after the decode.
LEMMA Shifted ==
  ASSUME Sure, Clear', Exe
  PROVE  /\ \A i \in 1 .. Len(pend') : \E k \in 1 .. Len(pend) + 1 :
              pend'[i] = All[k] /\ Place(i)' = Len(pend) + 2 - k
         /\ Displayed' <=> Len(pend) = Delay
         /\ Displayed => Displayed'
         /\ Displayed' => /\ Len(pend') = Len(pend) /\ Place(0)' = Len(pend) + 1
                          /\ disp'.c = All[1].c /\ disp'.tag = All[1].tag
         /\ ~Displayed' => Len(pend') = Len(pend) + 1 /\ disp'.tag = disp.tag
         /\ Len(pend') \in Nat /\ Len(pend') <= Delay
<1>1. /\ Len(pend) \in Nat /\ Delay \in Nat /\ Len(pend) <= Delay
  BY NumberTypes DEF Sure, InTurn
<1>2. Flying' = 0
  BY ExeFacts
<1>3. Displayed => Len(pend) = Delay
  BY DEF Sure, InTurn
<1>4. CASE Len(pend) = Delay
  <2>1. pend' = Tail(All) /\ disp'.status = "display" /\ disp'.c = All[1].c
        /\ disp'.tag = All[1].tag
    BY <1>4, ExeFacts, AllFacts
  <2>2. Len(pend') = Len(pend)
    BY <2>1, AllFacts
  <2>4. \A i \in 1 .. Len(pend') : pend'[i] = All[i + 1]
    BY <2>1, <2>2, AllFacts
  <2>5. \A i \in 0 .. Len(pend') : Place(i)' = Len(pend) + 2 - (i + 1)
    <3>1. \A i \in 0 .. Len(pend) : 0 + Len(pend) + 1 - i = Len(pend) + 2 - (i + 1)
      BY <1>1
    <3>2. QED
      BY <1>2, <2>2, <3>1 DEF Place
  <2>6. Displayed'
    BY <2>1 DEF Displayed
  <2>7. Place(0)' = Len(pend) + 1
    BY <1>1, <2>2, <2>5
  <2>8. \A i \in 1 .. Len(pend') : i + 1 \in 1 .. Len(pend) + 1
    BY <1>1, <2>2
  <2>9. ASSUME NEW i \in 1 .. Len(pend')
        PROVE  \E k \in 1 .. Len(pend) + 1 :
                 pend'[i] = All[k] /\ Place(i)' = Len(pend) + 2 - k
    <3>1. i + 1 \in 1 .. Len(pend) + 1 /\ pend'[i] = All[i + 1] /\ i \in 0 .. Len(pend')
      BY <1>1, <2>2, <2>4, <2>8
    <3>2. Place(i)' = Len(pend) + 2 - (i + 1)
      BY <2>5, <3>1
    <3>3. QED
      BY <3>1, <3>2
  <2>10. QED
    BY <1>1, <1>4, <2>1, <2>2, <2>6, <2>7, <2>9
<1>5. CASE Len(pend) # Delay
  <2>1. pend' = All /\ disp'.status = "decoding" /\ disp'.tag = disp.tag
    BY <1>5, ExeFacts
  <2>2. Len(pend') = Len(pend) + 1 /\ ~Displayed'
    BY <2>1, AllFacts DEF Displayed
  <2>4. \A i \in 1 .. Len(pend') : Place(i)' = Len(pend) + 2 - i
    <3>1. \A i \in 1 .. Len(pend) + 1 : 0 + (Len(pend) + 1) + 1 - i = Len(pend) + 2 - i
      BY <1>1
    <3>2. QED
      BY <1>2, <2>2, <3>1 DEF Place
  <2>5. ASSUME NEW i \in 1 .. Len(pend')
        PROVE  \E k \in 1 .. Len(pend) + 1 :
                 pend'[i] = All[k] /\ Place(i)' = Len(pend) + 2 - k
    BY <2>1, <2>2, <2>4
  <2>6. QED
    BY <1>1, <1>3, <1>5, <2>1, <2>2, <2>5
<1>6. QED
  BY <1>4, <1>5

\* What is due is what was due.
LEMMA FlowExe ==
  ASSUME Sure, Clear', Exe, NEW d \in Nat, NEW x \in Nat, Flow(d, x)
  PROVE  Flow(d, x)' /\ Ahead' = Ahead
<1>1. /\ Flying = 1 /\ Flying' = 0 /\ (bDecoderRun \/ pc = "sent")
      /\ UNCHANGED <<from, gen, shown, eosOut, checkTimeStamp, pc, out, bDecoderRun, timeStamp,
                     nFlags>>
  BY ExeFacts
<1>2. Len(pend) \in Nat /\ Len(pend') \in Nat
  BY NumberTypes, Shifted
<1>3. Line(d, x)'
  <2>1. \A i \in 1 .. Len(pend) + 1 : Entry(d, x, Len(pend) + 2 - i, All[i].c, All[i].tag)
    BY <1>1, AllInTurn DEF Flow
  <2>2. ASSUME NEW i \in 1 .. Len(pend')
        PROVE  Entry(d, x, Place(i), pend[i].c, pend[i].tag)'
    <3>1. PICK k \in 1 .. Len(pend) + 1 :
            pend'[i] = All[k] /\ Place(i)' = Len(pend) + 2 - k
      BY Shifted
    <3>2. Entry(d, x, Len(pend) + 2 - k, All[k].c, All[k].tag)
      BY <2>1
    <3>3. QED
      BY <1>1, <3>1, <3>2 DEF Entry
  <2>3. Displayed' => Entry(d, x, Place(0), disp.c, disp.tag)'
    <3>1. SUFFICES ASSUME Displayed' PROVE Entry(d, x, Place(0), disp.c, disp.tag)'
      OBVIOUS
    <3>2. Place(0)' = Len(pend) + 1 /\ disp'.c = All[1].c /\ disp'.tag = All[1].tag
      BY <3>1, Shifted
    <3>3. Len(pend) + 2 - 1 = Len(pend) + 1 /\ 1 \in 1 .. Len(pend) + 1
      BY <1>2
    <3>4. Entry(d, x, Len(pend) + 1, All[1].c, All[1].tag)
      BY <2>1, <3>3
    <3>5. QED
      BY <1>1, <3>2, <3>4 DEF Entry
  <2>4. QED
    BY <1>1, <2>2, <2>3 DEF Line
<1>4. Ahead' = Ahead
  <2>1. Ahead = 1 + Len(pend) + 0
    <3>1. ~Unread
      BY <1>1 DEF Unread
    <3>2. QED
      BY <1>1, <3>1, Zenon DEF Ahead
  <2>2. CASE Displayed'
    <3>1. Unread' /\ Len(pend') = Len(pend)
      BY <1>1, <2>2, Shifted DEF Unread, Reading
    <3>2. Ahead' = 0 + Len(pend) + 1
      BY <1>1, <3>1, Zenon DEF Ahead
    <3>3. QED
      BY <1>2, <2>1, <3>2
  <2>3. CASE ~Displayed'
    <3>1. ~Unread' /\ Len(pend') = Len(pend) + 1
      BY <2>3, Shifted DEF Unread
    <3>2. Ahead' = 0 + (Len(pend) + 1) + 0
      BY <1>1, <3>1, Zenon DEF Ahead
    <3>3. QED
      BY <1>2, <2>1, <3>2
  <2>4. QED
    BY <2>2, <2>3
<1>5. Delivered(d, x)'
  BY <1>1, <1>4 DEF Flow, Delivered, Count, OutFrame
<1>6. Checked(d, x)'
  BY <1>1, <1>4 DEF Flow, Checked
<1>7. QED
  BY <1>3, <1>4, <1>5, <1>6 DEF Flow

\* The frames keep their order.
LEMMA ExeInTurn ==
  ASSUME Sure, Clear', Exe
  PROVE  InTurn'
<1>1. /\ Flying = 1 /\ Flying' = 0 /\ Begins /\ tag' = tag /\ pc' = pc /\ bFirstFrame' = bFirstFrame
  BY ExeFacts
<1>2. Len(pend) \in Nat /\ Delay \in Nat /\ Begins'
  BY <1>1, NumberTypes DEF Begins
<1>3. \A i \in 1 .. Len(pend) + 1 : All[i].tag = BackTag(tag, Len(pend) + 2 - i)
  BY <1>1, AllInTurn
<1>4. \A i \in 1 .. Len(pend') : pend'[i].tag = BackTag(tag', Place(i)')
  <2>1. TAKE i \in 1 .. Len(pend')
  <2>2. PICK k \in 1 .. Len(pend) + 1 : pend'[i] = All[k] /\ Place(i)' = Len(pend) + 2 - k
    BY Shifted
  <2>3. QED
    BY <1>1, <1>3, <2>2
<1>5. Displayed' => Len(pend') = Delay /\ disp'.tag = BackTag(tag', Place(0)')
  <2>1. SUFFICES ASSUME Displayed'
                 PROVE  Len(pend') = Delay /\ disp'.tag = BackTag(tag', Place(0)')
    OBVIOUS
  <2>2. /\ Len(pend') = Len(pend) /\ Len(pend) = Delay /\ Place(0)' = Len(pend) + 1
        /\ disp'.tag = All[1].tag
    BY <2>1, Shifted
  <2>3. 1 \in 1 .. Len(pend) + 1 /\ Len(pend) + 2 - 1 = Len(pend) + 1
    BY <1>2
  <2>4. All[1].tag = BackTag(tag, Len(pend) + 1)
    BY <1>3, <2>3
  <2>5. QED
    BY <1>1, <2>2, <2>4
<1>6. ~Displayed' => disp'.tag = 0 /\ tag' = 0 + Len(pend') /\ tag' > 0
  <2>1. SUFFICES ASSUME ~Displayed' PROVE disp'.tag = 0 /\ tag' = 0 + Len(pend') /\ tag' > 0
    OBVIOUS
  <2>2. ~Displayed /\ Len(pend') = Len(pend) + 1 /\ disp'.tag = disp.tag
    BY <2>1, Shifted
  <2>3. disp.tag = 0 /\ tag = 1 + Len(pend)
    BY <1>1, <2>2 DEF Sure, InTurn
  <2>4. QED
    BY <1>1, <1>2, <2>2, <2>3
<1>7. disp'.status \in {"decoding", "display"}
  BY ExeFacts
<1>8. Len(pend') <= Delay
  BY Shifted
<1>9. QED
  BY <1>1, <1>2, <1>4, <1>5, <1>6, <1>7, <1>8 DEF InTurn

\* A decode changes nothing for the buffer process thread yet.
LEMMA ExeStep ==
  ASSUME Sure, Clear', Exe
  PROVE  (InTurn /\ Begun /\ Stage)'
<1>1. /\ Flying = 1 /\ Flying' = 0 /\ (bDecoderRun \/ pc = "sent") /\ Begins
      /\ UNCHANGED <<pos, gen, from, fed, flush, shown, eosOut, cur, inp, prevLen, bUseFlagEOF,
                        bSaveFlagEOS, reInputData, checkTimeStamp, pc, yet, len, out,
                        bConfiguredMFC, bFirstFrame, getAllDelayBuffer, bDecoderRun, index, buf,
                        tag, timeStamp, nFlags, ctx>>
  BY ExeFacts
<1>2. Begins' /\ (Displayed => Displayed')
  BY <1>1, Shifted DEF Begins
<1>3. InTurn'
  BY ExeInTurn
<1>4. Begun'
  BY <1>1, <1>2 DEF Sure, Begun
<1>5. ~Start /\ ~Finished
  BY <1>1, Handing1 DEF Start, Finished, Sure
<1>6. ASSUME NEW x \in Nat, Feeding(x) PROVE Feeding(x)'
  <2>1. Flow(0, x)'
    BY <1>6, FlowExe DEF Feeding
  <2>2. QED
    BY <1>1, <1>2, <1>6, <2>1 DEF Feeding, Running, Filled, Handing, NextIs
<1>7. ASSUME NEW x \in Nat, EndTaken(x) PROVE EndTaken(x)'
  <2>1. Flow(0, x)'
    BY <1>7, FlowExe DEF EndTaken
  <2>2. QED
    BY <1>1, <1>2, <1>7, <2>1 DEF EndTaken, Running, Filled, Handing, Over
<1>8. ASSUME NEW x \in Nat, NEW d \in Nat, Draining(d, x) PROVE Draining(d, x)'
  <2>1. Flow(d, x)' /\ Ahead' = Ahead
    BY <1>8, FlowExe DEF Draining
  <2>2. QED
    BY <1>1, <1>2, <1>8, <2>1 DEF Draining, Running, Filled, Handing, Over
<1>9. ASSUME NEW T, \A i \in 1 .. Len(pend) : pend[i].tag \in T, ctx.tag \in T, disp.tag \in T
      PROVE  (\A i \in 1 .. Len(pend') : pend'[i].tag \in T) /\ disp'.tag \in T
  <2>1. Len(pend) \in Nat
    BY NumberTypes
  <2>2. \A k \in 1 .. Len(pend) + 1 : All[k].tag \in T
    <3>1. TAKE k \in 1 .. Len(pend) + 1
    <3>2. k \in 1 .. Len(pend) \/ k = Len(pend) + 1
      BY <2>1
    <3>3. QED
      BY <1>9, <3>2, AllFacts
  <2>3. 1 \in 1 .. Len(pend) + 1
    BY <2>1
  <2>4. ASSUME NEW i \in 1 .. Len(pend') PROVE pend'[i].tag \in T
    <3>1. PICK k \in 1 .. Len(pend) + 1 : pend'[i] = All[k]
      BY Shifted
    <3>2. QED
      BY <2>2, <3>1
  <2>5. disp'.tag = All[1].tag \/ disp'.tag = disp.tag
    BY Shifted
  <2>6. QED
    BY <1>9, <2>2, <2>3, <2>4, <2>5
<1>t. /\ ctx.tag \in Tags /\ disp.tag \in Tags /\ disp'.tag \in Tags
      /\ \A i \in 1 .. Len(pend) : pend[i].tag \in Tags
  <2>1. ctx.tag \in Tags /\ disp.tag \in Tags /\ \A i \in 1 .. Len(pend) : pend[i].tag \in Tags
    BY PendTypes DEF Sure, Clear
  <2>2. QED
    BY <1>9, <2>1
<1>10. Silent => Silent'
  <2>1. SUFFICES ASSUME Silent PROVE Silent'
    OBVIOUS
  <2> DEFINE T == {t \in Tags : ~nFlags[t]}
  <2>2. (\A i \in 1 .. Len(pend) : pend[i].tag \in T) /\ ctx.tag \in T /\ disp.tag \in T
    BY <1>1, <1>t, <2>1 DEF Silent
  <2>3. (\A i \in 1 .. Len(pend') : pend'[i].tag \in T) /\ disp'.tag \in T
    <3> HIDE DEF T
    <3>1. QED
      BY <1>9, <2>2
  <2>4. QED
    BY <1>1, <1>2, <2>1, <2>3 DEF Silent, Running
<1>11. Seeking => Seeking'
  <2>1. SUFFICES ASSUME Seeking PROVE Seeking'
    OBVIOUS
  <2>2. CASE flush # "reset"
    BY <1>1, <2>1, <2>2 DEF Seeking
  <2>3. CASE flush = "reset"
    <3> DEFINE T == {t \in Tags : Forgotten(t)}
    <3>1. (\A i \in 1 .. Len(pend) : pend[i].tag \in T) /\ ctx.tag \in T /\ disp.tag \in T
      BY <1>1, <1>t, <2>1, <2>3 DEF Seeking
    <3>2. (\A i \in 1 .. Len(pend') : pend'[i].tag \in T) /\ disp'.tag \in T
      <4> HIDE DEF T
      <4>1. QED
        BY <1>9, <3>1
    <3>3. QED
      BY <1>1, <2>1, <2>3, <3>2 DEF Seeking, Forgotten
  <2>4. QED
    BY <2>2, <2>3
<1>12. QED
  BY <1>3, <1>4, <1>5, <1>6, <1>7, <1>8, <1>10, <1>11 DEF Sure, Stage

-----------------------------------------------------------------------------
(* A flush. *)

\* A flush that has been asked for is the stage.
LEMMA FlushStage ==
  ASSUME Sure, flush # "none"
  PROVE  Seeking /\ Displayed /\ ~bFirstFrame
BY DEF Sure, Begun, Stage, Start, Feeding, EndTaken, Draining, Finished, Silent, Running

\* The input port gives its buffer back ...
LEMMA FlushInputStep ==
  ASSUME Sure, Clear', FlushInput
  PROVE  (InTurn /\ Begun /\ Stage)'
<1>1. /\ flush = "asked" /\ flush' = "port" /\ cur' = NoInput /\ inp' = NoData /\ Flying' = Flying
      /\ UNCHANGED <<pos, gen, from, fed, shown, eosOut, prevLen, bUseFlagEOF,
                     bSaveFlagEOS, reInputData, checkTimeStamp, pc, yet, len, out,
                     bConfiguredMFC, bFirstFrame, getAllDelayBuffer, bDecoderRun, index, buf,
                     tag, timeStamp, nFlags, ctx, pend, disp>>
  BY DEF FlushInput, codecVars, threadVars, deviceVars, Flying
<1>2. Seeking /\ Displayed /\ ~bFirstFrame
  BY <1>1, FlushStage
<1>3. (Begins' <=> Begins) /\ (Displayed' <=> Displayed)
  BY <1>1 DEF Begins, Displayed
<1>4. InTurn'
  BY <1>1, <1>3, InTurnKept DEF Sure
<1>5. ~cur'.valid /\ ~cur'.left /\ inp'.len = 0 /\ ~inp'.eos
  BY <1>1 DEF NoInput, NoData
<1>6. Begun'
  BY <1>1, <1>2, <1>3, <1>5 DEF Sure, Begun
<1>7. Seeking'
  BY <1>1, <1>5 DEF Seeking
<1>8. QED
  BY <1>4, <1>6, <1>7 DEF Stage

\* ... and forgets the times of the frames under way.
LEMMA ResetInputStep ==
  ASSUME Sure, Clear', ResetInput
  PROVE  (InTurn /\ Begun /\ Stage)'
<1>1. /\ flush = "port" /\ flush' = "reset" /\ Flying' = Flying
      /\ checkTimeStamp' = [checkTimeStamp EXCEPT !.set = TRUE, !.check = FALSE]
      /\ timeStamp' = ForgottenTimes /\ nFlags' = [t \in Tags |-> FALSE]
      /\ ~getAllDelayBuffer' /\ ~bSaveFlagEOS'
      /\ UNCHANGED <<pos, gen, from, fed, shown, eosOut, cur, inp, prevLen, bUseFlagEOF, pc, yet,
                     len, out, bConfiguredMFC, bFirstFrame, bDecoderRun, index, buf, tag, ctx,
                     pend, disp>>
  BY DEF ResetInput, threadVars, deviceVars, Flying
<1>2. Seeking /\ Displayed /\ ~bFirstFrame
  BY <1>1, FlushStage
<1>3. (Begins' <=> Begins) /\ (Displayed' <=> Displayed)
  BY <1>1 DEF Begins, Displayed
<1>4. InTurn'
  BY <1>1, <1>3, InTurnKept DEF Sure
<1>5. checkTimeStamp'.set /\ ~checkTimeStamp'.check
  <2>1. checkTimeStamp \in [set : BOOLEAN, check : BOOLEAN, time : Times, eos : BOOLEAN]
    BY DEF Sure, Clear, Typed, InputOK
  <2>2. QED
    BY <1>1, <2>1
<1>6. \A t \in Tags : Forgotten(t)'
  BY <1>1 DEF Forgotten, ForgottenTimes
<1>7. /\ ctx'.tag \in Tags /\ disp'.tag \in Tags
      /\ \A i \in 1 .. Len(pend') : pend'[i].tag \in Tags
  BY <1>1, PendTypes DEF Sure, Clear
<1>8. Begun'
  BY <1>1, <1>2, <1>3 DEF Sure, Begun
<1>9. inp.len = 0 /\ ~inp.eos /\ ~cur.valid /\ ~cur.left
  BY <1>1, <1>2 DEF Seeking
<1>10. (\A i \in 1 .. Len(pend) : Forgotten(pend[i].tag))' /\ Forgotten(disp.tag)'
       /\ Forgotten(ctx.tag)'
  BY <1>6, <1>7 DEF Forgotten
<1>11. Seeking'
  BY <1>1, <1>5, <1>9, <1>10 DEF Seeking
<1>12. QED
  BY <1>4, <1>8, <1>11 DEF Stage

\* The client feeds from frame f on.
LEMMA FlushOutputStep ==
  ASSUME Sure, Clear', NEW f \in 1 .. Frames, FlushOutput(f)
  PROVE  (InTurn /\ Begun /\ Stage)'
<1>1. /\ flush = "reset" /\ pc \notin {"await", "read", "send", "sent"} /\ flush' = "none"
      /\ gen' = gen + 1 /\ from' = f /\ pos' = f /\ fed' = 0
      /\ shown' = <<>> /\ ~eosOut' /\ out' = NoOutput /\ Flying' = Flying
      /\ UNCHANGED <<cur, inp, prevLen, bUseFlagEOF, bSaveFlagEOS, reInputData, checkTimeStamp,
                     pc, yet, len, bConfiguredMFC, bFirstFrame, getAllDelayBuffer,
                     bDecoderRun, index, buf, tag, timeStamp, nFlags, ctx, pend, disp>>
  BY DEF FlushOutput, portVars, threadVars, deviceVars, Flying
<1>2. Seeking /\ Displayed /\ ~bFirstFrame
  BY <1>1, FlushStage
<1>3. (Begins' <=> Begins) /\ (Displayed' <=> Displayed) /\ Begins
  BY <1>1, <1>2 DEF Begins, Displayed
<1>4. InTurn'
  BY <1>1, <1>3, InTurnKept DEF Sure
<1>5. f \in Nat /\ f # 0 /\ gen' > 0 /\ f \in 1 .. Frames
  <2>1. gen \in Nat /\ Frames \in Nat
    BY NumberTypes
  <2>2. f \in Nat /\ f # 0 /\ gen + 1 > 0
    BY <2>1
  <2>3. QED
    BY <1>1, <2>2
<1>6. ~out'.valid /\ ~out'.eos /\ out'.time = 0
  BY <1>1 DEF NoOutput
<1>7. /\ inp.len = 0 /\ ~inp.eos /\ ~cur.valid /\ ~cur.left /\ ~getAllDelayBuffer /\ ~bSaveFlagEOS
      /\ checkTimeStamp.set /\ ~checkTimeStamp.check
      /\ \A i \in 1 .. Len(pend) : Forgotten(pend[i].tag)
      /\ Forgotten(disp.tag) /\ (Flying = 1 => Forgotten(ctx.tag))
  BY <1>1, <1>2 DEF Seeking
<1>8. Begun'
  BY <1>1, <1>2, <1>3, <1>5, <1>6, <1>7 DEF Sure, Begun
<1>9. Line(0, f)'
  <2>1. /\ Len(pend) \in Nat /\ Flying \in 0 .. 1
        /\ \A i \in 0 .. Len(pend) : Flying + Len(pend) + 1 - i \in Nat
                                   /\ Flying + Len(pend) + 1 - i >= 1
    <3>1. Len(pend) \in Nat /\ Flying \in 0 .. 1
      BY NumberTypes
    <3>2. QED
      BY <3>1
  <2>2. \A j \in Nat : j >= 1 => ~(f + 0 - j >= f) /\ j # 0 /\ j > 0
    BY <1>5
  <2>3. \A i \in 0 .. Len(pend) : Place(i)' = Flying + Len(pend) + 1 - i
    BY <1>1 DEF Place
  <2>4. \A i \in 0 .. Len(pend) :
          ~(f + 0 - Place(i)' >= f) /\ Place(i)' # 0 /\ Place(i)' > 0
    BY <2>1, <2>2, <2>3
  <2>5. ~(f + 0 - 1 >= f)
    BY <1>5
  <2>6. (Flying = 1 => Entry(0, f, 1, Carried, ctx.tag))'
    BY <1>1, <1>7, <2>5 DEF Entry, Forgotten
  <2>7. ASSUME NEW i \in 1 .. Len(pend) PROVE Entry(0, f, Place(i), pend[i].c, pend[i].tag)'
    <3>1. ~(f + 0 - Place(i)' >= f) /\ Place(i)' # 0 /\ Place(i)' > 0
      BY <2>1, <2>4
    <3>2. ~nFlags'[pend'[i].tag] /\ timeStamp'[pend'[i].tag] = NoTime
      BY <1>1, <1>7 DEF Forgotten
    <3>3. QED
      BY <1>1, <3>1, <3>2 DEF Entry
  <2>8. Entry(0, f, Place(0), disp.c, disp.tag)'
    <3>1. ~(f + 0 - Place(0)' >= f) /\ Place(0)' # 0 /\ Place(0)' > 0
      BY <2>1, <2>4
    <3>2. ~nFlags'[disp'.tag] /\ timeStamp'[disp'.tag] = NoTime
      BY <1>1, <1>7 DEF Forgotten
    <3>3. QED
      BY <1>1, <3>1, <3>2 DEF Entry
  <2>9. QED
    BY <1>1, <2>6, <2>7, <2>8 DEF Line
<1>a. Ahead' \in Nat
  <2>1. Ahead' = Flying' + Len(pend') + (IF Unread' THEN 1 ELSE 0)
    BY Zenon DEF Ahead
  <2> DEFINE u == IF Unread' THEN 1 ELSE 0
  <2>2. u \in 0 .. 1 /\ Ahead' = Flying' + Len(pend') + u
    BY <2>1
  <2> HIDE DEF u
  <2>3. Flying' \in 0 .. 1 /\ Len(pend') \in Nat
    BY <1>1, NumberTypes
  <2>4. QED
    BY <2>2, <2>3
<1>10. Count(0, f)' = 0
  <2>1. ~(f + 0 - Ahead' > from')
    <3> DEFINE a == Ahead'
    <3>1. a \in Nat
      BY <1>a
    <3> HIDE DEF a
    <3>2. ~(f + 0 - a > f)
      BY <1>5, <3>1
    <3>3. QED
      BY <1>1, <3>2 DEF a
  <2>2. QED
    BY <2>1, Zenon DEF Count
<1>11. Delivered(0, f)'
  <2>1. Len(shown') = 0 /\ ~OutFrame'
    BY <1>1, <1>6 DEF OutFrame
  <2>2. QED
    BY <1>1, <1>6, <1>10, <2>1 DEF Delivered
<1>12. Checked(0, f)'
  BY <1>1, <1>5, <1>7 DEF Checked
<1>13. Flow(0, f)'
  BY <1>9, <1>11, <1>12 DEF Flow
<1>14. NextIs(f)'
  <2>1. f + 0 <= f + 0
    BY <1>5
  <2>2. QED
    BY <1>1, <1>7, <2>1 DEF NextIs
<1>15. Running'
  BY <1>1, <1>3 DEF Running
<1>16. ~(f > from') /\ f >= from' /\ gen' # 0
  BY <1>1, <1>5
<1>17. Feeding(f)'
  BY <1>1, <1>5, <1>7, <1>13, <1>14, <1>15, <1>16 DEF Feeding, Working
<1>18. QED
  BY <1>4, <1>5, <1>8, <1>17 DEF Stage

-----------------------------------------------------------------------------
(* The invariant. *)

\* Every step of a decoder that has not failed and is not ending keeps the stage.
LEMMA StageStep ==
  ASSUME Sure, Clear', [Next]_vars
  PROVE  (InTurn /\ Begun /\ Stage)'
<1>1. CASE GetHeader
  BY <1>1, GetHeaderStep
<1>2. ASSUME NEW e \in BOOLEAN, GetFrame(e) PROVE (InTurn /\ Begun /\ Stage)'
  BY <1>2, GetFrameStep
<1>3. CASE GetEnd
  BY <1>3, GetEndStep
<1>4. CASE AskFlush
  BY <1>4, AskFlushStep
<1>5. CASE AskExit
  BY <1>5 DEF AskExit, Clear, Ends
<1>6. CASE Preprocess
  BY <1>6, PreprocessStep
<1>7. CASE SkipPreprocess
  BY <1>7, SkipPreprocessStep
<1>8. CASE DecodeNothing
  BY <1>8, UnconfiguredStep
<1>9. CASE Configure
  BY <1>9, UnconfiguredStep
<1>10. CASE Begin
  BY <1>10, BeginStep
<1>11. CASE Await
  BY <1>11, AwaitStep
<1>12. CASE Read
  BY <1>12, ReadStep
<1>13. CASE Send
  BY <1>13, SendStep
<1>14. CASE Sent
  BY <1>14, SentStep
<1>15. CASE SendNothing
  BY <1>15, SendNothingStep
<1>16. CASE Done
  BY <1>16, DoneStep
<1>17. CASE Postprocess
  BY <1>17, PostprocessStep
<1>18. CASE StartExe
  BY <1>18, StartExeStep
<1>19. CASE Exe
  BY <1>19, ExeStep
<1>20. CASE PostEnd
  BY <1>20, PostEndStep
<1>21. CASE FlushInput
  BY <1>21, FlushInputStep
<1>22. CASE ResetInput
  BY <1>22, ResetInputStep
<1>23. ASSUME NEW f \in 1 .. Frames, FlushOutput(f) PROVE (InTurn /\ Begun /\ Stage)'
  BY <1>23, FlushOutputStep
<1>24. CASE PostExit
  BY <1>24 DEF PostExit, Sure, Clear, Ends
<1>25. CASE Close
  BY <1>25 DEF Close, Sure, Clear, Ends
<1>26. CASE UNCHANGED vars
  <2>1. /\ UNCHANGED <<clientVars, portVars, pc, codecVars, ctx, pend, disp>>
        /\ UNCHANGED <<dpc, hDecFrameStart>>
    BY <1>26 DEF vars, threadVars, deviceVars
  <2>2. Flying' = Flying
    BY <2>1 DEF Flying
  <2>3. QED
    BY <2>1, <2>2, StageKept
<1>27. QED
  BY <1>1, <1>2, <1>3, <1>4, <1>5, <1>6, <1>7, <1>8, <1>9, <1>10, <1>11, <1>12, <1>13,
     <1>14, <1>15, <1>16, <1>17, <1>18, <1>19, <1>20, <1>21, <1>22, <1>23, <1>24, <1>25,
     <1>26
  DEF Next, ClientNext, BufferProcess, DecodeThread, Flushing, Terminating

\* A failure is not forgotten, and the end of the threads is one.
LEMMA Onward ==
  ASSUME Typed, [Next]_vars
  PROVE  (Calm' => Calm) /\ (pc' \notin Ends => pc \notin Ends)
<1> USE DEF Calm, Ends, clientVars, portVars, codecVars, deviceVars, threadVars
<1>0. errors \in Nat /\ repeats \in Nat
  BY MfcDecodeAssumption DEF Typed, DeviceOK
<1>1. CASE GetHeader
  BY <1>0, <1>1 DEF GetHeader, TakesInput, Feed
<1>2. ASSUME NEW e \in BOOLEAN, GetFrame(e)
      PROVE  (Calm' => Calm) /\ (pc' \notin Ends => pc \notin Ends)
  BY <1>0, <1>2 DEF GetFrame, TakesInput, Feed
<1>3. CASE GetEnd
  BY <1>0, <1>3 DEF GetEnd, TakesInput, Feed
<1>4. CASE AskFlush
  BY <1>0, <1>4 DEF AskFlush
<1>5. CASE AskExit
  BY <1>0, <1>5 DEF AskExit
<1>6. CASE Preprocess
  BY <1>0, <1>6 DEF Preprocess
<1>7. CASE SkipPreprocess
  BY <1>0, <1>7 DEF SkipPreprocess
<1>8. CASE DecodeNothing
  BY <1>0, <1>8 DEF DecodeNothing, Conclude
<1>9. CASE Configure
  BY <1>0, <1>9 DEF Configure, Conclude
<1>10. CASE Begin
  BY <1>0, <1>10 DEF Begin, Collect
<1>11. CASE Await
  BY <1>0, <1>11 DEF Await
<1>12. CASE Read
  BY <1>0, <1>12 DEF Read
<1>13. CASE Send
  BY <1>0, <1>13 DEF Send
<1>14. CASE Sent
  BY <1>0, <1>14 DEF Sent, Conclude
<1>15. CASE SendNothing
  BY <1>0, <1>15 DEF SendNothing, Conclude
<1>16. CASE Done
  BY <1>0, <1>16 DEF Done
<1>17. CASE Postprocess
  BY <1>0, <1>17 DEF Postprocess
<1>18. CASE StartExe
  BY <1>0, <1>18 DEF StartExe
<1>19. CASE Exe
  <2>1. pc' = pc
    BY <1>19 DEF Exe
  <2>2. CASE Decoded
    BY <2>1, <2>2 DEF Decoded
  <2>3. CASE ShownOnly
    BY <1>0, <2>1, <2>3 DEF ShownOnly
  <2>4. CASE ExeFails
    BY <1>0, <2>1, <2>4 DEF ExeFails
  <2>5. QED
    BY <1>19, <2>2, <2>3, <2>4 DEF Exe
<1>20. CASE PostEnd
  BY <1>0, <1>20 DEF PostEnd
<1>21. CASE FlushInput
  BY <1>0, <1>21 DEF FlushInput
<1>22. CASE ResetInput
  BY <1>0, <1>22 DEF ResetInput
<1>23. ASSUME NEW f \in 1 .. Frames, FlushOutput(f)
       PROVE  (Calm' => Calm) /\ (pc' \notin Ends => pc \notin Ends)
  BY <1>0, <1>23 DEF FlushOutput
<1>24. CASE PostExit
  BY <1>0, <1>24 DEF PostExit, WakeThread
<1>25. CASE Close
  BY <1>0, <1>25 DEF Close
<1>26. CASE UNCHANGED vars
  BY <1>26 DEF vars
<1>27. QED
  BY <1>1, <1>2, <1>3, <1>4, <1>5, <1>6, <1>7, <1>8, <1>9, <1>10, <1>11, <1>12, <1>13,
     <1>14, <1>15, <1>16, <1>17, <1>18, <1>19, <1>20, <1>21, <1>22, <1>23, <1>24, <1>25,
     <1>26
  DEF Next, ClientNext, BufferProcess, DecodeThread, Flushing, Terminating

\* Pictures are delivered and forgotten, and buffers fed, by these steps only.
Quiet == UNCHANGED <<gen, from, shown, eosOut>>
Untold == pos \in 0 .. Frames + 1 \/ UNCHANGED <<pos, fed>>

\* Every other step leaves them alone, but for a buffer fed before the end.
LEMMA Tellers ==
  ASSUME Typed, [Next]_vars, ~Postprocess, \A f \in 1 .. Frames : ~FlushOutput(f)
  PROVE  Quiet /\ Untold
<1> USE DEF Quiet, Untold, clientVars
<1>0. pos \in 0 .. Frames + 2 /\ Frames \in Nat
  BY MfcDecodeAssumption DEF Typed, ClientOK
<1>1. CASE GetHeader
  BY <1>0, <1>1 DEF GetHeader, Header, Feed
<1>2. ASSUME NEW e \in BOOLEAN, GetFrame(e) PROVE Quiet /\ Untold
  BY <1>0, <1>2 DEF GetFrame, Feed
<1>3. CASE GetEnd
  BY <1>0, <1>3 DEF GetEnd, Feed
<1>4. CASE AskFlush
  BY <1>4 DEF AskFlush
<1>5. CASE AskExit
  BY <1>5 DEF AskExit
<1>6. CASE Preprocess
  BY <1>6 DEF Preprocess
<1>7. CASE SkipPreprocess
  BY <1>7 DEF SkipPreprocess
<1>8. CASE DecodeNothing
  BY <1>8 DEF DecodeNothing
<1>9. CASE Configure
  BY <1>9 DEF Configure
<1>10. CASE Begin
  BY <1>10 DEF Begin
<1>11. CASE Await
  BY <1>11 DEF Await
<1>12. CASE Read
  BY <1>12 DEF Read
<1>13. CASE Send
  BY <1>13 DEF Send
<1>14. CASE Sent
  BY <1>14 DEF Sent
<1>15. CASE SendNothing
  BY <1>15 DEF SendNothing
<1>16. CASE Done
  BY <1>16 DEF Done
<1>17. CASE Postprocess
  BY <1>17
<1>18. CASE StartExe
  BY <1>18 DEF StartExe
<1>19. CASE Exe
  BY <1>19 DEF Exe
<1>20. CASE PostEnd
  BY <1>20 DEF PostEnd
<1>21. CASE FlushInput
  BY <1>21 DEF FlushInput
<1>22. CASE ResetInput
  BY <1>22 DEF ResetInput
<1>23. ASSUME NEW f \in 1 .. Frames, FlushOutput(f) PROVE Quiet /\ Untold
  BY <1>23
<1>24. CASE PostExit
  BY <1>24 DEF PostExit
<1>25. CASE Close
  BY <1>25 DEF Close
<1>26. CASE UNCHANGED vars
  BY <1>26 DEF vars
<1>27. QED
  BY <1>1, <1>2, <1>3, <1>4, <1>5, <1>6, <1>7, <1>8, <1>9, <1>10, <1>11, <1>12, <1>13,
     <1>14, <1>15, <1>16, <1>17, <1>18, <1>19, <1>20, <1>21, <1>22, <1>23, <1>24, <1>25,
     <1>26
  DEF Next, ClientNext, BufferProcess, DecodeThread, Flushing, Terminating

\* The invariant.
OrderInv ==
  /\ Typed /\ HandOver
  /\ Calm /\ pc \notin Ends => InTurn /\ Begun /\ Stage
  /\ Calm => NoMore
  /\ ShownInOrder

\* The invariant holds at first.
LEMMA OrderInit == Init => OrderInv
<1> SUFFICES ASSUME Init PROVE OrderInv
  OBVIOUS
<1>1. Typed /\ HandOver
  BY TypedInit, HandOverInit
<1>2. /\ pos = 0 /\ gen = 0 /\ from = 1 /\ fed = 0 /\ flush = "none" /\ shown = <<>> /\ ~eosOut
      /\ cur = NoInput /\ inp = NoData /\ ~bUseFlagEOF /\ ~bSaveFlagEOS /\ ~reInputData
      /\ checkTimeStamp = NoStart /\ pc = "input" /\ ~yet /\ out = NoOutput
      /\ ~bConfiguredMFC /\ bFirstFrame /\ ~getAllDelayBuffer /\ tag = 0
      /\ dpc = "wait" /\ hDecFrameStart = 0 /\ pend = <<>>
      /\ disp = [status |-> "decoding", c |-> Blank, tag |-> 0]
  BY DEF Init
<1>3. Len(pend) = 0 /\ Len(shown) = 0 /\ Flying = 0 /\ ~Displayed /\ disp.tag = 0
      /\ disp.status = "decoding" /\ ~Begins
  BY <1>2 DEF Flying, Displayed, Begins
<1>4. /\ ~cur.valid /\ ~cur.left /\ inp.len = 0 /\ ~out.valid /\ ~out.eos
      /\ ~checkTimeStamp.set /\ ~checkTimeStamp.check
  BY <1>2 DEF NoInput, NoData, NoOutput, NoStart
<1>5. InTurn
  BY <1>2, <1>3, MfcDecodeAssumption DEF InTurn
<1>6. Begun
  BY <1>2, <1>3, <1>4 DEF Begun
<1>7. Opening
  BY <1>2, <1>4 DEF Opening
<1>8. Start
  BY <1>2, <1>4, <1>7, Zenon DEF Start
<1>9. NoMore /\ ShownInOrder
  BY <1>2, <1>3 DEF NoMore, ShownInOrder
<1>10. QED
  BY <1>1, <1>5, <1>6, <1>8, <1>9 DEF OrderInv, Stage

\* Every step preserves it.
LEMMA OrderStep == OrderInv /\ [Next]_vars => OrderInv'
<1> SUFFICES ASSUME OrderInv, [Next]_vars PROVE OrderInv'
  OBVIOUS
<1>1. Typed /\ Typed' /\ HandOver /\ HandOver'
  BY TypedStep, HandOverStep DEF OrderInv
<1>2. (Calm' => Calm) /\ (pc' \notin Ends => pc \notin Ends)
  BY <1>1, Onward
<1>3. ASSUME Calm', pc' \notin Ends PROVE (InTurn /\ Begun /\ Stage)'
  <2>1. Clear' /\ Sure
    BY <1>1, <1>2, <1>3 DEF OrderInv, Clear, Sure
  <2>2. QED
    BY <2>1, StageStep
<1>4. ASSUME Calm' PROVE NoMore' /\ ShownInOrder'
  <2>1. Calm /\ NoMore /\ ShownInOrder
    BY <1>2, <1>4 DEF OrderInv
  <2>2. CASE Postprocess
    <3>1. pc \notin Ends
      BY <2>2 DEF Postprocess, Ends
    <3>2. Sure
      BY <1>1, <2>1, <3>1 DEF OrderInv, Clear, Sure
    <3>3. QED
      BY <2>1, <2>2, <3>2, PostprocessOrder, PostprocessMore
  <2>3. ASSUME NEW f \in 1 .. Frames, FlushOutput(f) PROVE NoMore' /\ ShownInOrder'
    <3>1. shown' = <<>> /\ ~eosOut'
      BY <2>3 DEF FlushOutput
    <3>2. Len(shown') = 0
      BY <3>1
    <3>3. QED
      BY <3>1, <3>2 DEF NoMore, ShownInOrder
  <2>4. CASE ~Postprocess /\ \A f \in 1 .. Frames : ~FlushOutput(f)
    <3>1. Quiet /\ Untold
      BY <1>1, <2>4, Tellers
    <3>2. Frames \in Nat
      BY MfcDecodeAssumption
    <3>3. eosOut => UNCHANGED <<pos, fed>>
      BY <2>1, <3>1, <3>2 DEF NoMore, Untold
    <3>4. NoMore'
      BY <2>1, <3>1, <3>3 DEF NoMore, Quiet
    <3>5. ShownInOrder'
      BY <2>1, <3>1 DEF ShownInOrder, Quiet
    <3>6. QED
      BY <3>4, <3>5
  <2>5. QED
    BY <2>2, <2>3, <2>4
<1>5. ShownInOrder'
  <2>1. CASE Calm'
    BY <1>4, <2>1
  <2>2. CASE ~Calm'
    BY <2>2 DEF ShownInOrder
  <2>3. QED
    BY <2>1, <2>2
<1>6. QED
  BY <1>1, <1>3, <1>4, <1>5 DEF OrderInv

(* As long as no call of the device has failed or repeated a picture, the pictures
   delivered after a seek are those of the frames fed since, from the first one on,
   none left out, none twice and each with its own time: for every stream, display
   delay, size of the table of time stamps and number of seeks, and however the two
   threads and the flush interleave. *)
THEOREM PicturesInOrder == Spec => []ShownInOrder
<1>1. OrderInv => ShownInOrder
  BY DEF OrderInv
<1>2. QED
  BY <1>1, OrderInit, OrderStep, PTL DEF Spec

(* Nor is the end of the stream told before every frame has been shown that came in
   a buffer without it. *)
THEOREM EndAfterFrames == Spec => []EosAfterFrames
<1>1. OrderInv => EosAfterFrames
  BY DEF OrderInv, NoMore, EosAfterFrames
<1>2. QED
  BY <1>1, OrderInit, OrderStep, PTL DEF Spec
=============================================================================
