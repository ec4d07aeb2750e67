------------------------ MODULE OmxBufferFlowProofs ------------------------
(***************************************************************************)
(* Proofs about OmxBufferFlow for any numbers of buffers, any ring size    *)
(* and any set of commands.  The inductive invariants are built in layers: *)
(*   FlowInv    types, the element counts, and who holds which mutex;      *)
(*   + NoBufferShared, which needs FlowInv's exclusion, and on it OwnInv   *)
(*     with NoBufferLost, when the ring holds all headers;                 *)
(*   + TokenInv, the tokens behind the counted headers;                    *)
(*   + SerialInv and IdleInv, what a client that awaits each call can      *)
(*     rely on.                                                            *)
(***************************************************************************)
EXTENDS OmxBufferFlow, FiniteSets, FiniteSetTheorems, SequenceTheorems, TLAPS

(* The program points between locking and unlocking bufferMutex[port[t]]. *)
LockedSteps == {"return", "return_check", "return_reset", "return_wait", "return_clear",
                "flush_count", "flush_wait", "flush_drain", "flush_drain_wait"}

(* A thread at one of them holds the mutex; sec_mfc_bufferProcess holds the
   input port's while it waits for the output port's. *)
LockInv ==
  /\ \A t \in Threads : pc[t] \in LockedSteps => bufferMutex[port[t]] = t
  /\ pc["process"] = "decode_locked" => bufferMutex[INPUT_PORT_INDEX] = "process"

(* There is a header to return, and a header to submit. *)
HeaderInv ==
  /\ \A t \in Threads : pc[t] = "return" => dataBuffer[port[t]] # NULL
  /\ \A p \in Port : call[p].step = "queue" => call[p].buffer # NULL

FlowInv == TypeOK /\ CountBacked /\ LockInv /\ HeaderInv

-----------------------------------------------------------------------------
(* What a dequeue and a submission do to a port's queue. *)

QueueTyped == bufferQ \in [Port -> Seq(AllBuffers)] /\ numElem \in [Port -> Nat]

LEMMA Dequeued ==
  ASSUME QueueTyped, NEW p \in Port, Dequeueable(p), Dequeue(p)
  PROVE  /\ QueueTyped' /\ Head(bufferQ[p]) \in AllBuffers
         /\ CountBacked => CountBacked'
         /\ \A o \in Port \ {p} : bufferQ'[o] = bufferQ[o]
         /\ Head(bufferQ[p]) \in Queued(p)
         /\ Queued(p)' \subseteq Queued(p)
         /\ Queued(p) \subseteq Queued(p)' \union {Head(bufferQ[p])}
         /\ Distinct(p) => Distinct(p)' /\ Head(bufferQ[p]) \notin Queued(p)'
<1> DEFINE q == bufferQ[p]
<1>1. q \in Seq(AllBuffers) /\ q # <<>> /\ bufferQ'[p] = Tail(q)
  BY DEF QueueTyped, Dequeueable, Dequeue
<1>2. /\ Head(q) \in AllBuffers /\ Tail(q) \in Seq(AllBuffers)
      /\ Len(q) \in Nat /\ Len(Tail(q)) = Len(q) - 1
      /\ \A i \in 1 .. Len(Tail(q)) : Tail(q)[i] = q[i + 1]
      /\ Head(q) = q[1] /\ Len(q) > 0
  <2> HIDE DEF q
  <2>1. /\ Head(q) \in AllBuffers /\ Tail(q) \in Seq(AllBuffers)
        /\ Len(Tail(q)) = Len(q) - 1
        /\ \A i \in 1 .. Len(Tail(q)) : Tail(q)[i] = q[i + 1]
    BY <1>1, HeadTailProperties, Zenon
  <2>2. Len(q) \in Nat /\ Len(q) > 0 /\ Head(q) = q[1]
    BY <1>1, LenProperties, EmptySeq
  <2> QED BY <2>1, <2>2
<1>3. \A o \in Port \ {p} : bufferQ'[o] = bufferQ[o] /\ numElem'[o] = numElem[o]
  BY DEF QueueTyped, Dequeue
<1>4. QueueTyped' /\ numElem'[p] = numElem[p] - 1
  BY <1>1, <1>2 DEF QueueTyped, Dequeue, Dequeueable
<1>5. DOMAIN q = 1 .. Len(q) /\ DOMAIN bufferQ'[p] = 1 .. Len(q) - 1
  BY <1>1, <1>2, LenProperties
<1> HIDE DEF q
<1>6. CountBacked => CountBacked'
  BY <1>1, <1>2, <1>3, <1>4 DEF CountBacked, QueueTyped, q
<1>7. \A i \in DOMAIN bufferQ'[p] : i + 1 \in DOMAIN q /\ bufferQ'[p][i] = q[i + 1]
  BY <1>1, <1>2, <1>5
<1>8. \A i \in DOMAIN q : i = 1 \/ (i - 1 \in DOMAIN bufferQ'[p] /\ q[i] = bufferQ'[p][i - 1])
  BY <1>1, <1>2, <1>5
<1>9. Head(q) \in Queued(p) /\ Queued(p)' \subseteq Queued(p)
  BY <1>2, <1>5, <1>7 DEF Queued, q
<1>10. Queued(p) \subseteq Queued(p)' \union {Head(q)}
  BY <1>2, <1>8 DEF Queued, q
<1>11. ASSUME Distinct(p) PROVE Distinct(p)' /\ Head(q) \notin Queued(p)'
  <2>1. Distinct(p)'
    BY <1>5, <1>7, <1>11 DEF Distinct, q
  <2>2. Head(q) \notin Queued(p)'
    BY <1>2, <1>5, <1>7, <1>11 DEF Distinct, Queued, q
  <2> QED BY <2>1, <2>2
<1> QED BY <1>2, <1>3, <1>4, <1>6, <1>9, <1>10, <1>11 DEF q

LEMMA Enqueued ==
  ASSUME QueueTyped, NEW p \in Port, NEW b \in AllBuffers,
         bufferQ' = [bufferQ EXCEPT ![p] = Append(@, b)],
         numElem' = [numElem EXCEPT ![p] = @ + 1]
  PROVE  /\ QueueTyped'
         /\ CountBacked => CountBacked'
         /\ \A o \in Port \ {p} : bufferQ'[o] = bufferQ[o]
         /\ Queued(p)' = Queued(p) \union {b}
         /\ Distinct(p) /\ b \notin Queued(p) => Distinct(p)'
<1> DEFINE q == bufferQ[p]
<1>1. q \in Seq(AllBuffers) /\ bufferQ'[p] = Append(q, b)
  BY DEF QueueTyped
<1>2. /\ Append(q, b) \in Seq(AllBuffers) /\ Len(q) \in Nat
      /\ Len(Append(q, b)) = Len(q) + 1
      /\ \A i \in 1 .. Len(q) : Append(q, b)[i] = q[i]
      /\ Append(q, b)[Len(q) + 1] = b
  <2> HIDE DEF q
  <2> QED BY <1>1, AppendProperties, LenProperties
<1>3. \A o \in Port \ {p} : bufferQ'[o] = bufferQ[o] /\ numElem'[o] = numElem[o]
  BY DEF QueueTyped
<1>4. QueueTyped' /\ numElem'[p] = numElem[p] + 1
  BY <1>1, <1>2 DEF QueueTyped
<1>5. DOMAIN q = 1 .. Len(q) /\ DOMAIN bufferQ'[p] = 1 .. Len(q) + 1
  BY <1>1, <1>2, LenProperties
<1> HIDE DEF q
<1>6. CountBacked => CountBacked'
  BY <1>1, <1>2, <1>3, <1>4 DEF CountBacked, QueueTyped, q
<1>7. Queued(p)' \subseteq Queued(p) \union {b}
  BY <1>1, <1>2, <1>5 DEF Queued, q
<1>8. Queued(p) \union {b} \subseteq Queued(p)'
  BY <1>1, <1>2, <1>5 DEF Queued, q
<1>9. ASSUME Distinct(p), b \notin Queued(p) PROVE Distinct(p)'
  BY <1>1, <1>2, <1>5, <1>9 DEF Distinct, Queued, q
<1> QED BY <1>3, <1>4, <1>6, <1>7, <1>8, <1>9

-----------------------------------------------------------------------------
(* The four actions whose effect on the type invariant takes more than a
   look: those that move headers through the queue, and the end of a return. *)

LEMMA SubmitQueuedInv ==
  ASSUME FlowInv, NEW p \in Port, SubmitQueued(p)
  PROVE  FlowInv'
<1>1. QueueTyped' /\ CountBacked'
  <2>1. QueueTyped /\ call[p].buffer \in AllBuffers
    BY DEF FlowInv, TypeOK, HeaderInv, QueueTyped, SubmitQueued
  <2>2. CASE UNCHANGED <<bufferQ, numElem>>
    BY <2>1, <2>2 DEF FlowInv, QueueTyped, CountBacked
  <2>3. CASE ~ UNCHANGED <<bufferQ, numElem>>
    BY <2>1, <2>3, Enqueued DEF FlowInv, SubmitQueued
  <2> QED BY <2>2, <2>3
<1>2. TypeOK'
  BY <1>1, OmxBufferFlowAssumption
     DEF FlowInv, TypeOK, QueueTyped, SubmitQueued, stateVars, dataVars, flagVars, threadVars
<1>3. LockInv' /\ HeaderInv'
  BY <1>1 DEF FlowInv, TypeOK, LockInv, HeaderInv, SubmitQueued, dataVars, threadVars
<1> QED BY <1>1, <1>2, <1>3 DEF FlowInv

LEMMA GetQueueLockedInv ==
  ASSUME FlowInv, GetQueueLocked
  PROVE  FlowInv'
<1> DEFINE p == port["process"]
<1>0. p \in Port /\ QueueTyped
  BY DEF FlowInv, TypeOK, QueueTyped, Threads
<1>1. QueueTyped' /\ CountBacked' /\ dataBuffer' \in [Port -> AllBuffers \union {NULL}]
      /\ \A o \in Port : dataBuffer[o] # NULL => dataBuffer'[o] = dataBuffer[o]
  <2>2. CASE UNCHANGED <<bufferQ, numElem, dataBuffer>>
    BY <1>0, <2>2 DEF FlowInv, TypeOK, QueueTyped, CountBacked
  <2>3. CASE dataBuffer[p] = NULL /\ Dequeueable(p) /\ Dequeue(p)
             /\ dataBuffer' = [dataBuffer EXCEPT ![p] = Head(bufferQ[p])]
    BY <1>0, <2>3, Dequeued DEF FlowInv, TypeOK
  <2> QED BY <2>2, <2>3 DEF GetQueueLocked
<1>2. TypeOK'
  BY <1>1
     DEF FlowInv, TypeOK, QueueTyped, GetQueueLocked, Goto, Threads, stateVars, dataVars, flagVars, clientVars
<1>3. LockInv' /\ HeaderInv'
  BY <1>1 DEF FlowInv, TypeOK, LockInv, LockedSteps, HeaderInv, GetQueueLocked, Goto,
     Threads, clientVars
<1> QED BY <1>1, <1>2, <1>3 DEF FlowInv

LEMMA FlushReturnInv ==
  ASSUME FlowInv, FlushReturn
  PROVE  FlowInv'
<1> DEFINE p == port["handler"]
<1>0. p \in Port /\ QueueTyped
  BY DEF FlowInv, TypeOK, QueueTyped, Threads
<1>1. QueueTyped' /\ CountBacked' /\ client' \in [Port -> SUBSET AllBuffers]
  <2>2. CASE UNCHANGED <<bufferQ, numElem, client>>
    BY <1>0, <2>2 DEF FlowInv, TypeOK, QueueTyped, CountBacked
  <2>3. CASE Dequeueable(p) /\ Dequeue(p) /\ BufferDone(p, Head(bufferQ[p]))
    BY <1>0, <2>3, Dequeued DEF FlowInv, TypeOK, BufferDone
  <2> QED BY <2>2, <2>3 DEF FlushReturn
<1>2. bufferSemID' \in [Port -> Nat]
  BY <1>0 DEF FlowInv, TypeOK, FlushReturn, Wait
<1>3. pc' = [pc EXCEPT !["handler"] = "flush_count"] /\ UNCHANGED <<port, call, dataVars>>
  BY DEF FlushReturn, Goto
<1>5. TypeOK'
  BY <1>1, <1>2, <1>3
     DEF FlowInv, TypeOK, QueueTyped, FlushReturn, Threads, stateVars, dataVars, flagVars
<1>4. LockInv' /\ HeaderInv'
  BY <1>3 DEF FlowInv, TypeOK, LockInv, LockedSteps, HeaderInv, FlushReturn, Threads,
     dataVars
<1> QED BY <1>1, <1>4, <1>5 DEF FlowInv

LEMMA ProcessReturnClearInv ==
  ASSUME FlowInv, ProcessReturnClear
  PROVE  FlowInv'
<1> DEFINE p == port["process"]
<1>1. p \in Port /\ result \in BOOLEAN
  BY DEF FlowInv, TypeOK, Threads
<1>2. remainOutputData' \in BOOLEAN
  <2>1. CASE p = INPUT_PORT_INDEX
    BY <2>1 DEF FlowInv, TypeOK, ProcessReturnClear
  <2>2. CASE p # INPUT_PORT_INDEX
    <3>1. remainOutputData' = ~result
      BY <2>2 DEF ProcessReturnClear
    <3> QED BY <1>1, <3>1, Zenon
  <2> QED BY <2>1, <2>2
<1>3. \E label \in {"get", "decode", "run"} : pc' = [pc EXCEPT !["process"] = label]
  BY DEF ProcessReturnClear, AfterPreprocess, GotoPort, Goto
<1>4. port' \in [Threads -> Port] /\ port'["handler"] = port["handler"]
  BY DEF FlowInv, TypeOK, ProcessReturnClear, AfterPreprocess, GotoPort, Port, Threads
<1>5. TypeOK' /\ CountBacked'
  BY <1>2, <1>3, <1>4 DEF FlowInv, TypeOK, CountBacked, ProcessReturnClear, Threads,
     stateVars, queueVars, clientVars
<1>6. LockInv' /\ HeaderInv'
  BY <1>3, <1>4, <1>5 DEF FlowInv, TypeOK, LockInv, LockedSteps, HeaderInv,
     ProcessReturnClear, Threads, clientVars
<1> QED BY <1>5, <1>6 DEF FlowInv

-----------------------------------------------------------------------------
(* FlowInv holds initially and every step preserves it. *)
LEMMA FlowInvInit == Init => FlowInv
<1> SUFFICES ASSUME Init PROVE FlowInv
  OBVIOUS
<1>1. TypeOK
  <2>1. messageQ \in Seq(Commands) /\ Len(messageQ) < MAX_QUEUE_ELEMENTS
    BY OmxBufferFlowAssumption DEF Init
  <2>2. client \in [Port -> SUBSET AllBuffers] /\ cmd \in AllCommands
    BY DEF Init, Buffers, AllBuffers, AllCommands, StateSet
  <2>3. /\ bufferQ \in [Port -> Seq(AllBuffers)]
        /\ call \in [Port -> [step : {"none", "queue", "post"}, buffer : AllBuffers \union {NULL}]]
    BY DEF Init, NoCall
  <2>4. port \in [Threads -> Port]
    BY DEF Init, Port
  <2> QED BY <2>1, <2>2, <2>3, <2>4 DEF Init, TypeOK, Threads
<1>2. CountBacked
  BY DEF Init, CountBacked
<1>3. LockInv /\ HeaderInv
  BY DEF Init, LockInv, LockedSteps, HeaderInv, NoCall, Threads
<1> QED BY <1>1, <1>2, <1>3 DEF FlowInv

LEMMA FlowInvStep == FlowInv /\ [Next]_vars => FlowInv'
<1> SUFFICES ASSUME FlowInv, [Next]_vars PROVE FlowInv'
  OBVIOUS
<1> USE OmxBufferFlowAssumption DEF FlowInv, TypeOK, CountBacked, LockInv, LockedSteps,
    HeaderInv, Port, Threads, INPUT_PORT_INDEX, OUTPUT_PORT_INDEX,
    stateVars, queueVars, dataVars, flagVars, clientVars, threadVars
<1>1. ASSUME NEW c \in Commands, SendCommand(c) PROVE FlowInv'
  BY <1>1 DEF SendCommand, TransientFor
<1>2. ASSUME NEW p \in Port, NEW b \in Buffers(p), SubmitChecked(p, b) PROVE FlowInv'
  BY <1>2 DEF SubmitChecked, Buffers, AllBuffers
<1>3. ASSUME NEW p \in Port, SubmitQueued(p) PROVE FlowInv'
  BY <1>3, SubmitQueuedInv
<1>4. ASSUME NEW p \in Port, SubmitPosted(p) PROVE FlowInv'
  BY <1>4 DEF SubmitPosted, Post, NoCall
<1>5. ASSUME NEW t \in Threads, ReturnCallback(t) PROVE FlowInv'
  BY <1>5 DEF ReturnCallback, BufferDone, Goto
<1>6. ASSUME NEW t \in Threads, ReturnCheck(t) PROVE FlowInv'
  BY <1>6 DEF ReturnCheck, Goto
<1>7. ASSUME NEW t \in Threads, ReturnReset(t) PROVE FlowInv'
  BY <1>7 DEF ReturnReset, Goto
<1>8. ASSUME NEW t \in Threads, ReturnWait(t) PROVE FlowInv'
  BY <1>8 DEF ReturnWait, Goto
<1>9. CASE Park
  BY <1>9 DEF Park, Goto
<1>10. CASE ParkReset
  BY <1>10 DEF ParkReset, Goto
<1>11. CASE ParkWait
  BY <1>11 DEF ParkWait, Goto
<1>12. CASE Run
  BY <1>12 DEF Run, Goto
<1>13. CASE CheckOutput
  BY <1>13 DEF CheckOutput, GotoPort, Goto
<1>14. CASE GetQueueCheck
  BY <1>14 DEF GetQueueCheck, Goto
<1>15. CASE GetQueueWait
  BY <1>15 DEF GetQueueWait, Wait, Goto
<1>16. CASE GetQueueLocked
  BY <1>16, GetQueueLockedInv
<1>17. CASE ChooseInput
  BY <1>17 DEF ChooseInput, GotoPort, Goto
<1>18. CASE PreprocessKeep
  BY <1>18 DEF PreprocessKeep, AfterPreprocess, GotoPort, Goto
<1>19. CASE PreprocessUsed
  BY <1>19 DEF PreprocessUsed, GotoPort, Goto
<1>20. CASE DecodeLockInput
  BY <1>20 DEF DecodeLockInput, Goto
<1>21. CASE Decode
  BY <1>21 DEF Decode, Goto
<1>22. CASE Decoded
  BY <1>22 DEF Decoded, Goto
<1>23. CASE PostprocessKeep
  BY <1>23 DEF PostprocessKeep, Goto
<1>24. CASE PostprocessDeliver
  BY <1>24 DEF PostprocessDeliver, GotoPort, Goto
<1>25. CASE ProcessReturnClear
  BY <1>25, ProcessReturnClearInv
<1>26. ASSUME NEW c \in Commands, StateSetSame(c) PROVE FlowInv'
  BY <1>26 DEF StateSetSame, Received
<1>27. ASSUME NEW c \in Commands, StateSetPause(c) PROVE FlowInv'
  BY <1>27 DEF StateSetPause, Received
<1>28. ASSUME NEW c \in Commands, StateSetExecuting(c) PROVE FlowInv'
  BY <1>28 DEF StateSetExecuting, Received, Goto
<1>29. ASSUME NEW c \in Commands, FlushReceived(c) PROVE FlowInv'
  BY <1>29 DEF FlushReceived, Received, FirstPort, Flush, StateSet, AllCommands,
     GotoPort, Goto
<1>30. CASE Resume
  BY <1>30 DEF Resume, Goto
<1>31. CASE FlushSignal
  BY <1>31 DEF FlushSignal, Goto
<1>32. CASE FlushLock
  BY <1>32 DEF FlushLock, Goto
<1>33. CASE FlushCount
  BY <1>33 DEF FlushCount, StillCounted, Post, Goto
<1>34. CASE FlushReturn
  BY <1>34, FlushReturnInv
<1>35. CASE HandlerReturnClear
  BY <1>35 DEF HandlerReturnClear, Goto
<1>36. CASE FlushDrainMore
  BY <1>36 DEF FlushDrainMore, Goto
<1>37. CASE FlushDrainWait
  BY <1>37 DEF FlushDrainWait, Wait, Goto
<1>38. CASE FlushUnlock
  BY <1>38 DEF FlushUnlock, Goto
<1>39. CASE FlushDone
  BY <1>39 DEF FlushDone, LastPort, GotoPort, Goto
<1>40. CASE UNCHANGED vars
  BY <1>40 DEF vars
<1> QED
  BY <1>1, <1>2, <1>3, <1>4, <1>5, <1>6, <1>7, <1>8, <1>9, <1>10, <1>11, <1>12, <1>13,
     <1>14, <1>15, <1>16, <1>17, <1>18, <1>19, <1>20, <1>21, <1>22, <1>23, <1>24,
     <1>25, <1>26, <1>27, <1>28, <1>29, <1>30, <1>31, <1>32, <1>33, <1>34, <1>35,
     <1>36, <1>37, <1>38, <1>39, <1>40
     DEF Next, Submit, Process, Handler, BufferReturn, Threads

-----------------------------------------------------------------------------
(* NoBufferShared is inductive relative to FlowInv: only the moves of a header
   from one place to the next can disturb it, and exclusion makes each of them
   a move rather than a copy. *)

CallbackSteps == {"return_check", "return_reset", "return_wait", "return_clear"}

(* A step that moves no header and takes no thread into or out of a buffer
   return. *)
Still ==
  /\ UNCHANGED <<bufferQ, client, call, dataBuffer>>
  /\ \A t \in Threads : \/ pc[t] \notin CallbackSteps /\ pc'[t] \notin CallbackSteps
                        \/ (pc[t] \in CallbackSteps <=> pc'[t] \in CallbackSteps)
                           /\ port'[t] = port[t]

(* It leaves every header where it is. *)
LEMMA StillPlaces ==
  ASSUME Still, NEW p \in Port
  PROVE  Held(p)' = Held(p) /\ Queued(p)' = Queued(p) /\ Distinct(p)' = Distinct(p)
<1>1. CalledBack(p)' <=> CalledBack(p)
  BY DEF Still, CalledBack, CallbackSteps
<1> QED BY <1>1 DEF Still, Held, Queued, Distinct

LEMMA Unmoved ==
  ASSUME NoBufferShared, Still
  PROVE  NoBufferShared'
  BY StillPlaces DEF NoBufferShared, Still

(* NULL is not a header. *)
LEMMA NullNowhere == FlowInv => \A p \in Port : NULL \notin client[p] \union Queued(p)
<1> SUFFICES ASSUME FlowInv, NEW p \in Port PROVE NULL \notin client[p] \union Queued(p)
  OBVIOUS
<1>1. client[p] \subseteq AllBuffers /\ bufferQ[p] \in Seq(AllBuffers)
  BY DEF FlowInv, TypeOK
<1>2. Queued(p) \subseteq AllBuffers
  BY <1>1, ElementOfSeq, LenProperties DEF Queued
<1> QED BY <1>1, <1>2, OmxBufferFlowAssumption

(* The thread that returns a header is the only one that does so on its port. *)
LEMMA OneReturns ==
  ASSUME FlowInv, NEW t \in Threads, pc[t] = "return"
  PROVE  ~CalledBack(port[t]) /\ Held(port[t]) = dataBuffer[port[t]]
  BY DEF FlowInv, TypeOK, LockInv, LockedSteps, CalledBack, Held, Threads

LEMMA ReturnCallbackShared ==
  ASSUME FlowInv, NoBufferShared, NEW t \in Threads, ReturnCallback(t)
  PROVE  NoBufferShared'
<1> PICK p \in Port : p = port[t]
  BY DEF FlowInv, TypeOK
<1>1. Held(p) = dataBuffer[p] /\ dataBuffer[p] # NULL
  BY OneReturns DEF FlowInv, TypeOK, HeaderInv, ReturnCallback
<1>2. /\ client' = [client EXCEPT ![p] = @ \union {dataBuffer[p]}]
      /\ pc' = [pc EXCEPT ![t] = "return_check"]
      /\ UNCHANGED <<bufferQ, call, dataBuffer, port>>
  BY DEF ReturnCallback, BufferDone, Goto, queueVars, dataVars
<1>3. CalledBack(p)' /\ \A o \in Port \ {p} : CalledBack(o)' <=> CalledBack(o)
  BY <1>2 DEF FlowInv, TypeOK, CalledBack, ReturnCallback
<1>4. Held(p)' = NULL /\ \A o \in Port \ {p} : Held(o)' = Held(o)
  BY <1>2, <1>3 DEF Held
<1>5. /\ client'[p] = client[p] \union {Held(p)}
      /\ \A o \in Port \ {p} : client'[o] = client[o]
  BY <1>1, <1>2 DEF FlowInv, TypeOK
<1>6. \A o \in Port : Queued(o)' = Queued(o) /\ Distinct(o)' = Distinct(o)
  BY <1>2 DEF Queued, Distinct
<1>7. \A o \in Port : NULL \notin client'[o] \union Queued(o)
  BY <1>1, <1>4, <1>5, NullNowhere
<1> QED BY <1>1, <1>2, <1>4, <1>5, <1>6, <1>7 DEF NoBufferShared

(* The end of a return, by either thread. *)
LEMMA ReturnClears ==
  ASSUME FlowInv, ProcessReturnClear \/ HandlerReturnClear
  PROVE  \E t \in Threads :
           /\ pc[t] = "return_clear" /\ pc'[t] \notin CallbackSteps
           /\ dataBuffer' = [dataBuffer EXCEPT ![port[t]] = NULL]
           /\ \A u \in Threads \ {t} : pc'[u] = pc[u] /\ port'[u] = port[u]
           /\ UNCHANGED <<bufferQ, client, call>>
<1>1. CASE ProcessReturnClear
  BY <1>1 DEF ProcessReturnClear, AfterPreprocess, GotoPort, Goto, CallbackSteps,
     FlowInv, TypeOK, Threads, clientVars, queueVars
<1>2. CASE HandlerReturnClear
  BY <1>2 DEF HandlerReturnClear, Goto, CallbackSteps,
     FlowInv, TypeOK, Threads, clientVars, queueVars
<1> QED BY <1>1, <1>2

LEMMA ReturnClearShared ==
  ASSUME FlowInv, NoBufferShared, ProcessReturnClear \/ HandlerReturnClear
  PROVE  NoBufferShared'
<1> PICK t \in Threads :
      /\ pc[t] = "return_clear" /\ pc'[t] \notin CallbackSteps
      /\ dataBuffer' = [dataBuffer EXCEPT ![port[t]] = NULL]
      /\ \A u \in Threads \ {t} : pc'[u] = pc[u] /\ port'[u] = port[u]
      /\ UNCHANGED <<bufferQ, client, call>>
  BY ReturnClears
<1> PICK p \in Port : p = port[t]
  BY DEF FlowInv, TypeOK
<1>2. dataBuffer'[p] = NULL /\ \A o \in Port \ {p} : dataBuffer'[o] = dataBuffer[o]
  BY DEF FlowInv, TypeOK
<1>3. \A o \in Port \ {p} : CalledBack(o)' <=> CalledBack(o)
  BY DEF CalledBack, CallbackSteps
<1>4. Held(p)' = NULL /\ \A o \in Port \ {p} : Held(o)' = Held(o)
  BY <1>2, <1>3 DEF Held
<1>5. \A o \in Port : Queued(o)' = Queued(o) /\ Distinct(o)' = Distinct(o)
  BY DEF Queued, Distinct
<1> QED BY <1>4, <1>5, NullNowhere DEF NoBufferShared

LEMMA SubmitQueuedShared ==
  ASSUME FlowInv, NoBufferShared, NEW p \in Port, SubmitQueued(p)
  PROVE  NoBufferShared'
<1> DEFINE b == call[p].buffer
<1>1. /\ call' = [call EXCEPT ![p] = [step |-> "post", buffer |-> NULL]]
      /\ UNCHANGED <<client, dataBuffer, pc, port>>
  BY DEF SubmitQueued, dataVars, threadVars
<1>2. call'[p].buffer = NULL /\ \A o \in Port \ {p} : call'[o] = call[o]
  BY <1>1 DEF FlowInv, TypeOK
<1>3. \A o \in Port : Held(o)' = Held(o)
  BY <1>1 DEF Held, CalledBack
<1>4. b \in AllBuffers /\ b # NULL /\ QueueTyped
  BY DEF FlowInv, TypeOK, HeaderInv, QueueTyped, SubmitQueued
<1>5. /\ Distinct(p)' /\ Queued(p)' \subseteq Queued(p) \union {b}
      /\ \A o \in Port \ {p} : bufferQ'[o] = bufferQ[o]
  <2>1. CASE UNCHANGED bufferQ
    BY <2>1 DEF NoBufferShared, Queued, Distinct
  <2>2. CASE ~ UNCHANGED bufferQ
    BY <1>4, <2>2, Enqueued DEF SubmitQueued, NoBufferShared
  <2> QED BY <2>1, <2>2
<1>6. \A o \in Port \ {p} : Queued(o)' = Queued(o) /\ Distinct(o)' = Distinct(o)
  BY <1>5 DEF Queued, Distinct
<1>7. NULL \notin client[p] \union Queued(p)'
  BY <1>4, <1>5, NullNowhere
<1> HIDE DEF b
<1>8. b \notin client[p] \union Queued(p) /\ (Held(p) # NULL => Held(p) # b)
  BY DEF NoBufferShared, b
<1> QED BY <1>1, <1>2, <1>3, <1>5, <1>6, <1>7, <1>8 DEF NoBufferShared

LEMMA GetQueueLockedShared ==
  ASSUME FlowInv, NoBufferShared, GetQueueLocked
  PROVE  NoBufferShared'
<1>1. CASE UNCHANGED <<bufferQ, dataBuffer>>
  BY <1>1, Unmoved DEF Still, GetQueueLocked, GotoPort, Goto, CallbackSteps, FlowInv, TypeOK,
     Threads, clientVars
<1>2. CASE ~ UNCHANGED <<bufferQ, dataBuffer>>
  <2> PICK p \in Port : p = port["process"]
    BY DEF FlowInv, TypeOK, Threads
  <2> DEFINE b == Head(bufferQ[p])
  <2>1. QueueTyped
    BY DEF FlowInv, TypeOK, QueueTyped
  <2>2. /\ Dequeueable(p) /\ Dequeue(p)
        /\ dataBuffer' = [dataBuffer EXCEPT ![p] = b]
        /\ UNCHANGED <<client, call>>
        /\ \A t \in Threads : pc'[t] \in CallbackSteps => pc[t] = pc'[t] /\ port[t] = port'[t]
        /\ pc["process"] \notin CallbackSteps /\ pc'["handler"] = pc["handler"]
        /\ port'["handler"] = port["handler"]
    BY <1>2 DEF GetQueueLocked, GotoPort, Goto, CallbackSteps, FlowInv, TypeOK,
       Threads, clientVars
  <2>3. \A o \in Port : CalledBack(o)' <=> CalledBack(o)
    BY <2>2 DEF CalledBack, CallbackSteps, Threads
  <2>4. /\ b \in Queued(p) /\ b \notin Queued(p)'
        /\ Queued(p)' \subseteq Queued(p) /\ Distinct(p)'
        /\ \A o \in Port \ {p} : bufferQ'[o] = bufferQ[o]
    BY <2>1, <2>2, Dequeued DEF NoBufferShared
  <2>5. Held(p)' \in {b, NULL} /\ \A o \in Port \ {p} : Held(o)' = Held(o)
    BY <2>1, <2>2, <2>3 DEF Held, FlowInv, TypeOK
  <2>6. \A o \in Port \ {p} : Queued(o)' = Queued(o) /\ Distinct(o)' = Distinct(o)
    BY <2>4 DEF Queued, Distinct
  <2> HIDE DEF b
  <2> QED BY <2>1, <2>2, <2>4, <2>5, <2>6, NullNowhere DEF NoBufferShared
<1> QED BY <1>1, <1>2

LEMMA FlushReturnShared ==
  ASSUME FlowInv, NoBufferShared, FlushReturn
  PROVE  NoBufferShared'
<1>1. UNCHANGED <<call, dataBuffer, port>> /\ pc' = [pc EXCEPT !["handler"] = "flush_count"]
  BY DEF FlushReturn, Goto, dataVars
<1>2. /\ pc["handler"] \notin CallbackSteps /\ pc'["handler"] \notin CallbackSteps
      /\ pc'["process"] = pc["process"]
  BY <1>1 DEF FlowInv, TypeOK, FlushReturn, CallbackSteps, Threads
<1>3. CASE UNCHANGED <<bufferQ, client>>
  BY <1>1, <1>2, <1>3, Unmoved DEF Still, Threads
<1>4. CASE ~ UNCHANGED <<bufferQ, client>>
  <2> PICK p \in Port : p = port["handler"]
    BY DEF FlowInv, TypeOK, Threads
  <2> DEFINE b == Head(bufferQ[p])
  <2>1. QueueTyped
    BY DEF FlowInv, TypeOK, QueueTyped
  <2>2. Dequeueable(p) /\ Dequeue(p) /\ client' = [client EXCEPT ![p] = @ \union {b}]
    BY <1>4 DEF FlushReturn, BufferDone
  <2>3. /\ b \in Queued(p) /\ b \notin Queued(p)'
        /\ Queued(p)' \subseteq Queued(p) /\ Distinct(p)'
        /\ \A o \in Port \ {p} : bufferQ'[o] = bufferQ[o]
    BY <2>1, <2>2, Dequeued DEF NoBufferShared
  <2>4. client'[p] = client[p] \union {b} /\ \A o \in Port \ {p} : client'[o] = client[o]
    BY <2>1, <2>2 DEF FlowInv, TypeOK
  <2>5. \A o \in Port : Held(o)' = Held(o)
    BY <1>1, <1>2 DEF Held, CalledBack, CallbackSteps, Threads
  <2>6. \A o \in Port \ {p} : Queued(o)' = Queued(o) /\ Distinct(o)' = Distinct(o)
    BY <2>3 DEF Queued, Distinct
  <2> HIDE DEF b
  <2> QED BY <1>1, <2>1, <2>3, <2>4, <2>5, <2>6 DEF NoBufferShared
<1> QED BY <1>3, <1>4

LEMMA SharedInit == Init => NoBufferShared
  BY OmxBufferFlowAssumption DEF Init, NoBufferShared, Buffers, AllBuffers, NoCall,
     Held,
     Queued, Distinct, CalledBack, Port, Threads, INPUT_PORT_INDEX, OUTPUT_PORT_INDEX

(* The steps that move a header; every other step is still. *)
Moves ==
  \/ \E p \in Port : \/ \E b \in Buffers(p) : SubmitChecked(p, b)
                     \/ SubmitQueued(p) \/ SubmitPosted(p)
  \/ \E t \in Threads : ReturnCallback(t)
  \/ GetQueueLocked \/ FlushReturn \/ ProcessReturnClear \/ HandlerReturnClear

LEMMA MovesOrStill == FlowInv /\ [Next]_vars => Moves \/ Still
<1> SUFFICES ASSUME FlowInv, [Next]_vars, ~Moves PROVE Still
  OBVIOUS
<1> USE DEF FlowInv, TypeOK, CallbackSteps, Threads, Still
<1>1. ASSUME NEW c \in Commands, SendCommand(c) PROVE Still
  BY <1>1 DEF SendCommand, clientVars, queueVars, dataVars, threadVars
<1>2. ASSUME NEW t \in Threads, ReturnCheck(t) PROVE Still
  BY <1>2 DEF ReturnCheck, Goto, clientVars, queueVars, dataVars, threadVars
<1>3. ASSUME NEW t \in Threads, ReturnReset(t) PROVE Still
  BY <1>3 DEF ReturnReset, Goto, clientVars, queueVars, dataVars, threadVars
<1>4. ASSUME NEW t \in Threads, ReturnWait(t) PROVE Still
  BY <1>4 DEF ReturnWait, Goto, clientVars, queueVars, dataVars, threadVars
<1>5. CASE Park
  BY <1>5 DEF Park, Goto, clientVars, queueVars, dataVars, threadVars
<1>6. CASE ParkReset
  BY <1>6 DEF ParkReset, Goto, clientVars, queueVars, dataVars, threadVars
<1>7. CASE ParkWait
  BY <1>7 DEF ParkWait, Goto, clientVars, queueVars, dataVars, threadVars
<1>8. CASE Run
  BY <1>8 DEF Run, Goto, clientVars, queueVars, dataVars, threadVars
<1>9. CASE CheckOutput
  BY <1>9 DEF CheckOutput, GotoPort, Goto, clientVars, queueVars, dataVars,
     threadVars
<1>10. CASE GetQueueCheck
  BY <1>10 DEF GetQueueCheck, Goto, clientVars, queueVars, dataVars,
     threadVars
<1>11. CASE GetQueueWait
  BY <1>11 DEF GetQueueWait, Goto, clientVars, queueVars, dataVars,
     threadVars
<1>12. CASE ChooseInput
  BY <1>12 DEF ChooseInput, GotoPort, Goto, clientVars, queueVars, dataVars,
     threadVars
<1>13. CASE PreprocessKeep
  BY <1>13 DEF PreprocessKeep, AfterPreprocess, GotoPort, Goto, clientVars,
     queueVars, dataVars, threadVars
<1>14. CASE PreprocessUsed
  BY <1>14 DEF PreprocessUsed, GotoPort, Goto, clientVars, queueVars,
     dataVars, threadVars
<1>15. CASE DecodeLockInput
  BY <1>15 DEF DecodeLockInput, Goto, clientVars, queueVars, dataVars,
     threadVars
<1>16. CASE Decode
  BY <1>16 DEF Decode, Goto, clientVars, queueVars, dataVars, threadVars
<1>17. CASE Decoded
  BY <1>17 DEF Decoded, Goto, clientVars, queueVars, dataVars, threadVars
<1>18. CASE PostprocessKeep
  BY <1>18 DEF PostprocessKeep, Goto, clientVars, queueVars, dataVars,
     threadVars
<1>19. CASE PostprocessDeliver
  BY <1>19 DEF PostprocessDeliver, GotoPort, Goto, clientVars, queueVars,
     dataVars, threadVars
<1>20. ASSUME NEW c \in Commands, StateSetSame(c) PROVE Still
  BY <1>20 DEF StateSetSame, clientVars, queueVars, dataVars, threadVars
<1>21. ASSUME NEW c \in Commands, StateSetPause(c) PROVE Still
  BY <1>21 DEF StateSetPause, clientVars, queueVars, dataVars, threadVars
<1>22. ASSUME NEW c \in Commands, StateSetExecuting(c) PROVE Still
  BY <1>22 DEF StateSetExecuting, Received, Goto, clientVars, queueVars,
     dataVars, threadVars
<1>23. ASSUME NEW c \in Commands, FlushReceived(c) PROVE Still
  BY <1>23 DEF FlushReceived, Received, GotoPort, Goto, clientVars,
     queueVars, dataVars, threadVars
<1>24. CASE Resume
  BY <1>24 DEF Resume, Goto, clientVars, queueVars, dataVars, threadVars
<1>25. CASE FlushSignal
  BY <1>25 DEF FlushSignal, Goto, clientVars, queueVars, dataVars, threadVars
<1>26. CASE FlushLock
  BY <1>26 DEF FlushLock, Goto, clientVars, queueVars, dataVars, threadVars
<1>27. CASE FlushCount
  BY <1>27 DEF FlushCount, Goto, clientVars, queueVars, dataVars, threadVars
<1>28. CASE FlushDrainMore
  BY <1>28 DEF FlushDrainMore, Goto, clientVars, queueVars, dataVars,
     threadVars
<1>29. CASE FlushDrainWait
  BY <1>29 DEF FlushDrainWait, Goto, clientVars, queueVars, dataVars,
     threadVars
<1>30. CASE FlushUnlock
  BY <1>30 DEF FlushUnlock, Goto, clientVars, queueVars, dataVars, threadVars
<1>31. CASE FlushDone
  BY <1>31 DEF FlushDone, GotoPort, Goto, clientVars, queueVars, dataVars,
     threadVars
<1>32. CASE UNCHANGED vars
  BY <1>32 DEF vars, clientVars, queueVars, dataVars, threadVars
<1> QED
  BY <1>1, <1>2, <1>3, <1>4, <1>5, <1>6, <1>7, <1>8, <1>9, <1>10, <1>11, <1>12,
     <1>13, <1>14, <1>15, <1>16, <1>17, <1>18, <1>19, <1>20, <1>21, <1>22, <1>23,
     <1>24, <1>25, <1>26, <1>27, <1>28, <1>29, <1>30, <1>31, <1>32
     DEF Moves, Next, Submit, Process, Handler, BufferReturn

LEMMA SharedStep == FlowInv /\ NoBufferShared /\ [Next]_vars => NoBufferShared'
<1> SUFFICES ASSUME FlowInv, NoBufferShared, [Next]_vars PROVE NoBufferShared'
  OBVIOUS
<1>1. CASE Still
  BY <1>1, Unmoved
<1>2. ASSUME NEW p \in Port, NEW b \in Buffers(p), SubmitChecked(p, b) PROVE NoBufferShared'
  BY <1>2 DEF FlowInv, TypeOK, SubmitChecked, Idle, Buffers, queueVars, dataVars, threadVars,
     NoBufferShared, Held, Queued, Distinct, CalledBack
<1>3. ASSUME NEW p \in Port, SubmitPosted(p) PROVE NoBufferShared'
  BY <1>3, NullNowhere
     DEF FlowInv, TypeOK, SubmitPosted, NoCall, dataVars, threadVars, NoBufferShared, Held, Queued,
         Distinct, CalledBack
<1> QED
  BY <1>1, <1>2, <1>3, MovesOrStill, SubmitQueuedShared, ReturnCallbackShared,
     GetQueueLockedShared, FlushReturnShared, ReturnClearShared DEF Moves

-----------------------------------------------------------------------------
(* NoBufferLost: a header leaves a place only for the next one, if the ring of
   bufferQ never has to refuse one. *)

RingHoldsAll == \A p \in Port :
  IsFiniteSet(Buffers(p)) /\ Cardinality(Buffers(p)) < MAX_QUEUE_ELEMENTS

(* Each port has only its own headers, and a submission has one only until it
   is queued. *)
OwnInv == \A p \in Port :
  /\ client[p] \subseteq Buffers(p) /\ Queued(p) \subseteq Buffers(p)
  /\ dataBuffer[p] \in Buffers(p) \union {NULL}
  /\ call[p].buffer \in Buffers(p) \union {NULL}
  /\ call[p].step # "queue" => call[p].buffer = NULL

(* The queue has a cell for the header of a submission. *)
LEMMA RoomInQueue ==
  ASSUME RingHoldsAll, FlowInv, NoBufferShared, OwnInv,
         NEW p \in Port, call[p].step = "queue"
  PROVE  Len(bufferQ[p]) < MAX_QUEUE_ELEMENTS - 1 /\ numElem[p] < MAX_QUEUE_ELEMENTS
<1> DEFINE b == call[p].buffer
           q == bufferQ[p]
           T == Buffers(p) \ {b}
<1>1. /\ b \in Buffers(p) /\ b \notin Queued(p) /\ Queued(p) \subseteq Buffers(p)
      /\ \A i, j \in DOMAIN q : q[i] = q[j] => i = j
      /\ q \in Seq(AllBuffers) /\ numElem[p] \in Nat /\ numElem[p] <= Len(q)
  BY DEF FlowInv, TypeOK, HeaderInv, CountBacked, OwnInv, NoBufferShared, Distinct
<1>2. IsFiniteSet(T) /\ Cardinality(T) \in Nat /\ Cardinality(T) < MAX_QUEUE_ELEMENTS - 1
  <2>1. IsFiniteSet(Buffers(p)) /\ Cardinality(Buffers(p)) < MAX_QUEUE_ELEMENTS
    BY DEF RingHoldsAll
  <2>2. IsFiniteSet(T) /\ Cardinality(T) = Cardinality(Buffers(p)) - 1
    BY <1>1, <2>1, FS_RemoveElement
  <2>3. Cardinality(T) \in Nat /\ Cardinality(Buffers(p)) \in Nat
    BY <2>1, <2>2, FS_CardinalityType
  <2> HIDE DEF T
  <2> QED BY <2>1, <2>2, <2>3, OmxBufferFlowAssumption
<1>3. Len(q) \in Nat /\ DOMAIN q = 1 .. Len(q)
  BY <1>1, LenProperties
<1>4. IsFiniteSet(1 .. Len(q)) /\ Cardinality(1 .. Len(q)) = Len(q)
  <2> HIDE DEF q
  <2>1. /\ IsFiniteSet(1 .. Len(q))
        /\ Cardinality(1 .. Len(q)) = IF 1 > Len(q) THEN 0 ELSE Len(q) - 1 + 1
    BY <1>3, FS_Interval
  <2> QED BY <1>3, <2>1
<1>5. q \in [1 .. Len(q) -> T]
  <2>1. \A i \in 1 .. Len(q) : q[i] \in T
    BY <1>1, <1>3 DEF Queued
  <2>2. q = [i \in 1 .. Len(q) |-> q[i]]
    BY <1>1, <1>3
  <2> HIDE DEF q, T
  <2> QED BY <2>1, <2>2
<1> HIDE DEF q, T
<1>6. Len(q) <= Cardinality(T)
  BY <1>1, <1>2, <1>3, <1>4, <1>5, FS_PigeonHole
<1> QED BY <1>1, <1>2, <1>3, <1>6, OmxBufferFlowAssumption DEF q

LEMMA Unchanged == \A o \in Port : bufferQ'[o] = bufferQ[o] => Queued(o)' = Queued(o)
  BY DEF Queued

LEMMA SubmitCheckedOwn ==
  ASSUME FlowInv, OwnInv, NEW p \in Port, NEW b \in Buffers(p), SubmitChecked(p, b)
  PROVE  OwnInv' /\ (NoBufferLost => NoBufferLost')
<1>1. /\ client' = [client EXCEPT ![p] = @ \ {b}]
      /\ call' = [call EXCEPT ![p] = [step |-> "queue", buffer |-> b]]
      /\ call[p].step = "none" /\ call[p].buffer = NULL
      /\ UNCHANGED <<bufferQ, dataBuffer, pc, port>>
  BY DEF SubmitChecked, Idle, OwnInv, queueVars, dataVars, threadVars
<1>2. \A o \in Port : Held(o)' = Held(o) /\ Queued(o)' = Queued(o)
  BY <1>1 DEF Held, CalledBack, Queued
<1>3. /\ client'[p] = client[p] \ {b} /\ call'[p].step = "queue" /\ call'[p].buffer = b
      /\ \A o \in Port \ {p} : client'[o] = client[o] /\ call'[o] = call[o]
  BY <1>1 DEF FlowInv, TypeOK
<1>4. NULL \notin Buffers(p)
  BY OmxBufferFlowAssumption DEF Buffers, AllBuffers
<1> QED BY <1>1, <1>2, <1>3, <1>4 DEF OwnInv, NoBufferLost

LEMMA SubmitQueuedOwn ==
  ASSUME RingHoldsAll, FlowInv, NoBufferShared, OwnInv, NEW p \in Port, SubmitQueued(p)
  PROVE  OwnInv' /\ (NoBufferLost => NoBufferLost')
<1> DEFINE b == call[p].buffer
<1>1. /\ bufferQ' = [bufferQ EXCEPT ![p] = Append(@, b)]
      /\ numElem' = [numElem EXCEPT ![p] = @ + 1]
      /\ call' = [call EXCEPT ![p] = [step |-> "post", buffer |-> NULL]]
      /\ UNCHANGED <<client, dataBuffer, pc, port>>
  BY RoomInQueue DEF SubmitQueued, dataVars, threadVars
<1>2. b \in AllBuffers /\ b \in Buffers(p) /\ QueueTyped
  BY DEF FlowInv, TypeOK, HeaderInv, QueueTyped, SubmitQueued, OwnInv
<1>3. /\ Queued(p)' = Queued(p) \union {b}
      /\ \A o \in Port \ {p} : bufferQ'[o] = bufferQ[o]
  BY <1>1, <1>2, Enqueued
<1>4. /\ call'[p].step = "post" /\ call'[p].buffer = NULL
      /\ \A o \in Port \ {p} : call'[o] = call[o]
  BY <1>1 DEF FlowInv, TypeOK
<1>5. \A o \in Port : Held(o)' = Held(o)
  BY <1>1 DEF Held, CalledBack
<1> QED BY <1>1, <1>2, <1>3, <1>4, <1>5, Unchanged DEF OwnInv, NoBufferLost

LEMMA SubmitPostedOwn ==
  ASSUME FlowInv, OwnInv, NEW p \in Port, SubmitPosted(p)
  PROVE  OwnInv' /\ (NoBufferLost => NoBufferLost')
<1>1. /\ call' = [call EXCEPT ![p] = NoCall] /\ call[p].buffer = NULL
      /\ UNCHANGED <<client, bufferQ, dataBuffer, pc, port>>
  BY DEF SubmitPosted, OwnInv, dataVars, threadVars
<1>2. /\ call'[p].step = "none" /\ call'[p].buffer = NULL
      /\ \A o \in Port \ {p} : call'[o] = call[o]
  BY <1>1 DEF FlowInv, TypeOK, NoCall
<1>3. \A o \in Port : Held(o)' = Held(o) /\ Queued(o)' = Queued(o)
  BY <1>1 DEF Held, CalledBack, Queued
<1> QED BY <1>1, <1>2, <1>3 DEF OwnInv, NoBufferLost

LEMMA ReturnCallbackOwn ==
  ASSUME FlowInv, OwnInv, NEW t \in Threads, ReturnCallback(t)
  PROVE  OwnInv' /\ (NoBufferLost => NoBufferLost')
<1> PICK p \in Port : p = port[t]
  BY DEF FlowInv, TypeOK
<1>1. Held(p) = dataBuffer[p] /\ dataBuffer[p] # NULL
  BY OneReturns DEF FlowInv, TypeOK, HeaderInv, ReturnCallback
<1>2. /\ client' = [client EXCEPT ![p] = @ \union {dataBuffer[p]}]
      /\ pc' = [pc EXCEPT ![t] = "return_check"]
      /\ UNCHANGED <<bufferQ, call, dataBuffer, port>>
  BY DEF ReturnCallback, BufferDone, Goto, queueVars, dataVars
<1>3. \A o \in Port \ {p} : CalledBack(o)' <=> CalledBack(o)
  BY <1>2 DEF FlowInv, TypeOK, CalledBack, ReturnCallback
<1>4. \A o \in Port \ {p} : Held(o)' = Held(o)
  BY <1>2, <1>3 DEF Held
<1>5. /\ client'[p] = client[p] \union {Held(p)}
      /\ \A o \in Port \ {p} : client'[o] = client[o]
  BY <1>1, <1>2 DEF FlowInv, TypeOK
<1>6. \A o \in Port : Queued(o)' = Queued(o)
  BY <1>2 DEF Queued
<1> QED BY <1>1, <1>2, <1>4, <1>5, <1>6 DEF OwnInv, NoBufferLost

LEMMA ReturnClearOwn ==
  ASSUME FlowInv, OwnInv, ProcessReturnClear \/ HandlerReturnClear
  PROVE  OwnInv' /\ (NoBufferLost => NoBufferLost')
<1> PICK t \in Threads :
      /\ pc[t] = "return_clear" /\ pc'[t] \notin CallbackSteps
      /\ dataBuffer' = [dataBuffer EXCEPT ![port[t]] = NULL]
      /\ \A u \in Threads \ {t} : pc'[u] = pc[u] /\ port'[u] = port[u]
      /\ UNCHANGED <<bufferQ, client, call>>
  BY ReturnClears
<1> PICK p \in Port : p = port[t]
  BY DEF FlowInv, TypeOK
<1>1. dataBuffer'[p] = NULL /\ \A o \in Port \ {p} : dataBuffer'[o] = dataBuffer[o]
  BY DEF FlowInv, TypeOK
<1>2. \A o \in Port \ {p} : CalledBack(o)' <=> CalledBack(o)
  BY DEF CalledBack, CallbackSteps
<1>3. \A o \in Port \ {p} : Held(o)' = Held(o)
  BY <1>1, <1>2 DEF Held
<1>4. Held(p) = NULL /\ Held(p)' = NULL
  BY <1>1 DEF Held, CalledBack
<1>5. \A o \in Port : Queued(o)' = Queued(o)
  BY DEF Queued
<1> QED BY <1>1, <1>3, <1>4, <1>5 DEF OwnInv, NoBufferLost

LEMMA GetQueueLockedOwn ==
  ASSUME FlowInv, OwnInv, GetQueueLocked
  PROVE  OwnInv' /\ (NoBufferLost => NoBufferLost')
<1> PICK p \in Port : p = port["process"]
  BY DEF FlowInv, TypeOK, Threads
<1>0. /\ UNCHANGED <<client, call>>
      /\ \A t \in Threads : pc'[t] \in CallbackSteps <=> pc[t] \in CallbackSteps
      /\ pc["process"] \notin CallbackSteps
      /\ port'["handler"] = port["handler"]
  BY DEF GetQueueLocked, GotoPort, Goto, CallbackSteps, FlowInv, TypeOK, Threads, clientVars
<1>1. \A o \in Port : CalledBack(o)' <=> CalledBack(o)
  BY <1>0 DEF CalledBack, CallbackSteps, Threads
<1>2. CASE UNCHANGED <<bufferQ, dataBuffer>>
  BY <1>0, <1>1, <1>2, Unchanged DEF OwnInv, NoBufferLost, Held
<1>3. CASE ~ UNCHANGED <<bufferQ, dataBuffer>>
  <2> DEFINE b == Head(bufferQ[p])
  <2>1. /\ Dequeueable(p) /\ Dequeue(p) /\ QueueTyped /\ dataBuffer[p] = NULL
        /\ dataBuffer' = [dataBuffer EXCEPT ![p] = b]
    BY <1>3 DEF GetQueueLocked, FlowInv, TypeOK, QueueTyped
  <2>2. /\ b \in Queued(p) /\ Queued(p)' \subseteq Queued(p)
        /\ Queued(p) \subseteq Queued(p)' \union {b}
        /\ \A o \in Port \ {p} : bufferQ'[o] = bufferQ[o]
    BY <2>1, Dequeued
  <2>3. dataBuffer'[p] = b /\ \A o \in Port \ {p} : dataBuffer'[o] = dataBuffer[o]
    BY <2>1 DEF FlowInv, TypeOK
  <2>4. ~CalledBack(p)
    BY <1>0 DEF GetQueueLocked, FlowInv, TypeOK, LockInv, LockedSteps, CalledBack, CallbackSteps, Threads
  <2>5. Held(p) = NULL /\ Held(p)' = b /\ \A o \in Port \ {p} : Held(o)' = Held(o)
    BY <1>1, <2>1, <2>3, <2>4 DEF Held
  <2> HIDE DEF b
  <2>6. \A o \in Port \ {p} : Queued(o)' = Queued(o)
    BY <2>2, Unchanged
  <2>7. OwnInv'
    <3>1. b \in Buffers(p) /\ Queued(p)' \subseteq Buffers(p)
      BY <2>2 DEF OwnInv
    <3>2. \A o \in Port : dataBuffer'[o] \in Buffers(o) \union {NULL}
      BY <2>3, <3>1 DEF OwnInv
    <3>3. \A o \in Port : Queued(o)' \subseteq Buffers(o)
      BY <2>6, <3>1 DEF OwnInv
    <3> QED BY <1>0, <3>2, <3>3 DEF OwnInv
  <2>8. ASSUME NoBufferLost, NEW o \in Port, NEW h \in Buffers(o)
        PROVE  h \in client'[o] \union Queued(o)' \union {call'[o].buffer, Held(o)'}
    <3>1. h \in client[o] \union Queued(o) \union {call[o].buffer, Held(o)}
      BY <2>8 DEF NoBufferLost
    <3>2. CASE o = p
      BY <1>0, <2>2, <2>5, <3>1, <3>2, OmxBufferFlowAssumption, <2>8 DEF Buffers, AllBuffers
    <3>3. CASE o # p
      BY <1>0, <2>5, <2>6, <3>1, <3>3
    <3> QED BY <3>2, <3>3
  <2> QED BY <2>7, <2>8 DEF NoBufferLost
<1> QED BY <1>2, <1>3

LEMMA FlushReturnOwn ==
  ASSUME FlowInv, OwnInv, FlushReturn
  PROVE  OwnInv' /\ (NoBufferLost => NoBufferLost')
<1> PICK p \in Port : p = port["handler"]
  BY DEF FlowInv, TypeOK, Threads
<1>1. /\ UNCHANGED <<call, dataBuffer, port>>
      /\ pc["handler"] \notin CallbackSteps /\ pc'["handler"] \notin CallbackSteps
      /\ pc'["process"] = pc["process"]
  BY DEF FlowInv, TypeOK, FlushReturn, Goto, CallbackSteps, Threads, dataVars
<1>2. \A o \in Port : Held(o)' = Held(o)
  BY <1>1 DEF Held, CalledBack, CallbackSteps, Threads
<1>3. CASE UNCHANGED <<bufferQ, client>>
  BY <1>1, <1>2, <1>3, Unchanged DEF OwnInv, NoBufferLost
<1>4. CASE ~ UNCHANGED <<bufferQ, client>>
  <2> DEFINE b == Head(bufferQ[p])
  <2>1. /\ Dequeueable(p) /\ Dequeue(p) /\ QueueTyped
        /\ client' = [client EXCEPT ![p] = @ \union {b}]
    BY <1>4 DEF FlushReturn, BufferDone, FlowInv, TypeOK, QueueTyped
  <2>2. /\ b \in Queued(p) /\ Queued(p)' \subseteq Queued(p)
        /\ Queued(p) \subseteq Queued(p)' \union {b}
        /\ \A o \in Port \ {p} : bufferQ'[o] = bufferQ[o]
    BY <2>1, Dequeued
  <2>3. client'[p] = client[p] \union {b} /\ \A o \in Port \ {p} : client'[o] = client[o]
    BY <2>1 DEF FlowInv, TypeOK
  <2> HIDE DEF b
  <2> QED BY <1>1, <1>2, <2>2, <2>3, Unchanged DEF OwnInv, NoBufferLost
<1> QED BY <1>3, <1>4

LEMMA OwnInit == Init => OwnInv /\ NoBufferLost
  BY OmxBufferFlowAssumption DEF Init, OwnInv, NoBufferLost, Queued, NoCall

LEMMA OwnStep ==
  ASSUME RingHoldsAll
  PROVE  FlowInv /\ NoBufferShared /\ OwnInv /\ NoBufferLost /\ [Next]_vars
           => OwnInv' /\ NoBufferLost'
<1> SUFFICES ASSUME FlowInv, NoBufferShared, OwnInv, NoBufferLost, [Next]_vars
             PROVE  OwnInv' /\ NoBufferLost'
  OBVIOUS
<1>1. CASE Still
  BY <1>1, StillPlaces DEF Still, OwnInv, NoBufferLost
<1> QED
  BY <1>1, MovesOrStill, SubmitCheckedOwn, SubmitQueuedOwn, SubmitPostedOwn,
     ReturnCallbackOwn, ReturnClearOwn, GetQueueLockedOwn, FlushReturnOwn DEF Moves

-----------------------------------------------------------------------------
(* What holds for a client that awaits each call: nothing is submitted while
   the handler is at work, so what the flush has emptied stays empty. *)

DrainSteps == LockedSteps \ {"flush_count", "flush_wait"}

SerialInv ==
  /\ HandlerIdle \/ \A p \in Port : Idle(p)
  /\ \A p \in Port : numElem[p] = Len(bufferQ[p])
  /\ pc["handler"] \in DrainSteps => numElem[port["handler"]] = 0
  /\ pc["handler"] \in {"flush_drain", "flush_drain_wait"} =>
       dataBuffer[port["handler"]] = NULL

(* The count follows the queue through a submission and through a dequeue. *)
LEMMA CountedQueue ==
  ASSUME QueueTyped, NEW p \in Port, \A o \in Port : numElem[o] = Len(bufferQ[o]),
         \/ Dequeueable(p) /\ Dequeue(p)
         \/ \E b \in AllBuffers : /\ bufferQ' = [bufferQ EXCEPT ![p] = Append(@, b)]
                                  /\ numElem' = [numElem EXCEPT ![p] = @ + 1]
  PROVE  \A o \in Port : numElem'[o] = Len(bufferQ'[o])
<1>1. \A o \in Port \ {p} : numElem'[o] = numElem[o] /\ bufferQ'[o] = bufferQ[o]
  BY DEF QueueTyped, Dequeue
<1>2. CASE Dequeueable(p) /\ Dequeue(p)
  <2>1. /\ bufferQ[p] \in Seq(AllBuffers) /\ bufferQ[p] # <<>>
        /\ bufferQ'[p] = Tail(bufferQ[p]) /\ numElem'[p] = numElem[p] - 1
    BY <1>2 DEF QueueTyped, Dequeueable, Dequeue
  <2>2. Len(Tail(bufferQ[p])) = Len(bufferQ[p]) - 1
    BY <2>1, HeadTailProperties, Zenon
  <2> QED BY <1>1, <2>1, <2>2
<1>3. ASSUME NEW b \in AllBuffers,
             bufferQ' = [bufferQ EXCEPT ![p] = Append(@, b)],
             numElem' = [numElem EXCEPT ![p] = @ + 1]
      PROVE  numElem'[p] = Len(bufferQ'[p])
  <2>1. /\ bufferQ[p] \in Seq(AllBuffers) /\ bufferQ'[p] = Append(bufferQ[p], b)
        /\ numElem'[p] = numElem[p] + 1
    BY <1>3 DEF QueueTyped
  <2>2. Len(Append(bufferQ[p], b)) = Len(bufferQ[p]) + 1
    BY <2>1, AppendProperties
  <2> QED BY <2>1, <2>2
<1> QED BY <1>1, <1>2, <1>3

LEMMA SubmitQueuedSerial ==
  ASSUME FlowInv, SerialInv, NEW p \in Port, SubmitQueued(p)
  PROVE  SerialInv'
<1>1. HandlerIdle /\ HandlerIdle' /\ UNCHANGED <<pc, port, dataBuffer>>
  BY DEF SerialInv, HandlerIdle, Idle, SubmitQueued, threadVars, dataVars
<1>2. \A o \in Port : numElem'[o] = Len(bufferQ'[o])
  <2>1. QueueTyped /\ call[p].buffer \in AllBuffers
    BY DEF FlowInv, TypeOK, HeaderInv, QueueTyped, SubmitQueued
  <2> QED BY <2>1, CountedQueue DEF SerialInv, SubmitQueued
<1> QED BY <1>1, <1>2 DEF SerialInv, HandlerIdle, DrainSteps, LockedSteps

LEMMA GetQueueLockedSerial ==
  ASSUME FlowInv, SerialInv, GetQueueLocked
  PROVE  SerialInv'
<1> PICK p \in Port : p = port["process"]
  BY DEF FlowInv, TypeOK, Threads
<1>1. \A o \in Port : numElem'[o] = Len(bufferQ'[o])
  BY CountedQueue DEF FlowInv, TypeOK, QueueTyped, SerialInv, GetQueueLocked
<1>2. /\ UNCHANGED <<messageQ, call>> /\ pc'["handler"] = pc["handler"]
      /\ port'["handler"] = port["handler"] /\ bufferMutex[p] = "free"
  BY DEF GetQueueLocked, GotoPort, Goto, FlowInv, TypeOK, Threads, clientVars
<1>3. \A o \in Port \ {p} : numElem'[o] = numElem[o] /\ dataBuffer'[o] = dataBuffer[o]
  BY DEF GetQueueLocked, Dequeue, FlowInv, TypeOK
<1>4. pc["handler"] \in LockedSteps => port["handler"] \in Port \ {p}
  BY <1>2 DEF FlowInv, TypeOK, LockInv, Threads
<1> QED BY <1>1, <1>2, <1>3, <1>4
     DEF SerialInv, HandlerIdle, Idle, DrainSteps, LockedSteps

LEMMA FlushReturnSerial ==
  ASSUME FlowInv, SerialInv, FlushReturn
  PROVE  SerialInv'
<1> PICK p \in Port : p = port["handler"]
  BY DEF FlowInv, TypeOK, Threads
<1>1. \A o \in Port : numElem'[o] = Len(bufferQ'[o])
  BY CountedQueue DEF FlowInv, TypeOK, QueueTyped, SerialInv, FlushReturn
<1>2. UNCHANGED <<call, messageQ>> /\ pc["handler"] = "flush_wait" /\ pc'["handler"] = "flush_count"
  BY DEF FlushReturn, Goto, FlowInv, TypeOK, Threads
<1> QED BY <1>1, <1>2 DEF SerialInv, HandlerIdle, Idle, DrainSteps, LockedSteps

LEMMA SerialStep == SerialClient /\ FlowInv /\ SerialInv /\ [Next]_vars => SerialInv'
<1> SUFFICES ASSUME SerialClient, FlowInv, SerialInv, [Next]_vars PROVE SerialInv'
  OBVIOUS
<1> USE OmxBufferFlowAssumption DEF FlowInv, TypeOK, LockInv, LockedSteps, DrainSteps,
    SerialInv, HandlerIdle, Idle, Port, Threads, INPUT_PORT_INDEX, OUTPUT_PORT_INDEX,
    stateVars, queueVars, dataVars, flagVars, clientVars, threadVars
<1>1. ASSUME NEW c \in Commands, SendCommand(c) PROVE SerialInv'
  BY <1>1 DEF SendCommand
<1>2. ASSUME NEW p \in Port, NEW b \in Buffers(p), SubmitChecked(p, b) PROVE SerialInv'
  BY <1>2 DEF SubmitChecked
<1>3. ASSUME NEW p \in Port, SubmitQueued(p) PROVE SerialInv'
  BY <1>3, SubmitQueuedSerial
<1>4. ASSUME NEW p \in Port, SubmitPosted(p) PROVE SerialInv'
  BY <1>4 DEF SubmitPosted, NoCall
<1>5. ASSUME NEW t \in Threads, ReturnCallback(t) PROVE SerialInv'
  BY <1>5 DEF ReturnCallback, BufferDone, Goto
<1>6. ASSUME NEW t \in Threads, ReturnCheck(t) PROVE SerialInv'
  BY <1>6 DEF ReturnCheck, Goto
<1>7. ASSUME NEW t \in Threads, ReturnReset(t) PROVE SerialInv'
  BY <1>7 DEF ReturnReset, Goto
<1>8. ASSUME NEW t \in Threads, ReturnWait(t) PROVE SerialInv'
  BY <1>8 DEF ReturnWait, Goto
<1>9. CASE Park
  BY <1>9 DEF Park, Goto
<1>10. CASE ParkReset
  BY <1>10 DEF ParkReset, Goto
<1>11. CASE ParkWait
  BY <1>11 DEF ParkWait, Goto
<1>12. CASE Run
  BY <1>12 DEF Run, Goto
<1>13. CASE CheckOutput
  BY <1>13 DEF CheckOutput, GotoPort, Goto
<1>14. CASE GetQueueCheck
  BY <1>14 DEF GetQueueCheck, Goto
<1>15. CASE GetQueueWait
  BY <1>15 DEF GetQueueWait, Goto
<1>16. CASE GetQueueLocked
  BY <1>16, GetQueueLockedSerial
<1>17. CASE ChooseInput
  BY <1>17 DEF ChooseInput, GotoPort, Goto
<1>18. CASE PreprocessKeep
  BY <1>18 DEF PreprocessKeep, AfterPreprocess, GotoPort, Goto
<1>19. CASE PreprocessUsed
  BY <1>19 DEF PreprocessUsed, GotoPort, Goto
<1>20. CASE DecodeLockInput
  BY <1>20 DEF DecodeLockInput, Goto
<1>21. CASE Decode
  BY <1>21 DEF Decode, Goto
<1>22. CASE Decoded
  BY <1>22 DEF Decoded, Goto
<1>23. CASE PostprocessKeep
  BY <1>23 DEF PostprocessKeep, Goto
<1>24. CASE PostprocessDeliver
  BY <1>24 DEF PostprocessDeliver, GotoPort, Goto
<1>25. CASE ProcessReturnClear
  BY <1>25 DEF ProcessReturnClear, AfterPreprocess, GotoPort, Goto
<1>26. ASSUME NEW c \in Commands, StateSetSame(c) PROVE SerialInv'
  BY <1>26 DEF StateSetSame, Received
<1>27. ASSUME NEW c \in Commands, StateSetPause(c) PROVE SerialInv'
  BY <1>27 DEF StateSetPause, Received
<1>28. ASSUME NEW c \in Commands, StateSetExecuting(c) PROVE SerialInv'
  BY <1>28 DEF StateSetExecuting, Received, Goto
<1>29. ASSUME NEW c \in Commands, FlushReceived(c) PROVE SerialInv'
  BY <1>29 DEF FlushReceived, Received, GotoPort, Goto
<1>30. CASE Resume
  BY <1>30 DEF Resume, Goto
<1>31. CASE FlushSignal
  BY <1>31 DEF FlushSignal, Goto
<1>32. CASE FlushLock
  BY <1>32 DEF FlushLock, Goto
<1>33. CASE FlushCount
  BY <1>33 DEF FlushCount, StillCounted, Goto
<1>34. CASE FlushReturn
  BY <1>34, FlushReturnSerial
<1>35. CASE HandlerReturnClear
  BY <1>35 DEF HandlerReturnClear, Goto
<1>36. CASE FlushDrainMore
  BY <1>36 DEF FlushDrainMore, Goto
<1>37. CASE FlushDrainWait
  BY <1>37 DEF FlushDrainWait, Goto
<1>38. CASE FlushUnlock
  BY <1>38 DEF FlushUnlock, Goto
<1>39. CASE FlushDone
  BY <1>39 DEF FlushDone, GotoPort, Goto
<1>40. CASE UNCHANGED vars
  BY <1>40 DEF vars
<1> QED
  BY <1>1, <1>2, <1>3, <1>4, <1>5, <1>6, <1>7, <1>8, <1>9, <1>10, <1>11, <1>12, <1>13,
     <1>14, <1>15, <1>16, <1>17, <1>18, <1>19, <1>20, <1>21, <1>22, <1>23, <1>24,
     <1>25, <1>26, <1>27, <1>28, <1>29, <1>30, <1>31, <1>32, <1>33, <1>34, <1>35,
     <1>36, <1>37, <1>38, <1>39, <1>40
     DEF Next, Submit, Process, Handler, BufferReturn, Threads

LEMMA SerialInit == Init => SerialInv
  BY DEF Init, SerialInv, HandlerIdle, Idle, DrainSteps, LockedSteps, NoCall, Threads

-----------------------------------------------------------------------------
(* EveryHeaderHasToken, for a decoder whose input always fits: a thread that
   goes for a header then has room for it, so each token it takes brings one.
   What a flush does to the tokens matters to nobody while it has the port's
   mutex, and when it gives the mutex up nothing is counted. *)

TokenInv ==
  /\ pc["process"] \in {"get", "get_wait", "get_lock"} => dataBuffer[port["process"]] = NULL
  /\ \A p \in Port : \/ pc["handler"] \in LockedSteps /\ port["handler"] = p
                     \/ numElem[p] <= bufferSemID[p] + InHand(p) + Posting(p)

LEMMA TokenInit == Init => TokenInv
  BY DEF Init, TokenInv, InHand, Posting, NoCall, Threads

LEMMA TokenStep == ~Overflow /\ FlowInv /\ TokenInv /\ [Next]_vars => TokenInv'
<1> SUFFICES ASSUME ~Overflow, FlowInv, TokenInv, [Next]_vars PROVE TokenInv'
  OBVIOUS
<1> USE DEF FlowInv, TypeOK, LockInv, LockedSteps, TokenInv, InHand, Posting,
    Port, Threads, INPUT_PORT_INDEX, OUTPUT_PORT_INDEX,
    stateVars, queueVars, dataVars, flagVars, clientVars, threadVars
<1>1. ASSUME NEW c \in Commands, SendCommand(c) PROVE TokenInv'
  BY <1>1 DEF SendCommand
<1>2. ASSUME NEW p \in Port, NEW b \in Buffers(p), SubmitChecked(p, b) PROVE TokenInv'
  BY <1>2 DEF SubmitChecked, Idle
<1>3. ASSUME NEW p \in Port, SubmitQueued(p) PROVE TokenInv'
  BY <1>3 DEF SubmitQueued
<1>4. ASSUME NEW p \in Port, SubmitPosted(p) PROVE TokenInv'
  BY <1>4 DEF SubmitPosted, NoCall, Post
<1>5. ASSUME NEW t \in Threads, ReturnCallback(t) PROVE TokenInv'
  BY <1>5 DEF ReturnCallback, BufferDone, Goto
<1>6. ASSUME NEW t \in Threads, ReturnCheck(t) PROVE TokenInv'
  BY <1>6 DEF ReturnCheck, Goto
<1>7. ASSUME NEW t \in Threads, ReturnReset(t) PROVE TokenInv'
  BY <1>7 DEF ReturnReset, Goto
<1>8. ASSUME NEW t \in Threads, ReturnWait(t) PROVE TokenInv'
  BY <1>8 DEF ReturnWait, Goto
<1>9. CASE Park
  BY <1>9 DEF Park, Goto
<1>10. CASE ParkReset
  BY <1>10 DEF ParkReset, Goto
<1>11. CASE ParkWait
  BY <1>11 DEF ParkWait, Goto
<1>12. CASE Run
  BY <1>12 DEF Run, Goto
<1>13. CASE CheckOutput
  BY <1>13 DEF CheckOutput, GotoPort, Goto
<1>14. CASE GetQueueCheck
  BY <1>14 DEF GetQueueCheck, Goto
<1>15. CASE GetQueueWait
  BY <1>15 DEF GetQueueWait, Wait, Goto
<1>16. CASE GetQueueLocked
  BY <1>16 DEF GetQueueLocked, Dequeue, Dequeueable, GotoPort, Goto, CountBacked
<1>17. CASE ChooseInput
  BY <1>17 DEF ChooseInput, GotoPort, Goto
<1>18. CASE PreprocessKeep
  BY <1>18 DEF PreprocessKeep, AfterPreprocess, GotoPort, Goto
<1>19. CASE PreprocessUsed
  BY <1>19 DEF PreprocessUsed, GotoPort, Goto
<1>20. CASE DecodeLockInput
  BY <1>20 DEF DecodeLockInput, Goto
<1>21. CASE Decode
  BY <1>21 DEF Decode, Goto
<1>22. CASE Decoded
  BY <1>22 DEF Decoded, Goto
<1>23. CASE PostprocessKeep
  BY <1>23 DEF PostprocessKeep, Goto
<1>24. CASE PostprocessDeliver
  BY <1>24 DEF PostprocessDeliver, GotoPort, Goto
<1>25. CASE ProcessReturnClear
  BY <1>25 DEF ProcessReturnClear, AfterPreprocess, GotoPort, Goto
<1>26. ASSUME NEW c \in Commands, StateSetSame(c) PROVE TokenInv'
  BY <1>26 DEF StateSetSame, Received
<1>27. ASSUME NEW c \in Commands, StateSetPause(c) PROVE TokenInv'
  BY <1>27 DEF StateSetPause, Received
<1>28. ASSUME NEW c \in Commands, StateSetExecuting(c) PROVE TokenInv'
  BY <1>28 DEF StateSetExecuting, Received, Goto
<1>29. ASSUME NEW c \in Commands, FlushReceived(c) PROVE TokenInv'
  BY <1>29 DEF FlushReceived, Received, GotoPort, Goto
<1>30. CASE Resume
  BY <1>30 DEF Resume, Goto
<1>31. CASE FlushSignal
  BY <1>31 DEF FlushSignal, Goto
<1>32. CASE FlushLock
  BY <1>32 DEF FlushLock, Goto
<1>33. CASE FlushCount
  BY <1>33 DEF FlushCount, StillCounted, Post, Goto
<1>34. CASE FlushReturn
  BY <1>34 DEF FlushReturn, Dequeue, Wait, Goto
<1>35. CASE HandlerReturnClear
  BY <1>35 DEF HandlerReturnClear, Goto
<1>36. CASE FlushDrainMore
  BY <1>36 DEF FlushDrainMore, Goto
<1>37. CASE FlushDrainWait
  BY <1>37 DEF FlushDrainWait, Wait, Goto
<1>38. CASE FlushUnlock
  BY <1>38 DEF FlushUnlock, Goto
<1>39. CASE FlushDone
  BY <1>39 DEF FlushDone, GotoPort, Goto
<1>40. CASE UNCHANGED vars
  BY <1>40 DEF vars
<1> QED
  BY <1>1, <1>2, <1>3, <1>4, <1>5, <1>6, <1>7, <1>8, <1>9, <1>10, <1>11, <1>12, <1>13,
     <1>14, <1>15, <1>16, <1>17, <1>18, <1>19, <1>20, <1>21, <1>22, <1>23, <1>24,
     <1>25, <1>26, <1>27, <1>28, <1>29, <1>30, <1>31, <1>32, <1>33, <1>34, <1>35,
     <1>36, <1>37, <1>38, <1>39, <1>40
     DEF Next, Submit, Process, Handler, BufferReturn, Threads

-----------------------------------------------------------------------------
(* IdleReturnsAll: what the flush for Idle has emptied stays empty until the
   state changes, because a client that awaits each call submits nothing. *)

Emptied(p) == bufferQ[p] = <<>> /\ dataBuffer[p] = NULL

FlushSteps == LockedSteps \union {"flush", "flush_lock", "flush_done"}

IdleInv ==
  /\ pc["handler"] = "flush_done" => Emptied(port["handler"])
  /\ pc["handler"] \in FlushSteps /\ cmd.type = "StateSet" /\ port["handler"] = OUTPUT_PORT_INDEX
       => Emptied(INPUT_PORT_INDEX)

LEMMA IdleInit == Init => IdleInv
  BY DEF Init, IdleInv, FlushSteps, LockedSteps, Threads

LEMMA IdleStep == SerialClient /\ FlowInv /\ SerialInv /\ IdleInv /\ [Next]_vars => IdleInv'
<1> SUFFICES ASSUME SerialClient, FlowInv, SerialInv, IdleInv, [Next]_vars PROVE IdleInv'
  OBVIOUS
<1> USE OmxBufferFlowAssumption DEF FlowInv, TypeOK, LockedSteps, DrainSteps, FlushSteps,
    SerialInv, HandlerIdle, Idle, IdleInv, Emptied,
    Port, Threads, INPUT_PORT_INDEX, OUTPUT_PORT_INDEX,
    stateVars, queueVars, dataVars, flagVars, clientVars, threadVars
<1>1. ASSUME NEW c \in Commands, SendCommand(c) PROVE IdleInv'
  BY <1>1 DEF SendCommand
<1>2. ASSUME NEW p \in Port, NEW b \in Buffers(p), SubmitChecked(p, b) PROVE IdleInv'
  BY <1>2 DEF SubmitChecked
<1>3. ASSUME NEW p \in Port, SubmitQueued(p) PROVE IdleInv'
  BY <1>3 DEF SubmitQueued
<1>4. ASSUME NEW p \in Port, SubmitPosted(p) PROVE IdleInv'
  BY <1>4 DEF SubmitPosted, NoCall
<1>5. ASSUME NEW t \in Threads, ReturnCallback(t) PROVE IdleInv'
  BY <1>5 DEF ReturnCallback, BufferDone, Goto
<1>6. ASSUME NEW t \in Threads, ReturnCheck(t) PROVE IdleInv'
  BY <1>6 DEF ReturnCheck, Goto
<1>7. ASSUME NEW t \in Threads, ReturnReset(t) PROVE IdleInv'
  BY <1>7 DEF ReturnReset, Goto
<1>8. ASSUME NEW t \in Threads, ReturnWait(t) PROVE IdleInv'
  BY <1>8 DEF ReturnWait, Goto
<1>9. CASE Park
  BY <1>9 DEF Park, Goto
<1>10. CASE ParkReset
  BY <1>10 DEF ParkReset, Goto
<1>11. CASE ParkWait
  BY <1>11 DEF ParkWait, Goto
<1>12. CASE Run
  BY <1>12 DEF Run, Goto
<1>13. CASE CheckOutput
  BY <1>13 DEF CheckOutput, GotoPort, Goto
<1>14. CASE GetQueueCheck
  BY <1>14 DEF GetQueueCheck, Goto
<1>15. CASE GetQueueWait
  BY <1>15 DEF GetQueueWait, Goto
<1>16. CASE GetQueueLocked
  <2>1. \A p \in Port : Emptied(p) => Emptied(p)'
    BY <1>16 DEF GetQueueLocked, Dequeueable, Dequeue
  <2>2. pc'["handler"] = pc["handler"] /\ port'["handler"] = port["handler"] /\ cmd' = cmd
    BY <1>16 DEF GetQueueLocked, GotoPort, Goto
  <2> QED BY <2>1, <2>2
<1>17. CASE ChooseInput
  BY <1>17 DEF ChooseInput, GotoPort, Goto
<1>18. CASE PreprocessKeep
  BY <1>18 DEF PreprocessKeep, AfterPreprocess, GotoPort, Goto
<1>19. CASE PreprocessUsed
  BY <1>19 DEF PreprocessUsed, GotoPort, Goto
<1>20. CASE DecodeLockInput
  BY <1>20 DEF DecodeLockInput, Goto
<1>21. CASE Decode
  BY <1>21 DEF Decode, Goto
<1>22. CASE Decoded
  BY <1>22 DEF Decoded, Goto
<1>23. CASE PostprocessKeep
  BY <1>23 DEF PostprocessKeep, Goto
<1>24. CASE PostprocessDeliver
  BY <1>24 DEF PostprocessDeliver, GotoPort, Goto
<1>25. CASE ProcessReturnClear
  BY <1>25 DEF ProcessReturnClear, AfterPreprocess, GotoPort, Goto
<1>26. ASSUME NEW c \in Commands, StateSetSame(c) PROVE IdleInv'
  BY <1>26 DEF StateSetSame, Received
<1>27. ASSUME NEW c \in Commands, StateSetPause(c) PROVE IdleInv'
  BY <1>27 DEF StateSetPause, Received
<1>28. ASSUME NEW c \in Commands, StateSetExecuting(c) PROVE IdleInv'
  BY <1>28 DEF StateSetExecuting, Received, Goto
<1>29. ASSUME NEW c \in Commands, FlushReceived(c) PROVE IdleInv'
  BY <1>29 DEF FlushReceived, FirstPort, Flush, StateSet, Received, GotoPort, Goto
<1>30. CASE Resume
  BY <1>30 DEF Resume, Goto
<1>31. CASE FlushSignal
  BY <1>31 DEF FlushSignal, Goto
<1>32. CASE FlushLock
  BY <1>32 DEF FlushLock, Goto
<1>33. CASE FlushCount
  BY <1>33 DEF FlushCount, StillCounted, Goto
<1>34. CASE FlushReturn
  BY <1>34 DEF FlushReturn, Goto, Dequeueable, Dequeue
<1>35. CASE HandlerReturnClear
  BY <1>35 DEF HandlerReturnClear, Goto
<1>36. CASE FlushDrainMore
  BY <1>36 DEF FlushDrainMore, Goto
<1>37. CASE FlushDrainWait
  BY <1>37 DEF FlushDrainWait, Goto
<1>38. CASE FlushUnlock
  BY <1>38, EmptySeq DEF FlushUnlock, Goto
<1>39. CASE FlushDone
  BY <1>39 DEF FlushDone, LastPort, GotoPort, Goto
<1>40. CASE UNCHANGED vars
  BY <1>40 DEF vars
<1> QED
  BY <1>1, <1>2, <1>3, <1>4, <1>5, <1>6, <1>7, <1>8, <1>9, <1>10, <1>11, <1>12, <1>13,
     <1>14, <1>15, <1>16, <1>17, <1>18, <1>19, <1>20, <1>21, <1>22, <1>23, <1>24,
     <1>25, <1>26, <1>27, <1>28, <1>29, <1>30, <1>31, <1>32, <1>33, <1>34, <1>35,
     <1>36, <1>37, <1>38, <1>39, <1>40
     DEF Next, Submit, Process, Handler, BufferReturn, Threads

-----------------------------------------------------------------------------
(* The theorems. *)

LEMMA ProcessStays ==
  FlowInv /\ Process => pc'["handler"] = pc["handler"] /\ currentState' = currentState
  BY DEF FlowInv, TypeOK, Threads, Process, BufferReturn, ReturnCallback, ReturnCheck,
     ReturnReset, ReturnWait, ProcessReturnClear, AfterPreprocess, GotoPort, Goto,
     Park, ParkReset, ParkWait, Run, CheckOutput, GetQueueCheck, GetQueueWait,
     GetQueueLocked, ChooseInput, PreprocessKeep, PreprocessUsed, DecodeLockInput,
     Decode, Decoded, PostprocessKeep, PostprocessDeliver, stateVars

LEMMA FlowInvariant == Spec => []FlowInv
  BY FlowInvInit, FlowInvStep, PTL DEF Spec

(* Types stay correct: no semaphore or element count goes below zero, messageQ
   never exceeds its ring, each thread stays at a point of its program. *)
THEOREM TypeCorrect == Spec => []TypeOK
<1>1. FlowInv => TypeOK
  BY DEF FlowInv
<1> QED BY <1>1, FlowInvariant, PTL

(* The count that SEC_OMX_FlushPort's loop and the GetQueue functions trust
   never exceeds what is queued, whatever a client submits and commands. *)
THEOREM CountAlwaysBacked == Spec => []CountBacked
<1>1. FlowInv => CountBacked
  BY DEF FlowInv
<1> QED BY <1>1, FlowInvariant, PTL

(* No header is ever in two places: it is not returned twice, not decoded
   after it was returned, and not queued twice. *)
THEOREM NeverShared == Spec => []NoBufferShared
  BY FlowInvariant, SharedInit, SharedStep, PTL DEF Spec

LEMMA SerialInvariant ==
  ASSUME SerialClient PROVE Spec => []SerialInv
<1>1. Init => SerialInv
  BY SerialInit
<1>2. FlowInv /\ SerialInv /\ [Next]_vars => SerialInv'
  BY SerialStep
<1> QED BY <1>1, <1>2, FlowInvariant, PTL DEF Spec

(* A client that awaits each call is never left with a header that a flush
   has hidden by resetting the count. *)
THEOREM NeverHidden == Spec => []NoBufferHidden
<1>1. CASE SerialClient
  <2>1. SerialInv => NoBufferHidden
    BY DEF SerialInv, NoBufferHidden
  <2> QED BY <1>1, <2>1, SerialInvariant, PTL
<1>2. CASE ~SerialClient
  <2>1. NoBufferHidden
    BY <1>2 DEF NoBufferHidden
  <2> QED BY <2>1, PTL
<1> QED BY <1>1, <1>2

(* For such a client a flush that ends has returned all the port had. *)
THEOREM FlushEmptiesPort ==
  ASSUME SerialClient PROVE Spec => FlushReturnsAll
<1>1. FlowInv /\ SerialInv /\ [Next]_vars =>
        [\A p \in Port : pc["handler"] = "flush_drain" /\ pc'["handler"] = "flush_done"
           /\ p = port["handler"] => bufferQ'[p] = <<>> /\ dataBuffer'[p] = NULL]_vars
  <2> SUFFICES ASSUME FlowInv, SerialInv, Next, pc["handler"] = "flush_drain",
                      pc'["handler"] = "flush_done", NEW p \in Port, p = port["handler"]
               PROVE  bufferQ'[p] = <<>> /\ dataBuffer'[p] = NULL
    OBVIOUS
  <2>1. bufferQ[p] = <<>> /\ dataBuffer[p] = NULL
    <3>1. Len(bufferQ[p]) = 0 /\ bufferQ[p] \in Seq(AllBuffers) /\ dataBuffer[p] = NULL
      BY DEF FlowInv, TypeOK, SerialInv, DrainSteps, LockedSteps
    <3> QED BY <3>1, EmptySeq
  <2>2. FlushUnlock
    <3>1. CASE Process
      BY <3>1, ProcessStays
    <3>2. CASE Handler
      BY <3>2 DEF FlowInv, TypeOK, Threads, GotoPort, Goto,
         Handler, BufferReturn, Received, ReturnCallback, ReturnCheck,
         ReturnReset, ReturnWait, StateSetSame, StateSetPause, StateSetExecuting,
         FlushReceived, Resume, FlushSignal, FlushLock, FlushCount, FlushReturn,
         HandlerReturnClear, FlushDrainMore, FlushDrainWait, FlushDone
    <3>3. CASE Submit \/ \E c \in Commands : SendCommand(c)
      BY <3>3 DEF Submit, SubmitChecked, SubmitQueued, SubmitPosted, SendCommand,
         threadVars
    <3> QED BY <3>1, <3>2, <3>3 DEF Next
  <2> QED BY <2>1, <2>2 DEF FlushUnlock
<1>2. Spec => [][Next]_vars
  BY DEF Spec
<1> QED BY <1>1, <1>2, FlowInvariant, SerialInvariant, PTL DEF FlushReturnsAll

LEMMA OwnInvariant ==
  ASSUME RingHoldsAll PROVE Spec => [](OwnInv /\ NoBufferLost)
<1>1. Init => OwnInv /\ NoBufferLost
  BY OwnInit
<1>2. FlowInv /\ NoBufferShared /\ OwnInv /\ NoBufferLost /\ [Next]_vars
        => OwnInv' /\ NoBufferLost'
  BY OwnStep
<1> QED BY <1>1, <1>2, FlowInvariant, NeverShared, PTL DEF Spec

(* Whatever the client submits and commands, each header is in exactly one
   place: with the client, in a submission, queued, or being processed.  The
   hypothesis is the code's: SEC_OSAL_Queue's refusal is not looked at, so the
   ring needs a cell for each header. *)
THEOREM NothingSharedOrLost ==
  ASSUME RingHoldsAll PROVE Spec => []EachBufferInOnePlace
<1>1. NoBufferShared /\ NoBufferLost => EachBufferInOnePlace
  BY DEF EachBufferInOnePlace
<1> QED BY <1>1, NeverShared, OwnInvariant, PTL

(* Tokens and headers stay matched whatever the client does, as long as input
   data fits the decoder's buffer. *)
THEOREM TokensMatch ==
  ASSUME ~Overflow PROVE Spec => []EveryHeaderHasToken
<1>1. Init => TokenInv
  BY TokenInit
<1>2. FlowInv /\ TokenInv /\ [Next]_vars => TokenInv'
  BY TokenStep
<1>3. TokenInv => EveryHeaderHasToken
  BY DEF TokenInv, EveryHeaderHasToken, FlushingPort, LockedSteps
<1> QED BY <1>1, <1>2, <1>3, FlowInvariant, PTL DEF Spec

(* A client that awaits each call owns all its headers when the component is
   Idle again. *)
THEOREM IdleMeansReturned ==
  ASSUME SerialClient, RingHoldsAll PROVE Spec => IdleReturnsAll
<1>1. Init => IdleInv
  BY IdleInit
<1>2. FlowInv /\ SerialInv /\ IdleInv /\ [Next]_vars => IdleInv'
  BY IdleStep
<1>3. FlowInv /\ SerialInv /\ IdleInv /\ OwnInv /\ NoBufferLost /\ [Next]_vars =>
        [SerialClient /\ currentState # "Idle" /\ currentState' = "Idle"
           => \A p \in Port : client'[p] = Buffers(p)]_vars
  <2> SUFFICES ASSUME FlowInv, SerialInv, IdleInv, OwnInv, NoBufferLost, Next,
                      currentState # "Idle", currentState' = "Idle"
               PROVE  \A p \in Port : client'[p] = Buffers(p)
    OBVIOUS
  <2>1. FlushDone
    <3>1. CASE Process
      BY <3>1, ProcessStays
    <3>2. CASE Handler
      BY <3>2 DEF Handler, BufferReturn, Received, ReturnCallback, ReturnCheck,
         ReturnReset, ReturnWait, StateSetSame, StateSetPause, StateSetExecuting,
         FlushReceived, Resume, FlushSignal, FlushLock, FlushCount, FlushReturn,
         HandlerReturnClear, FlushDrainMore, FlushDrainWait, FlushUnlock, stateVars
    <3>3. CASE Submit \/ \E c \in Commands : SendCommand(c)
      BY <3>3 DEF Submit, SubmitChecked, SubmitQueued, SubmitPosted, SendCommand,
         stateVars
    <3> QED BY <3>1, <3>2, <3>3 DEF Next
  <2>2. /\ pc["handler"] = "flush_done" /\ cmd.type = "StateSet"
        /\ port["handler"] = OUTPUT_PORT_INDEX /\ client' = client
    BY <2>1 DEF FlushDone, LastPort, clientVars
  <2>3. \A p \in Port : Emptied(p) /\ Idle(p)
    BY <2>2 DEF IdleInv, SerialInv, HandlerIdle, FlushSteps, Port
  <2> SUFFICES ASSUME NEW p \in Port PROVE client[p] = Buffers(p)
    BY <2>2
  <2>4. call[p].buffer = NULL /\ Held(p) = NULL /\ client[p] \subseteq Buffers(p)
    BY <2>3 DEF Emptied, Idle, OwnInv, Held
  <2>5. Queued(p) = {}
    BY <2>3 DEF Emptied, Queued
  <2>6. NULL \notin Buffers(p)
    BY OmxBufferFlowAssumption DEF Buffers, AllBuffers
  <2> QED BY <2>4, <2>5, <2>6 DEF NoBufferLost
<1>4. Spec => [][Next]_vars
  BY DEF Spec
<1> QED BY <1>1, <1>2, <1>3, <1>4, FlowInvariant, SerialInvariant, OwnInvariant, PTL
        DEF Spec, IdleReturnsAll
=============================================================================
