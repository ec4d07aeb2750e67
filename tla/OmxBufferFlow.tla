--------------------------- MODULE OmxBufferFlow ---------------------------
(***************************************************************************)
(* The buffers of one populated OMX video decoder and the threads that     *)
(* hand them on:                                                           *)
(*   - client threads call SendCommand, EmptyThisBuffer, FillThisBuffer;   *)
(*   - "handler" is SEC_OMX_MessageHandlerThread: state changes, flushes;  *)
(*   - "process" is SEC_OMX_BufferProcess, the decoding loop.              *)
(* The component has its two enabled ports and both threads (Idle,         *)
(* Executing or Pause); loading and port disabling are not here.           *)
(* A step runs to the next point where another thread can tell the         *)
(* difference: a semaphore, an event, a mutex, or an unlocked shared word. *)
(* bufferQ is the abstract store of BoundedFifo, which SecQueueProofs      *)
(* shows the ring of SEC_OSAL_Queue.c to implement.                        *)
(***************************************************************************)
EXTENDS Integers, Sequences

CONSTANTS InBuffers, OutBuffers,  \* the buffer headers of the two ports
          NULL,                   \* no buffer header
          MAX_QUEUE_ELEMENTS,     \* ring size of messageQ and bufferQ
          Commands,               \* what the client may pass to SendCommand
          SerialClient,           \* the client awaits each call's outcome
          Overflow                \* input may exceed the decoder's buffer

INPUT_PORT_INDEX  == 0
OUTPUT_PORT_INDEX == 1
ALL_PORT_INDEX    == -1
Port == {INPUT_PORT_INDEX, OUTPUT_PORT_INDEX}
Threads == {"handler", "process"}

Buffers(p) == IF p = INPUT_PORT_INDEX THEN InBuffers ELSE OutBuffers
AllBuffers == InBuffers \union OutBuffers

StateSet(s) == [type |-> "StateSet", param |-> s]
Flush(p)    == [type |-> "Flush", param |-> p]
AllCommands == {StateSet(s) : s \in {"Idle", "Executing", "Pause"}}
               \union {Flush(p) : p \in Port \union {ALL_PORT_INDEX}}

ASSUME OmxBufferFlowAssumption ==
  /\ InBuffers \intersect OutBuffers = {}
  /\ NULL \notin AllBuffers
  /\ MAX_QUEUE_ELEMENTS \in Nat \ {0, 1}
  /\ Commands \subseteq AllCommands
  /\ SerialClient \in BOOLEAN /\ Overflow \in BOOLEAN

VARIABLES
  currentState, transientState,  \* SEC_OMX_BASECOMPONENT
  messageQ,           \* commands queued for the handler
  bIsPortFlushed,     \* per port: a flush is announced
  bufferQ, numElem,   \* per port: the queued headers and the element count
  bufferSemID,        \* per port: semaphore value
  dataBuffer,         \* per port: header being processed, NULL if not dataValid
  bufferMutex,        \* per port: who holds it, or "free"
  pauseEvent,         \* the event's signal
  remainOutputData, reInputData,
  client,             \* per port: headers the client may submit
  call,               \* per port: the submission in progress
  pc,                 \* per thread
  port,               \* per thread: the port it works on
  cmd,                \* the handler's current command
  result              \* what the process thread's current call will return

threadVars == <<pc, port, cmd, result>>
stateVars  == <<currentState, transientState>>
queueVars  == <<bufferQ, numElem, bufferSemID>>
dataVars   == <<dataBuffer, bufferMutex>>
flagVars   == <<remainOutputData, reInputData>>
clientVars == <<client, call>>
vars == <<stateVars, messageQ, bIsPortFlushed, queueVars, dataVars,
          pauseEvent, flagVars, clientVars, threadVars>>

NoCall == [step |-> "none", buffer |-> NULL]

(* After Loaded -> Idle: SendCommand has left transientState at LoadedToIdle,
   the process thread has just been created and the client owns all headers. *)
Init ==
  /\ currentState = "Idle" /\ transientState = "LoadedToIdle"
  /\ messageQ = <<>>
  /\ bIsPortFlushed = [p \in Port |-> FALSE]
  /\ bufferQ = [p \in Port |-> <<>>]
  /\ numElem = [p \in Port |-> 0]
  /\ bufferSemID = [p \in Port |-> 0]
  /\ dataBuffer = [p \in Port |-> NULL]
  /\ bufferMutex = [p \in Port |-> "free"]
  /\ pauseEvent = FALSE
  /\ remainOutputData = FALSE /\ reInputData = FALSE
  /\ client = [p \in Port |-> Buffers(p)]
  /\ call = [p \in Port |-> NoCall]
  /\ pc = [t \in Threads |-> IF t = "handler" THEN "message" ELSE "park"]
  /\ port = [t \in Threads |-> INPUT_PORT_INDEX]
  /\ cmd = StateSet("Idle")
  /\ result = FALSE

-----------------------------------------------------------------------------
(* Moves shared by the threads. *)

Goto(t, label) == pc' = [pc EXCEPT ![t] = label]
GotoPort(t, label, p) == Goto(t, label) /\ port' = [port EXCEPT ![t] = p]

(* Deviation for the mutation runs: a binary semaphore, which drops tokens. *)
PostBinary(p) == bufferSemID' = [bufferSemID EXCEPT ![p] = 1]
Post(p) == bufferSemID' = [bufferSemID EXCEPT ![p] = @ + 1]
Wait(p) == bufferSemID[p] > 0 /\ bufferSemID' = [bufferSemID EXCEPT ![p] = @ - 1]

Dequeueable(p) == bufferQ[p] # <<>> /\ numElem[p] > 0
(* Deviation for the mutation runs: the count stays. *)
DequeueUncounted(p) == bufferQ' = [bufferQ EXCEPT ![p] = Tail(@)] /\ UNCHANGED numElem
Dequeue(p) == /\ bufferQ' = [bufferQ EXCEPT ![p] = Tail(@)]
              /\ numElem' = [numElem EXCEPT ![p] = @ - 1]

(* EmptyBufferDone or FillBufferDone: the client owns the header again. *)
BufferDone(p, b) == client' = [client EXCEPT ![p] = @ \union {b}]

PortsNotFlushed == \A p \in Port : ~bIsPortFlushed[p]

-----------------------------------------------------------------------------
(* The client's calls. *)

Idle(p) == call[p].step = "none"
HandlerIdle == messageQ = <<>> /\ pc["handler"] = "message"

(* SEC_StateSet: transientState is chosen by the state at the time of the
   call, before the command is queued. *)
TransientFor(s) ==
  CASE s = "Idle" /\ currentState = "Executing" -> "ExecutingToIdle"
    [] s = "Executing" /\ currentState = "Idle" -> "IdleToExecuting"
    [] OTHER -> transientState

(* SEC_SetPortFlush refuses in Idle and otherwise raises the flags at once. *)
FlushAccepted(c) == c.type = "Flush" => currentState \in {"Executing", "Pause"}
Flushes(c, p) == c.type = "Flush" /\ c.param \in {p, ALL_PORT_INDEX}

(* SEC_OMX_SendCommand.  The flags change even if messageQ is full and the
   command is refused.  Flags and queueing are one step: in between, the
   handler can only finish what it is doing. *)
SendCommand(c) ==
  /\ SerialClient => HandlerIdle /\ \A p \in Port : Idle(p)
  /\ FlushAccepted(c)
  /\ transientState' = IF c.type = "StateSet" THEN TransientFor(c.param)
                                              ELSE transientState
  /\ bIsPortFlushed' = [p \in Port |-> bIsPortFlushed[p] \/ Flushes(c, p)]
  /\ messageQ' = IF Len(messageQ) < MAX_QUEUE_ELEMENTS - 1
                 THEN Append(messageQ, c) ELSE messageQ
  /\ UNCHANGED <<currentState, queueVars, dataVars, pauseEvent, flagVars,
                 clientVars, threadVars>>

(* EmptyThisBuffer (input) and FillThisBuffer (output): the checks, ... *)
SubmitChecked(p, b) ==
  /\ SerialClient => HandlerIdle
  /\ Idle(p) /\ b \in client[p]
  /\ ~bIsPortFlushed[p]
  /\ client' = [client EXCEPT ![p] = @ \ {b}]
  /\ call' = [call EXCEPT ![p] = [step |-> "queue", buffer |-> b]]
  /\ UNCHANGED <<stateVars, messageQ, bIsPortFlushed, queueVars, dataVars,
                 pauseEvent, flagVars, threadVars>>

(* ... SEC_OSAL_Queue, whose refusal is not looked at, ... *)
SubmitQueued(p) ==
  /\ call[p].step = "queue"
  /\ IF Len(bufferQ[p]) < MAX_QUEUE_ELEMENTS - 1 /\ numElem[p] < MAX_QUEUE_ELEMENTS
     THEN /\ bufferQ' = [bufferQ EXCEPT ![p] = Append(@, call[p].buffer)]
          /\ numElem' = [numElem EXCEPT ![p] = @ + 1]
     ELSE UNCHANGED <<bufferQ, numElem>>
  /\ call' = [call EXCEPT ![p] = [step |-> "post", buffer |-> NULL]]
  /\ UNCHANGED <<stateVars, messageQ, bIsPortFlushed, bufferSemID, dataVars,
                 pauseEvent, flagVars, client, threadVars>>

(* ... and SEC_OSAL_SemaphorePost. *)
SubmitPosted(p) ==
  /\ call[p].step = "post"
  /\ Post(p)
  /\ call' = [call EXCEPT ![p] = NoCall]
  /\ UNCHANGED <<stateVars, messageQ, bIsPortFlushed, bufferQ, numElem, dataVars,
                 pauseEvent, flagVars, client, threadVars>>

-----------------------------------------------------------------------------
(* SEC_InputBufferReturn and SEC_OutputBufferReturn, run by either thread t
   with bufferMutex[port[t]] held: the callback; in Pause, with no flush
   announced, a wait for pauseEvent; then the data buffer is cleared. *)

ReturnCallback(t) ==
  /\ pc[t] = "return"
  /\ BufferDone(port[t], dataBuffer[port[t]])
  /\ Goto(t, "return_check")
  /\ UNCHANGED <<stateVars, messageQ, bIsPortFlushed, queueVars, dataVars,
                 pauseEvent, flagVars, call, port, cmd, result>>

ReturnCheck(t) ==
  /\ pc[t] = "return_check"
  /\ Goto(t, IF currentState = "Pause" /\ PortsNotFlushed
             THEN "return_reset" ELSE "return_clear")
  /\ UNCHANGED <<stateVars, messageQ, bIsPortFlushed, queueVars, dataVars,
                 pauseEvent, flagVars, clientVars, port, cmd, result>>

ReturnReset(t) ==
  /\ pc[t] = "return_reset"
  /\ pauseEvent' = FALSE
  /\ Goto(t, "return_wait")
  /\ UNCHANGED <<stateVars, messageQ, bIsPortFlushed, queueVars, dataVars,
                 flagVars, clientVars, port, cmd, result>>

ReturnWait(t) ==
  /\ pc[t] = "return_wait"
  /\ pauseEvent
  /\ Goto(t, "return_clear")
  /\ UNCHANGED <<stateVars, messageQ, bIsPortFlushed, queueVars, dataVars,
                 pauseEvent, flagVars, clientVars, port, cmd, result>>

-----------------------------------------------------------------------------
(* SEC_OMX_BufferProcess, the process thread. *)

(* The outer loop waits here unless the component runs or a port is flushed.
   IdleToLoaded does not occur while both threads are needed. *)
MustPark == /\ \/ currentState \in {"Pause", "Idle"}
               \/ transientState \in {"LoadedToIdle", "ExecutingToIdle"}
            /\ PortsNotFlushed

Park ==
  /\ pc["process"] = "park"
  /\ Goto("process", IF MustPark THEN "park_reset" ELSE "run")
  /\ UNCHANGED <<stateVars, messageQ, bIsPortFlushed, queueVars, dataVars,
                 pauseEvent, flagVars, clientVars, port, cmd, result>>

ParkReset ==
  /\ pc["process"] = "park_reset"
  /\ pauseEvent' = FALSE
  /\ Goto("process", "park_wait")
  /\ UNCHANGED <<stateVars, messageQ, bIsPortFlushed, queueVars, dataVars,
                 flagVars, clientVars, port, cmd, result>>

ParkWait ==
  /\ pc["process"] = "park_wait"
  /\ pauseEvent
  /\ Goto("process", "run")
  /\ UNCHANGED <<stateVars, messageQ, bIsPortFlushed, queueVars, dataVars,
                 pauseEvent, flagVars, clientVars, port, cmd, result>>

(* SEC_Check_BufferProcess_State, both ports' portState being Idle. *)
BufferProcessState ==
  /\ currentState = "Executing"
  /\ transientState \notin {"ExecutingToIdle", "IdleToExecuting"}

Run ==
  /\ pc["process"] = "run"
  /\ Goto("process", IF BufferProcessState THEN "output" ELSE "park")
  /\ UNCHANGED <<stateVars, messageQ, bIsPortFlushed, queueVars, dataVars,
                 pauseEvent, flagVars, clientVars, port, cmd, result>>

(* Is an output buffer needed?  Looked at under its mutex. *)
CheckOutput ==
  /\ pc["process"] = "output"
  /\ bufferMutex[OUTPUT_PORT_INDEX] = "free"
  /\ IF dataBuffer[OUTPUT_PORT_INDEX] = NULL /\ ~bIsPortFlushed[OUTPUT_PORT_INDEX]
     THEN GotoPort("process", "get", OUTPUT_PORT_INDEX)
     ELSE Goto("process", "input") /\ UNCHANGED port
  /\ UNCHANGED <<stateVars, messageQ, bIsPortFlushed, queueVars, dataVars,
                 pauseEvent, flagVars, clientVars, cmd, result>>

(* SEC_InputBufferGetQueue and SEC_OutputBufferGetQueue: the state check, *)
GetQueueCheck ==
  /\ pc["process"] = "get"
  /\ Goto("process", IF currentState = "Executing" THEN "get_wait" ELSE "park")
  /\ UNCHANGED <<stateVars, messageQ, bIsPortFlushed, queueVars, dataVars,
                 pauseEvent, flagVars, clientVars, port, cmd, result>>

(* the wait for a token, *)
GetQueueWait ==
  /\ pc["process"] = "get_wait"
  /\ Wait(port["process"])
  /\ Goto("process", "get_lock")
  /\ UNCHANGED <<stateVars, messageQ, bIsPortFlushed, bufferQ, numElem, dataVars,
                 pauseEvent, flagVars, clientVars, port, cmd, result>>

(* and the dequeue under the mutex, which spends the token without dequeuing
   when the data buffer is still in use.  After the input port, and after an
   empty queue, the inner loop is left. *)
GetQueueLocked ==
  LET p == port["process"] IN
  /\ pc["process"] = "get_lock"
  /\ bufferMutex[p] = "free"
  /\ IF dataBuffer[p] = NULL /\ Dequeueable(p)
     THEN Dequeue(p) /\ dataBuffer' = [dataBuffer EXCEPT ![p] = Head(bufferQ[p])]
     ELSE UNCHANGED <<bufferQ, numElem, dataBuffer>>
  /\ Goto("process", IF p = OUTPUT_PORT_INDEX /\ dataBuffer'[p] # NULL
                     THEN "input" ELSE "park")
  /\ UNCHANGED <<stateVars, messageQ, bIsPortFlushed, bufferSemID, bufferMutex,
                 pauseEvent, flagVars, clientVars, port, cmd, result>>

ChooseInput ==
  /\ pc["process"] = "input"
  /\ Goto("process", IF remainOutputData THEN "postprocess"
                     ELSE IF reInputData THEN "decode" ELSE "preprocess")
  /\ UNCHANGED <<stateVars, messageQ, bIsPortFlushed, queueVars, dataVars,
                 pauseEvent, flagVars, clientVars, port, cmd, result>>

(* Deviation for the mutation runs: no new input is asked for. *)
AfterPreprocessDecode(complete) == Goto("process", "decode") /\ UNCHANGED port
(* What follows SEC_Preprocessor_InputData(...) = complete. *)
AfterPreprocess(complete) ==
  IF ~complete /\ ~bIsPortFlushed[INPUT_PORT_INDEX]
  THEN GotoPort("process", "get", INPUT_PORT_INDEX)
  ELSE Goto("process", "decode") /\ UNCHANGED port

(* SEC_Preprocessor_InputData with nothing to return: no data buffer, a frame
   that leaves data behind, or data that does not fit and stays. *)
PreprocessKeep ==
  /\ pc["process"] = "preprocess"
  /\ bufferMutex[INPUT_PORT_INDEX] = "free"
  /\ \/ dataBuffer[INPUT_PORT_INDEX] = NULL /\ AfterPreprocess(FALSE)
     \/ dataBuffer[INPUT_PORT_INDEX] # NULL /\ AfterPreprocess(TRUE)
     \/ dataBuffer[INPUT_PORT_INDEX] # NULL /\ Overflow /\ AfterPreprocess(FALSE)
  /\ UNCHANGED <<stateVars, messageQ, bIsPortFlushed, queueVars, dataVars,
                 pauseEvent, flagVars, clientVars, cmd, result>>

(* The data buffer is used up, with or without completing a frame. *)
PreprocessUsed ==
  /\ pc["process"] = "preprocess"
  /\ bufferMutex[INPUT_PORT_INDEX] = "free"
  /\ dataBuffer[INPUT_PORT_INDEX] # NULL
  /\ bufferMutex' = [bufferMutex EXCEPT ![INPUT_PORT_INDEX] = "process"]
  /\ result' \in BOOLEAN
  /\ GotoPort("process", "return", INPUT_PORT_INDEX)
  /\ UNCHANGED <<stateVars, messageQ, bIsPortFlushed, queueVars, dataBuffer,
                 pauseEvent, flagVars, clientVars, cmd>>

(* sec_mfc_bufferProcess under both mutexes, input first. *)
DecodeLockInput ==
  /\ pc["process"] = "decode"
  /\ bufferMutex[INPUT_PORT_INDEX] = "free"
  /\ bufferMutex' = [bufferMutex EXCEPT ![INPUT_PORT_INDEX] = "process"]
  /\ Goto("process", "decode_locked")
  /\ UNCHANGED <<stateVars, messageQ, bIsPortFlushed, queueVars, dataBuffer,
                 pauseEvent, flagVars, clientVars, port, cmd, result>>

Decode ==
  /\ pc["process"] = "decode_locked"
  /\ bufferMutex[OUTPUT_PORT_INDEX] = "free"
  /\ bufferMutex' = [bufferMutex EXCEPT ![INPUT_PORT_INDEX] = "free"]
  /\ result' \in BOOLEAN
  /\ Goto("process", "decoded")
  /\ UNCHANGED <<stateVars, messageQ, bIsPortFlushed, queueVars, dataBuffer,
                 pauseEvent, flagVars, clientVars, port, cmd>>

(* OMX_ErrorInputDataDecodeYet is noted after the mutexes are released. *)
Decoded ==
  /\ pc["process"] = "decoded"
  /\ reInputData' = result
  /\ Goto("process", "postprocess")
  /\ UNCHANGED <<stateVars, messageQ, bIsPortFlushed, queueVars, dataVars,
                 pauseEvent, remainOutputData, clientVars, port, cmd, result>>

(* SEC_Postprocess_OutputData: no output buffer, or nothing to deliver yet. *)
PostprocessKeep ==
  /\ pc["process"] = "postprocess"
  /\ bufferMutex[OUTPUT_PORT_INDEX] = "free"
  /\ remainOutputData' = (dataBuffer[OUTPUT_PORT_INDEX] = NULL)
  /\ Goto("process", "run")
  /\ UNCHANGED <<stateVars, messageQ, bIsPortFlushed, queueVars, dataVars,
                 pauseEvent, reInputData, clientVars, port, cmd, result>>

(* The frame, or the part of it that fits, is delivered. *)
PostprocessDeliver ==
  /\ pc["process"] = "postprocess"
  /\ bufferMutex[OUTPUT_PORT_INDEX] = "free"
  /\ dataBuffer[OUTPUT_PORT_INDEX] # NULL
  /\ bufferMutex' = [bufferMutex EXCEPT ![OUTPUT_PORT_INDEX] = "process"]
  /\ result' \in BOOLEAN
  /\ GotoPort("process", "return", OUTPUT_PORT_INDEX)
  /\ UNCHANGED <<stateVars, messageQ, bIsPortFlushed, queueVars, dataBuffer,
                 pauseEvent, flagVars, clientVars, cmd>>

(* The end of the buffer return in the process thread: clear, unlock, go on. *)
ProcessReturnClear ==
  LET p == port["process"] IN
  /\ pc["process"] = "return_clear"
  /\ dataBuffer' = [dataBuffer EXCEPT ![p] = NULL]
  /\ bufferMutex' = [bufferMutex EXCEPT ![p] = "free"]
  /\ IF p = INPUT_PORT_INDEX
     THEN AfterPreprocess(result) /\ UNCHANGED remainOutputData
     ELSE /\ remainOutputData' = ~result
          /\ Goto("process", "run") /\ UNCHANGED port
  /\ UNCHANGED <<stateVars, messageQ, bIsPortFlushed, queueVars, pauseEvent,
                 reInputData, clientVars, cmd, result>>

-----------------------------------------------------------------------------
(* SEC_OMX_MessageHandlerThread, the handler thread. *)

Received(c) ==
  /\ pc["handler"] = "message"
  /\ messageQ # <<>> /\ c = Head(messageQ)
  /\ messageQ' = Tail(messageQ)
  /\ cmd' = c

(* SEC_OMX_ComponentStateSet to the current state: OMX_ErrorSameState. *)
StateSetSame(c) ==
  /\ Received(c)
  /\ c = StateSet(currentState)
  /\ UNCHANGED <<stateVars, bIsPortFlushed, queueVars, dataVars, pauseEvent,
                 flagVars, clientVars, pc, port, result>>

StateSetPause(c) ==
  /\ Received(c)
  /\ c = StateSet("Pause") /\ currentState # "Pause"
  /\ currentState' = "Pause"
  /\ UNCHANGED <<transientState, bIsPortFlushed, queueVars, dataVars, pauseEvent,
                 flagVars, clientVars, pc, port, result>>

(* To Executing: the state first, ... *)
StateSetExecuting(c) ==
  /\ Received(c)
  /\ c = StateSet("Executing") /\ currentState # "Executing"
  /\ currentState' = "Executing"
  /\ transientState' = IF currentState = "Idle" THEN "Max" ELSE transientState
  /\ Goto("handler", "resume")
  /\ UNCHANGED <<bIsPortFlushed, queueVars, dataVars, pauseEvent, flagVars,
                 clientVars, port, result>>

(* ... then SEC_OSAL_SignalSet. *)
Resume ==
  /\ pc["handler"] = "resume"
  /\ pauseEvent' = TRUE
  /\ Goto("handler", "message")
  /\ UNCHANGED <<stateVars, messageQ, bIsPortFlushed, queueVars, dataVars,
                 flagVars, clientVars, port, cmd, result>>

(* OMX_CommandFlush, and Idle from Executing or Pause, flush port after port. *)
FirstPort(c) == IF c.type = "Flush" /\ c.param # ALL_PORT_INDEX
                THEN c.param ELSE INPUT_PORT_INDEX
(* Deviation for the mutation runs: Idle flushes the input port only. *)
LastPortInput(c) == IF c = Flush(OUTPUT_PORT_INDEX) THEN OUTPUT_PORT_INDEX ELSE INPUT_PORT_INDEX
LastPort(c)  == IF c.type = "Flush" /\ c.param # ALL_PORT_INDEX
                THEN c.param ELSE OUTPUT_PORT_INDEX

FlushReceived(c) ==
  /\ Received(c)
  /\ c.type = "Flush" \/ (c = StateSet("Idle") /\ currentState # "Idle")
  /\ GotoPort("handler", "flush", FirstPort(c))
  /\ UNCHANGED <<stateVars, bIsPortFlushed, queueVars, dataVars, pauseEvent,
                 flagVars, clientVars, result>>

(* SEC_OMX_BufferFlushProcess, or ...NoEvent, which announces the flush here:
   SEC_OSAL_SignalSet lets the process thread leave the buffer mutex. *)
FlushSignal ==
  /\ pc["handler"] = "flush"
  /\ bIsPortFlushed' = [bIsPortFlushed EXCEPT ![port["handler"]] =
                          @ \/ cmd.type = "StateSet"]
  /\ pauseEvent' = TRUE
  /\ Goto("handler", "flush_lock")
  /\ UNCHANGED <<stateVars, messageQ, queueVars, dataVars, flagVars, clientVars,
                 port, cmd, result>>

(* Deviation for the mutation runs: the flush does not wait for the mutex. *)
FlushUnlocked ==
  /\ pc["handler"] = "flush_lock"
  /\ bufferMutex' = [bufferMutex EXCEPT ![port["handler"]] = "handler"]
  /\ Goto("handler", "flush_count")
  /\ UNCHANGED <<stateVars, messageQ, bIsPortFlushed, queueVars, dataBuffer,
                 pauseEvent, flagVars, clientVars, port, cmd, result>>

FlushLock ==
  LET p == port["handler"] IN
  /\ pc["handler"] = "flush_lock"
  /\ bufferMutex[p] = "free"
  /\ bufferMutex' = [bufferMutex EXCEPT ![p] = "handler"]
  /\ Goto("handler", "flush_count")
  /\ UNCHANGED <<stateVars, messageQ, bIsPortFlushed, queueVars, dataBuffer,
                 pauseEvent, flagVars, clientVars, port, cmd, result>>

(* Deviation for the mutation runs: the loop ends one element early. *)
MoreThanOneCounted(p) == numElem[p] > 1
(* The condition of SEC_OMX_FlushPort's loop. *)
StillCounted(p) == numElem[p] > 0

(* SEC_OMX_FlushPort.  While the queue counts elements: make sure there is a
   token, ... *)
FlushCount ==
  LET p == port["handler"] IN
  /\ pc["handler"] = "flush_count"
  /\ \/ /\ StillCounted(p) /\ bufferSemID[p] = 0
        /\ Post(p) /\ Goto("handler", "flush_wait")
     \/ /\ StillCounted(p) /\ bufferSemID[p] > 0
        /\ Goto("handler", "flush_wait") /\ UNCHANGED bufferSemID
     \/ /\ ~StillCounted(p) /\ dataBuffer[p] # NULL
        /\ Goto("handler", "return") /\ UNCHANGED bufferSemID
     \/ /\ ~StillCounted(p) /\ dataBuffer[p] = NULL
        /\ Goto("handler", "flush_drain") /\ UNCHANGED bufferSemID
  /\ UNCHANGED <<stateVars, messageQ, bIsPortFlushed, bufferQ, numElem, dataVars,
                 pauseEvent, flagVars, clientVars, port, cmd, result>>

(* ... take a token and return the oldest header. *)
FlushReturn ==
  LET p == port["handler"] IN
  /\ pc["handler"] = "flush_wait"
  /\ Wait(p)
  /\ IF Dequeueable(p)
     THEN Dequeue(p) /\ BufferDone(p, Head(bufferQ[p]))
     ELSE UNCHANGED <<bufferQ, numElem, client>>
  /\ Goto("handler", "flush_count")
  /\ UNCHANGED <<stateVars, messageQ, bIsPortFlushed, dataVars, pauseEvent,
                 flagVars, call, port, cmd, result>>

(* The data buffer has been returned too. *)
HandlerReturnClear ==
  /\ pc["handler"] = "return_clear"
  /\ dataBuffer' = [dataBuffer EXCEPT ![port["handler"]] = NULL]
  /\ Goto("handler", "flush_drain")
  /\ UNCHANGED <<stateVars, messageQ, bIsPortFlushed, queueVars, bufferMutex,
                 pauseEvent, flagVars, clientVars, port, cmd, result>>

(* Left-over tokens are waited away one by one, ... *)
FlushDrainMore ==
  /\ pc["handler"] = "flush_drain"
  /\ bufferSemID[port["handler"]] > 0
  /\ Goto("handler", "flush_drain_wait")
  /\ UNCHANGED <<stateVars, messageQ, bIsPortFlushed, queueVars, dataVars,
                 pauseEvent, flagVars, clientVars, port, cmd, result>>

FlushDrainWait ==
  /\ pc["handler"] = "flush_drain_wait"
  /\ Wait(port["handler"])
  /\ Goto("handler", "flush_drain")
  /\ UNCHANGED <<stateVars, messageQ, bIsPortFlushed, bufferQ, numElem, dataVars,
                 pauseEvent, flagVars, clientVars, port, cmd, result>>

(* ... the count is set to 0 whatever the queue holds, and the mutex and the
   announcement are given up. *)
FlushUnlock ==
  LET p == port["handler"] IN
  /\ pc["handler"] = "flush_drain"
  /\ bufferSemID[p] = 0
  /\ numElem' = [numElem EXCEPT ![p] = 0]
  /\ bufferMutex' = [bufferMutex EXCEPT ![p] = "free"]
  /\ bIsPortFlushed' = [bIsPortFlushed EXCEPT ![p] = FALSE]
  /\ Goto("handler", "flush_done")
  /\ UNCHANGED <<stateVars, messageQ, bufferQ, bufferSemID, dataBuffer,
                 pauseEvent, flagVars, clientVars, port, cmd, result>>

(* The decoder's flags are reset without the mutex; a flush for Idle resets
   both with the input port.  Then the other port, or the end. *)
FlushDone ==
  LET p == port["handler"]
      forIdle == cmd.type = "StateSet" IN
  /\ pc["handler"] = "flush_done"
  /\ reInputData' = (reInputData /\ p # INPUT_PORT_INDEX)
  /\ remainOutputData' = (remainOutputData /\
       p # (IF forIdle THEN INPUT_PORT_INDEX ELSE OUTPUT_PORT_INDEX))
  /\ IF p # LastPort(cmd)
     THEN GotoPort("handler", "flush", OUTPUT_PORT_INDEX) /\ UNCHANGED currentState
     ELSE /\ GotoPort("handler", "message", p)
          /\ currentState' = IF forIdle THEN "Idle" ELSE currentState
  /\ UNCHANGED <<transientState, messageQ, bIsPortFlushed, queueVars, dataVars,
                 pauseEvent, clientVars, cmd, result>>

-----------------------------------------------------------------------------
BufferReturn(t) ==
  ReturnCallback(t) \/ ReturnCheck(t) \/ ReturnReset(t) \/ ReturnWait(t)

Process ==
  \/ Park \/ ParkReset \/ ParkWait \/ Run
  \/ CheckOutput \/ GetQueueCheck \/ GetQueueWait \/ GetQueueLocked
  \/ ChooseInput \/ PreprocessKeep \/ PreprocessUsed
  \/ DecodeLockInput \/ Decode \/ Decoded
  \/ PostprocessKeep \/ PostprocessDeliver
  \/ BufferReturn("process") \/ ProcessReturnClear

Handler ==
  \/ \E c \in Commands : \/ StateSetSame(c) \/ StateSetPause(c)
                         \/ StateSetExecuting(c) \/ FlushReceived(c)
  \/ Resume
  \/ FlushSignal \/ FlushLock \/ FlushCount \/ FlushReturn
  \/ BufferReturn("handler") \/ HandlerReturnClear
  \/ FlushDrainMore \/ FlushDrainWait \/ FlushUnlock \/ FlushDone

Submit == \E p \in Port : \/ \E b \in Buffers(p) : SubmitChecked(p, b)
                          \/ SubmitQueued(p)
                          \/ SubmitPosted(p)

Next == \/ \E c \in Commands : SendCommand(c)
        \/ Submit \/ Process \/ Handler

Spec == Init /\ [][Next]_vars

(* Every thread that can run is run; a client finishes the calls it starts. *)
Fairness == /\ WF_vars(Process) /\ WF_vars(Handler) /\ SF_vars(FlushLock)
            /\ \A p \in Port : WF_vars(SubmitQueued(p) \/ SubmitPosted(p))

FairSpec == Spec /\ Fairness

(* For the flow of data: the client keeps submitting what it owns, input
   buffers are used up and complete a frame again and again, and decoding
   again and again ends with a frame to deliver and by wanting new input. *)
DataFairness ==
  /\ \A p \in Port : SF_vars(\E b \in Buffers(p) : SubmitChecked(p, b))
  /\ SF_vars(PreprocessUsed /\ result')
  /\ SF_vars(Decode /\ ~result')
  /\ SF_vars(PostprocessDeliver /\ result')

FlowSpec == FairSpec /\ DataFairness

-----------------------------------------------------------------------------
(* Properties. *)

TypeOK ==
  /\ currentState \in {"Idle", "Executing", "Pause"}
  /\ transientState \in {"LoadedToIdle", "IdleToExecuting", "ExecutingToIdle", "Max"}
  /\ messageQ \in Seq(Commands) /\ Len(messageQ) < MAX_QUEUE_ELEMENTS
  /\ bIsPortFlushed \in [Port -> BOOLEAN]
  /\ bufferQ \in [Port -> Seq(AllBuffers)]
  /\ numElem \in [Port -> Nat] /\ bufferSemID \in [Port -> Nat]
  /\ dataBuffer \in [Port -> AllBuffers \union {NULL}]
  /\ bufferMutex \in [Port -> Threads \union {"free"}]
  /\ pauseEvent \in BOOLEAN
  /\ remainOutputData \in BOOLEAN /\ reInputData \in BOOLEAN
  /\ client \in [Port -> SUBSET AllBuffers]
  /\ call \in [Port -> [step : {"none", "queue", "post"},
                        buffer : AllBuffers \union {NULL}]]
  /\ pc \in [Threads -> {"message", "resume", "flush", "flush_lock", "flush_count",
                         "flush_wait", "flush_drain", "flush_drain_wait",
                         "flush_done", "return", "return_check", "return_reset",
                         "return_wait", "return_clear", "park", "park_reset",
                         "park_wait", "run", "output", "get", "get_wait",
                         "get_lock", "input", "preprocess", "decode",
                         "decode_locked", "decoded", "postprocess"}]
  /\ port \in [Threads -> Port]
  /\ cmd \in AllCommands
  /\ result \in BOOLEAN

(* The data buffer still names a header between the callback and the clear. *)
CalledBack(p) == \E t \in Threads :
  port[t] = p /\ pc[t] \in {"return_check", "return_reset", "return_wait", "return_clear"}

Held(p)   == IF CalledBack(p) THEN NULL ELSE dataBuffer[p]
Queued(p) == {bufferQ[p][i] : i \in DOMAIN bufferQ[p]}
Distinct(p) == \A i, j \in DOMAIN bufferQ[p] : bufferQ[p][i] = bufferQ[p][j] => i = j

(* Through every interleaving of submissions, decoding and flushes a header is
   in one place only - with the client, in a submission, in the queue (once) or
   being processed - so none is returned twice or decoded after its return. *)
NoBufferShared ==
  \A p \in Port :
    /\ Distinct(p)
    /\ client[p] \intersect Queued(p) = {}
    /\ call[p].buffer \notin client[p] \union Queued(p)
    /\ Held(p) \notin client[p] \union Queued(p)
    /\ Held(p) # NULL => Held(p) # call[p].buffer

(* What a submission hands over is still somewhere: no header disappears, as
   long as the ring has a cell for every one of them. *)
NoBufferLost == \A p \in Port :
  Buffers(p) \subseteq client[p] \union Queued(p) \union {call[p].buffer, Held(p)}

(* Both: every header is in exactly one place. *)
EachBufferInOnePlace == NoBufferShared /\ NoBufferLost

(* The count that a flush resets never hides a header of a client that awaits
   each call, so a later GetQueue finds everything that was submitted. *)
NoBufferHidden == SerialClient => \A p \in Port : numElem[p] = Len(bufferQ[p])

(* Whatever the client does, the count never promises a header the queue does
   not hold: FlushReturn's loop ends, GetQueue is never fooled. *)
CountBacked == \A p \in Port : numElem[p] <= Len(bufferQ[p])

(* Outside a flush of the port, each counted header has its token: in the
   semaphore, about to be posted, or in the process thread's hand.  A missing
   token would leave the last header waiting for the client's next submission. *)
FlushingPort(p) == pc["handler"] \notin {"message", "resume"} /\ port["handler"] = p
InHand(p) == IF pc["process"] = "get_lock" /\ port["process"] = p THEN 1 ELSE 0
Posting(p) == IF call[p].step = "post" THEN 1 ELSE 0
EveryHeaderHasToken ==
  \A p \in Port : FlushingPort(p) \/
    numElem[p] <= bufferSemID[p] + InHand(p) + Posting(p)

(* A flush that reports its end has returned every header that was queued or
   being processed on the port. *)
FlushReturnsAll ==
  [][\A p \in Port : pc["handler"] = "flush_drain" /\ pc'["handler"] = "flush_done"
       /\ p = port["handler"] => bufferQ'[p] = <<>> /\ dataBuffer'[p] = NULL]_vars

(* When the component reaches Idle again, a client that awaits each call owns
   all its headers: it may free them on the way to Loaded. *)
IdleReturnsAll ==
  [][SerialClient /\ currentState # "Idle" /\ currentState' = "Idle"
       => \A p \in Port : client'[p] = Buffers(p)]_vars

(* The handler's waits that nobody will end: the process thread has taken the
   token the handler counted on, and wants the mutex the handler holds; ... *)
TokenStolen ==
  /\ pc["handler"] \in {"flush_wait", "flush_drain_wait"}
  /\ bufferSemID[port["handler"]] = 0
  /\ pc["process"] = "get_lock" /\ port["process"] = port["handler"]

(* ... or it has reset pauseEvent after the flush set it, and waits for it
   holding the mutex the handler wants. *)
PauseEventLost ==
  /\ pc["handler"] = "flush_lock"
  /\ pc["process"] = "return_wait" /\ ~pauseEvent

(* With a client that awaits each call, these two races are all that can keep
   a command from ending. *)
CommandEndsOrRace ==
  pc["handler"] # "message" ~>
    pc["handler"] = "message" \/ TokenStolen \/ PauseEventLost

(* The process thread has reset pauseEvent after the handler set it. *)
WakeUpLost == currentState = "Executing" /\ pc["handler"] = "message"
              /\ pc["process"] \in {"park_wait", "return_wait"} /\ ~pauseEvent

(* In Executing every submitted header comes back, unless the wake-up was lost
   or a flush hangs. *)
HeadersComeBack ==
  \A p \in Port : \A b \in Buffers(p) :
    b \notin client[p] ~> \/ b \in client[p] \/ currentState # "Executing"
                          \/ WakeUpLost \/ TokenStolen \/ PauseEventLost
=============================================================================
