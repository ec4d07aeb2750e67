---------------------------- MODULE OmxLifecycle ----------------------------
(***************************************************************************)
(* The life of OMX video components outside the flow of buffers: state     *)
(* commands, enabling and disabling of ports, the allocation of buffers by *)
(* the client, and the list of SEC_OMX_Resourcemanager.c that all          *)
(* components of the process share.  Every component has a message handler *)
(* thread, which blocks on the semaphores loadedResource and               *)
(* unloadedResource of its ports until the client has supplied or freed    *)
(* the buffers.  The resource manager's functions run under one mutex and  *)
(* are one step each.  What happens to submitted buffers is OmxBufferFlow. *)
(***************************************************************************)
EXTENDS Integers, FiniteSets, SequencesExt

CONSTANTS Component,            \* the component handles
          nPorts,               \* ports are 0 .. nPorts - 1
          nBufferCountActual,   \* buffers a port needs
          Priorities,           \* the assignments of priorities a client may choose
          MAX_RESOURCE_VIDEO,   \* entries of the resource manager's list
          MAX_QUEUE_ELEMENTS,   \* ring size of messageQ
          Commands,             \* what a client may pass to SendCommand
          SerialClient,         \* a client awaits each command's outcome
          InitFails,            \* sec_mfc_componentInit may fail
          MaxTokens             \* bound: tokens left in a port's semaphore

ALL_PORT_INDEX == -1
Port == 0 .. nPorts - 1
State == {"Loaded", "WaitForResources", "Idle", "Executing", "Pause", "Invalid"}

StateSet(s)    == [type |-> "StateSet", param |-> s]
PortEnable(n)  == [type |-> "PortEnable", param |-> n]
PortDisable(n) == [type |-> "PortDisable", param |-> n]
AllCommands == {StateSet(s) : s \in State}
  \union {PortEnable(n) : n \in Port \union {ALL_PORT_INDEX}}
  \union {PortDisable(n) : n \in Port \union {ALL_PORT_INDEX}}

ASSUME OmxLifecycleAssumption ==
  /\ nPorts \in Nat \ {0} /\ nBufferCountActual \in Nat \ {0}
  /\ Priorities \subseteq [Component -> Nat]
  /\ MAX_RESOURCE_VIDEO \in Nat \ {0}
  /\ MAX_QUEUE_ELEMENTS \in Nat \ {0, 1}
  /\ Commands \subseteq AllCommands
  /\ SerialClient \in BOOLEAN /\ InitFails \in BOOLEAN
  /\ MaxTokens \in Nat \ {0}

VARIABLES
  groupPriority,     \* per component, set in advance: larger gives way to smaller
  gpVideoRMComponentList, gpVideoRMWaitingList,  \* the resource manager's lists
  currentState, messageQ,            \* per component
  portState, bEnabled, bPopulated,   \* per component and port
  assignedBufferNum,
  loadedResource, unloadedResource,  \* the values of the two semaphores
  hBufferProcess,                    \* the process thread and what it waits on exist
  hMFCHandle,                        \* the codec driver is open
  pc, port,           \* per component: the handler's step and port,
  nPortIndex          \* and the parameter of its last port command

rmVars     == <<gpVideoRMComponentList, gpVideoRMWaitingList>>
portVars   == <<bEnabled, bPopulated, assignedBufferNum, loadedResource, unloadedResource>>
codecVars  == <<hBufferProcess, hMFCHandle>>
threadVars == <<pc, port, nPortIndex>>
vars == <<groupPriority, rmVars, currentState, messageQ, portState, portVars, codecVars, threadVars>>

(* SEC_OMX_GetHandle has constructed every component: Loaded, ports enabled. *)
Init ==
  /\ groupPriority \in Priorities
  /\ gpVideoRMComponentList = <<>> /\ gpVideoRMWaitingList = <<>>
  /\ currentState = [c \in Component |-> "Loaded"]
  /\ messageQ = [c \in Component |-> <<>>]
  /\ portState = [c \in Component |-> [p \in Port |-> "Loaded"]]
  /\ bEnabled = [c \in Component |-> [p \in Port |-> TRUE]]
  /\ bPopulated = [c \in Component |-> [p \in Port |-> FALSE]]
  /\ assignedBufferNum = [c \in Component |-> [p \in Port |-> 0]]
  /\ loadedResource = [c \in Component |-> [p \in Port |-> 0]]
  /\ unloadedResource = [c \in Component |-> [p \in Port |-> 0]]
  /\ hBufferProcess = [c \in Component |-> FALSE]
  /\ hMFCHandle = [c \in Component |-> FALSE]
  /\ pc = [c \in Component |-> "message"]
  /\ port = [c \in Component |-> 0]
  /\ nPortIndex = [c \in Component |-> 0]

HandlerIdle(c) == messageQ[c] = <<>> /\ pc[c] = "message"
(* The command a client that awaits each outcome is waiting for. *)
Outstanding(c) ==
  CASE pc[c] = "message"                   -> Head(messageQ[c])
    [] pc[c] \in {"load", "init"}          -> StateSet("Idle")
    [] pc[c] \in {"terminate", "unload"}   -> StateSet("Loaded")
    [] pc[c] = "invalidate"                -> StateSet("Invalid")
    [] pc[c] \in {"enable", "enable_wait"} -> PortEnable(nPortIndex[c])
    [] OTHER                               -> PortDisable(nPortIndex[c])

-----------------------------------------------------------------------------
(* SEC_OMX_SendCommand, by a client or by the resource manager. *)

Target(n) == IF n = ALL_PORT_INDEX THEN Port ELSE {n}

(* SEC_SetPortEnable goes through the ports until it meets an enabled one. *)
Enabling(c, n) == {p \in Target(n) : \A o \in Target(n) : o <= p => ~bEnabled[c][o]}
(* SEC_SetPortDisable stops at a disabled one, but takes a single port as it is. *)
Disabling(c, n) == {p \in Target(n) : n = ALL_PORT_INDEX =>
                      \A o \in Port : o <= p => bEnabled[c][o]}

(* What a command does to portState at once, before it is queued. *)
PortStateNow(c, k) ==
  [p \in Port |->
    CASE k = StateSet("Idle") /\ currentState[c] = "Loaded"    -> "Idle"
      [] k = StateSet("Loaded") /\ currentState[c] = "Idle"    -> "Loaded"
      [] k = StateSet("Invalid")                               -> "Invalid"
      [] k.type = "PortEnable" /\ p \in Enabling(c, k.param)   -> "Idle"
      [] k.type = "PortDisable" /\ p \in Disabling(c, k.param) -> "Loaded"
      [] OTHER -> portState[c][p]]

CommandRefused(c, k) ==
  \/ k.type = "PortEnable" /\ Enabling(c, k.param) # Target(k.param)
  \/ k.type = "PortDisable" /\ Disabling(c, k.param) # Target(k.param)

(* A waiting component is made Idle by the resource manager, not by its client. *)
SkipsTheWait(c, k) == currentState[c] = "WaitForResources" /\ k = StateSet("Idle")

Queueable(q) == Len(q) < MAX_QUEUE_ELEMENTS - 1

SendCommand(c, k) ==
  /\ SerialClient => HandlerIdle(c) /\ ~SkipsTheWait(c, k)
  /\ currentState[c] # "Invalid"
  /\ portState' = [portState EXCEPT ![c] = PortStateNow(c, k)]
  /\ messageQ' = IF ~CommandRefused(c, k) /\ Queueable(messageQ[c])
                 THEN [messageQ EXCEPT ![c] = Append(@, k)] ELSE messageQ
  /\ UNCHANGED <<rmVars, currentState, portVars, codecVars, threadVars>>

-----------------------------------------------------------------------------
(* The client's buffers.  A client that awaits each outcome supplies them for a
   command that needs them, and frees them for one that returns them or after
   a failed transition. *)

Supplying(c, p) ==
  /\ ~HandlerIdle(c)
  /\ \/ Outstanding(c) = StateSet("Idle") /\ currentState[c] = "Loaded" /\ bEnabled[c][p]
     \/ /\ Outstanding(c).type = "PortEnable" /\ p \in Target(Outstanding(c).param)
        /\ currentState[c] \notin {"Loaded", "WaitForResources"}

Clearing(c, p) ==
  \/ HandlerIdle(c) /\ currentState[c] \in {"Loaded", "Invalid"}
  \/ /\ ~HandlerIdle(c)
     /\ \/ Outstanding(c) = StateSet("Loaded") /\ currentState[c] = "Idle"
        \/ Outstanding(c).type = "PortDisable" /\ p \in Target(Outstanding(c).param)

(* The last buffer posts loadedResource. *)
BufferAssigned(c, p) ==
  /\ assignedBufferNum[c][p] < nBufferCountActual
  /\ loadedResource[c][p] < MaxTokens
  /\ assignedBufferNum' = [assignedBufferNum EXCEPT ![c][p] = @ + 1]
  /\ IF assignedBufferNum[c][p] + 1 = nBufferCountActual
     THEN /\ bPopulated' = [bPopulated EXCEPT ![c][p] = TRUE]
          /\ loadedResource' = [loadedResource EXCEPT ![c][p] = @ + 1]
     ELSE UNCHANGED <<bPopulated, loadedResource>>
  /\ UNCHANGED <<rmVars, currentState, messageQ, portState, bEnabled,
                 unloadedResource, codecVars, threadVars>>

UseBuffer(c, p) ==
  /\ SerialClient => Supplying(c, p)
  /\ portState[c][p] = "Idle"
  /\ BufferAssigned(c, p)

(* SEC_OMX_AllocateBuffer has its check of portState commented out. *)
AllocateBuffer(c, p) == (SerialClient => Supplying(c, p)) /\ BufferAssigned(c, p)

(* Deviation for the mutation runs: every buffer that is freed posts. *)
FreeBufferPostsEach(c, p) ==
  /\ SerialClient => Clearing(c, p)
  /\ assignedBufferNum[c][p] > 0 /\ unloadedResource[c][p] < MaxTokens
  /\ assignedBufferNum' = [assignedBufferNum EXCEPT ![c][p] = @ - 1]
  /\ bPopulated' = [bPopulated EXCEPT ![c][p] = FALSE]
  /\ unloadedResource' = [unloadedResource EXCEPT ![c][p] = @ + 1]
  /\ UNCHANGED <<rmVars, currentState, messageQ, portState, bEnabled,
                 loadedResource, codecVars, threadVars>>

(* SEC_OMX_FreeBuffer.  In a portState it does not like it reports an error and
   goes on.  The last buffer posts unloadedResource. *)
FreeBuffer(c, p) ==
  /\ SerialClient => Clearing(c, p)
  /\ assignedBufferNum[c][p] > 0
  /\ unloadedResource[c][p] < MaxTokens
  /\ assignedBufferNum' = [assignedBufferNum EXCEPT ![c][p] = @ - 1]
  /\ IF assignedBufferNum[c][p] = 1
     THEN /\ bPopulated' = [bPopulated EXCEPT ![c][p] = FALSE]
          /\ unloadedResource' = [unloadedResource EXCEPT ![c][p] = @ + 1]
     ELSE UNCHANGED <<bPopulated, unloadedResource>>
  /\ UNCHANGED <<rmVars, currentState, messageQ, portState, bEnabled,
                 loadedResource, codecVars, threadVars>>

-----------------------------------------------------------------------------
(* SEC_OMX_MessageHandlerThread and SEC_OMX_ComponentStateSet. *)

Goto(c, label) == pc' = [pc EXCEPT ![c] = label]

(* The oldest command is taken from the queue. *)
Receives(c, k) == pc[c] = "message" /\ messageQ[c] # <<>> /\ k = Head(messageQ[c])
Received(c, k) ==
  /\ Receives(c, k)
  /\ messageQ' = [messageQ EXCEPT ![c] = Tail(@)]
(* The same, when processing it makes the resource manager send command m to d. *)
ReceivedSending(c, k, d, m) ==
  /\ Receives(c, k)
  /\ LET taken == [messageQ EXCEPT ![c] = Tail(@)]
     IN  messageQ' = [taken EXCEPT ![d] = IF Queueable(@) THEN Append(@, m) ELSE @]
  /\ portState' = [portState EXCEPT ![d] = PortStateNow(d, m)]

(* Transitions that only assign currentState; the flush on the way from
   Executing or Pause to Idle and the signals for the process thread are in
   OmxBufferFlow. *)
PlainTransition(from, to) == <<from, to>> \in
  {<<"Executing", "Idle">>, <<"Pause", "Idle">>, <<"WaitForResources", "Idle">>,
   <<"Idle", "Executing">>, <<"Pause", "Executing">>,
   <<"Idle", "Pause">>, <<"Executing", "Pause">>}

(* Transitions with steps of their own. *)
StagedTransition(from, to) ==
  \/ <<from, to>> \in {<<"Loaded", "Idle">>, <<"Idle", "Loaded">>,
                       <<"Loaded", "WaitForResources">>, <<"WaitForResources", "Loaded">>}
  \/ from # "Invalid" /\ to = "Invalid"

StateSetPlain(c, k) ==
  /\ Received(c, k)
  /\ k.type = "StateSet" /\ PlainTransition(currentState[c], k.param)
  /\ currentState' = [currentState EXCEPT ![c] = k.param]
  /\ UNCHANGED <<rmVars, portState, portVars, codecVars, threadVars>>

(* The same state, OMX_StateInvalid, or a transition that is incorrect. *)
StateSetRefused(c, k) ==
  /\ Received(c, k)
  /\ k.type = "StateSet"
  /\ ~PlainTransition(currentState[c], k.param)
  /\ ~StagedTransition(currentState[c], k.param)
  /\ UNCHANGED <<rmVars, currentState, portState, portVars, codecVars, threadVars>>

(* SEC_OMX_In_WaitForResource and SEC_OMX_Out_WaitForResource; the outcome of
   the latter does not keep the component from being Loaded. *)
WaitForResources(c) ==
  /\ Received(c, StateSet("WaitForResources")) /\ currentState[c] = "Loaded"
  /\ gpVideoRMWaitingList' = Append(gpVideoRMWaitingList, c)
  /\ currentState' = [currentState EXCEPT ![c] = "WaitForResources"]
  /\ UNCHANGED <<gpVideoRMComponentList, portState, portVars, codecVars, threadVars>>

StopWaiting(c) ==
  /\ Received(c, StateSet("Loaded")) /\ currentState[c] = "WaitForResources"
  /\ gpVideoRMWaitingList' = RemoveFirst(gpVideoRMWaitingList, c)
  /\ currentState' = [currentState EXCEPT ![c] = "Loaded"]
  /\ UNCHANGED <<gpVideoRMComponentList, portState, portVars, codecVars, threadVars>>

-----------------------------------------------------------------------------
(* Loaded to Idle.  First SEC_OMX_Get_Resource. *)

Enter(c, label) ==
  Goto(c, label) /\ port' = [port EXCEPT ![c] = 0] /\ UNCHANGED nPortIndex
ToIdle(c) == Receives(c, StateSet("Idle")) /\ currentState[c] = "Loaded"

ListHasRoom == Len(gpVideoRMComponentList) < MAX_RESOURCE_VIDEO

GetResource(c) ==
  /\ ToIdle(c) /\ ListHasRoom
  /\ Received(c, StateSet("Idle"))
  /\ gpVideoRMComponentList' = Append(gpVideoRMComponentList, c)
  /\ Enter(c, "load")
  /\ UNCHANGED <<gpVideoRMWaitingList, currentState, portState, portVars, codecVars>>

(* Deviation for the mutation runs: the first entry of lower priority will do. *)
VictimsFirstLower(c) ==
  LET Lower == {i \in DOMAIN gpVideoRMComponentList :
                  groupPriority[gpVideoRMComponentList[i]] > groupPriority[c]}
  IN {gpVideoRMComponentList[i] : i \in {l \in Lower : \A j \in Lower : l <= j}}

(* searchLowPriority: the first of the entries with the lowest priority, if
   that is lower than the caller's. *)
Victims(c) ==
  LET Prio(i) == groupPriority[gpVideoRMComponentList[i]]
      Lower == {i \in DOMAIN gpVideoRMComponentList : Prio(i) > groupPriority[c]}
  IN {gpVideoRMComponentList[i] : i \in
        {l \in Lower : \A j \in Lower : Prio(j) < Prio(l) \/ (Prio(j) = Prio(l) /\ l <= j)}}

(* removeComponent sends an Idle victim to Loaded, if its queue takes the
   command, and does nothing to one in another state. *)
Evictable(v) == currentState[v] = "Idle" => Queueable(messageQ[v])

EvictAndGetResource(c, v) ==
  /\ ToIdle(c) /\ ~ListHasRoom
  /\ v \in Victims(c) /\ Evictable(v)
  /\ IF currentState[v] = "Idle"
     THEN ReceivedSending(c, StateSet("Idle"), v, StateSet("Loaded"))
     ELSE Received(c, StateSet("Idle")) /\ UNCHANGED portState
  /\ gpVideoRMComponentList' = Append(RemoveFirst(gpVideoRMComponentList, v), c)
  /\ Enter(c, "load")
  /\ UNCHANGED <<gpVideoRMWaitingList, currentState, portVars, codecVars>>

(* OMX_ErrorInsufficientResources.  portState stays as SendCommand left it. *)
GetResourceRefused(c) ==
  /\ ToIdle(c) /\ ~ListHasRoom
  /\ \A v \in Victims(c) : ~Evictable(v)
  /\ Received(c, StateSet("Idle"))
  /\ UNCHANGED <<rmVars, currentState, portState, portVars, codecVars, threadVars>>

(* A semaphore of the handler's port. *)
WaitFor(sem, c) == sem[c][port[c]] > 0

(* The handler goes on to the next port of those from port[c] up, or to last. *)
NextPort(c, label, last) ==
  IF port[c] + 1 < nPorts
  THEN pc' = [pc EXCEPT ![c] = label] /\ port' = [port EXCEPT ![c] = @ + 1]
  ELSE Goto(c, last) /\ UNCHANGED port

(* Then every enabled port waits to be populated, one after the other, ... *)
LoadPort(c) ==
  LET p == port[c] IN
  /\ pc[c] = "load"
  /\ IF bEnabled[c][p]
     THEN /\ WaitFor(loadedResource, c)
          /\ loadedResource' = [loadedResource EXCEPT ![c][p] = @ - 1]
          /\ bPopulated' = [bPopulated EXCEPT ![c][p] = TRUE]
     ELSE UNCHANGED <<loadedResource, bPopulated>>
  /\ NextPort(c, "load", "init")
  /\ UNCHANGED <<rmVars, currentState, messageQ, portState, bEnabled,
                 assignedBufferNum, unloadedResource, codecVars, nPortIndex>>

(* ... and the codec and the process thread are set up. *)
InitDone(c) ==
  /\ pc[c] = "init"
  /\ hMFCHandle' = [hMFCHandle EXCEPT ![c] = TRUE]
  /\ hBufferProcess' = [hBufferProcess EXCEPT ![c] = TRUE]
  /\ currentState' = [currentState EXCEPT ![c] = "Idle"]
  /\ Goto(c, "message")
  /\ UNCHANGED <<rmVars, messageQ, portState, portVars, port, nPortIndex>>

(* The driver may refuse to open, or fail after it was opened, or the process
   thread may not start; nothing that was acquired is given back. *)
InitFailed(c) ==
  /\ InitFails /\ pc[c] = "init"
  /\ hMFCHandle' \in {hMFCHandle, [hMFCHandle EXCEPT ![c] = TRUE]}
  /\ Goto(c, "message")
  /\ UNCHANGED <<rmVars, currentState, messageQ, portState, portVars,
                 hBufferProcess, port, nPortIndex>>

-----------------------------------------------------------------------------
(* Idle to Loaded, and any state to Invalid. *)

(* SEC_OMX_Release_Resource.  An entry that is found is removed, and the first
   waiting component is taken from its list and sent to Idle. *)
ReleasesEntry(c) == c \in ToSet(gpVideoRMComponentList)

(* Deviation for the mutation runs: the waiting list is read after the removal. *)
ReleaseResourceSendsToNext(c, k) ==
  /\ gpVideoRMComponentList' = RemoveFirst(gpVideoRMComponentList, c)
  /\ gpVideoRMWaitingList' = IF ReleasesEntry(c) /\ gpVideoRMWaitingList # <<>>
                             THEN Tail(gpVideoRMWaitingList) ELSE gpVideoRMWaitingList
  /\ IF ReleasesEntry(c) /\ Len(gpVideoRMWaitingList) > 1
     THEN ReceivedSending(c, k, gpVideoRMWaitingList[2], StateSet("Idle"))
     ELSE Received(c, k) /\ UNCHANGED portState

ReleaseResource(c, k) ==
  /\ gpVideoRMComponentList' = RemoveFirst(gpVideoRMComponentList, c)
  /\ IF ReleasesEntry(c) /\ gpVideoRMWaitingList # <<>>
     THEN LET w == Head(gpVideoRMWaitingList) IN
          /\ gpVideoRMWaitingList' = Tail(gpVideoRMWaitingList)
          /\ IF currentState[w] # "Invalid"
             THEN ReceivedSending(c, k, w, StateSet("Idle"))
             ELSE Received(c, k) /\ UNCHANGED portState
     ELSE Received(c, k) /\ UNCHANGED <<gpVideoRMWaitingList, portState>>

ReleaseForLoaded(c) ==
  /\ Receives(c, StateSet("Loaded")) /\ currentState[c] = "Idle"
  /\ ReleaseResource(c, StateSet("Loaded"))
  /\ Enter(c, "terminate")
  /\ UNCHANGED <<currentState, portVars, codecVars>>

(* The process thread is joined, its synchronisation objects and the codec are
   given up.  Then every enabled port waits to be unpopulated. *)
Terminate(c) ==
  /\ pc[c] = "terminate"
  /\ hBufferProcess' = [hBufferProcess EXCEPT ![c] = FALSE]
  /\ hMFCHandle' = [hMFCHandle EXCEPT ![c] = FALSE]
  /\ Goto(c, "unload")
  /\ UNCHANGED <<rmVars, currentState, messageQ, portState, portVars, port, nPortIndex>>

(* Deviation for the mutation runs: disabled ports are waited for too. *)
UnloadEveryPort(c) ==
  /\ pc[c] = "unload" /\ WaitFor(unloadedResource, c)
  /\ unloadedResource' = [unloadedResource EXCEPT ![c][port[c]] = @ - 1]
  /\ bPopulated' = [bPopulated EXCEPT ![c][port[c]] = FALSE]
  /\ NextPort(c, "unload", "message")
  /\ currentState' = IF port[c] + 1 = nPorts
                     THEN [currentState EXCEPT ![c] = "Loaded"] ELSE currentState
  /\ UNCHANGED <<rmVars, messageQ, portState, bEnabled, assignedBufferNum,
                 loadedResource, codecVars, nPortIndex>>

UnloadPort(c) ==
  LET p == port[c] IN
  /\ pc[c] = "unload"
  /\ IF bEnabled[c][p]
     THEN /\ WaitFor(unloadedResource, c)
          /\ unloadedResource' = [unloadedResource EXCEPT ![c][p] = @ - 1]
          /\ bPopulated' = [bPopulated EXCEPT ![c][p] = FALSE]
     ELSE UNCHANGED <<unloadedResource, bPopulated>>
  /\ NextPort(c, "unload", "message")
  /\ currentState' = IF port[c] + 1 = nPorts
                     THEN [currentState EXCEPT ![c] = "Loaded"] ELSE currentState
  /\ UNCHANGED <<rmVars, messageQ, portState, bEnabled, assignedBufferNum,
                 loadedResource, codecVars, nPortIndex>>

(* Loaded and WaitForResources become Invalid without releasing anything. *)
ReleaseForInvalid(c) ==
  /\ Receives(c, StateSet("Invalid")) /\ currentState[c] # "Invalid"
  /\ IF currentState[c] \in {"Idle", "Executing", "Pause"}
     THEN ReleaseResource(c, StateSet("Invalid"))
     ELSE Received(c, StateSet("Invalid")) /\ UNCHANGED <<rmVars, portState>>
  /\ Enter(c, "invalidate")
  /\ UNCHANGED <<currentState, portVars, codecVars>>

Invalidate(c) ==
  /\ pc[c] = "invalidate"
  /\ currentState' = [currentState EXCEPT ![c] = "Invalid"]
  /\ hBufferProcess' = [hBufferProcess EXCEPT ![c] = FALSE]
  /\ hMFCHandle' = [hMFCHandle EXCEPT ![c] = FALSE]
  /\ Goto(c, "message")
  /\ UNCHANGED <<rmVars, messageQ, portState, portVars, port, nPortIndex>>

-----------------------------------------------------------------------------
(* SEC_OMX_PortEnableProcess and SEC_OMX_PortDisableProcess. *)

StartAt(c, n, label) ==
  /\ Goto(c, label)
  /\ port' = [port EXCEPT ![c] = IF n = ALL_PORT_INDEX THEN 0 ELSE n]
  /\ nPortIndex' = [nPortIndex EXCEPT ![c] = n]

(* After the command's port: the next one, or the end. *)
PortDone(c, label) ==
  IF nPortIndex[c] = ALL_PORT_INDEX THEN NextPort(c, label, "message")
  ELSE Goto(c, "message") /\ UNCHANGED port

EnableReceived(c, k) ==
  /\ Received(c, k) /\ k.type = "PortEnable"
  /\ StartAt(c, k.param, "enable")
  /\ UNCHANGED <<rmVars, currentState, portState, portVars, codecVars>>

(* Deviation for the mutation runs: the buffers are never waited for. *)
EnablePortAtOnce(c) ==
  /\ pc[c] = "enable"
  /\ bEnabled' = [bEnabled EXCEPT ![c][port[c]] = TRUE]
  /\ PortDone(c, "enable")
  /\ UNCHANGED <<rmVars, currentState, messageQ, portState, bPopulated,
                 assignedBufferNum, loadedResource, unloadedResource, codecVars, nPortIndex>>

(* SEC_OMX_EnablePort waits for the buffers unless there are none yet. *)
EnablePort(c) ==
  /\ pc[c] = "enable"
  /\ bEnabled' = [bEnabled EXCEPT ![c][port[c]] = TRUE]
  /\ IF currentState[c] \in {"Loaded", "WaitForResources"}
     THEN PortDone(c, "enable")
     ELSE Goto(c, "enable_wait") /\ UNCHANGED port
  /\ UNCHANGED <<rmVars, currentState, messageQ, portState, bPopulated,
                 assignedBufferNum, loadedResource, unloadedResource, codecVars, nPortIndex>>

EnableWait(c) ==
  /\ pc[c] = "enable_wait"
  /\ WaitFor(loadedResource, c)
  /\ loadedResource' = [loadedResource EXCEPT ![c][port[c]] = @ - 1]
  /\ bPopulated' = [bPopulated EXCEPT ![c][port[c]] = TRUE]
  /\ PortDone(c, "enable")
  /\ UNCHANGED <<rmVars, currentState, messageQ, portState, bEnabled,
                 assignedBufferNum, unloadedResource, codecVars, nPortIndex>>

(* The ports are flushed first.  When bufferSemID is NULL, SEC_OMX_FlushPort
   loops on a count that nobody has written: it leaves the loop if it finds 0
   there, and stays in it otherwise.  When there is a process thread the flush may
   never end: it locks bufferMutex, which the thread keeps while it is parked on
   pauseEvent in Pause, and nobody signals that event here as for a flush of the
   client's (175); and it waits for tokens that the thread may take first (60). *)
DisableReceived(c, k) ==
  /\ Received(c, k) /\ k.type = "PortDisable"
  /\ \/ StartAt(c, k.param, "disable")
     \/ ~hBufferProcess[c] /\ StartAt(c, k.param, "spin")
     \/ hBufferProcess[c] /\ StartAt(c, k.param, "stuck")
  /\ UNCHANGED <<rmVars, currentState, portState, portVars, codecVars>>

(* SEC_OMX_DisablePort waits for the buffers to be freed unless the component
   is Loaded. *)
DisablePort(c) ==
  LET p == port[c] IN
  /\ pc[c] = "disable"
  /\ IF bEnabled[c][p] /\ currentState[c] # "Loaded"
     THEN /\ bPopulated' = [bPopulated EXCEPT ![c][p] = FALSE]
          /\ Goto(c, "disable_wait") /\ UNCHANGED <<bEnabled, port>>
     ELSE /\ bEnabled' = [bEnabled EXCEPT ![c][p] = FALSE]
          /\ PortDone(c, "disable") /\ UNCHANGED bPopulated
  /\ UNCHANGED <<rmVars, currentState, messageQ, portState, assignedBufferNum,
                 loadedResource, unloadedResource, codecVars, nPortIndex>>

DisableWait(c) ==
  /\ pc[c] = "disable_wait"
  /\ WaitFor(unloadedResource, c)
  /\ unloadedResource' = [unloadedResource EXCEPT ![c][port[c]] = @ - 1]
  /\ bEnabled' = [bEnabled EXCEPT ![c][port[c]] = FALSE]
  /\ PortDone(c, "disable")
  /\ UNCHANGED <<rmVars, currentState, messageQ, portState, bPopulated,
                 assignedBufferNum, loadedResource, codecVars, nPortIndex>>

-----------------------------------------------------------------------------
Client(c) ==
  /\ \/ \E k \in Commands : SendCommand(c, k)
     \/ \E p \in Port : UseBuffer(c, p) \/ AllocateBuffer(c, p) \/ FreeBuffer(c, p)
  /\ UNCHANGED groupPriority

Handler(c) ==
  /\ \/ \E k \in AllCommands : \/ StateSetPlain(c, k) \/ StateSetRefused(c, k)
                               \/ EnableReceived(c, k) \/ DisableReceived(c, k)
     \/ WaitForResources(c) \/ StopWaiting(c)
     \/ GetResource(c) \/ (\E v \in Component : EvictAndGetResource(c, v)) \/ GetResourceRefused(c)
     \/ LoadPort(c) \/ InitDone(c) \/ InitFailed(c)
     \/ ReleaseForLoaded(c) \/ Terminate(c) \/ UnloadPort(c)
     \/ ReleaseForInvalid(c) \/ Invalidate(c)
     \/ EnablePort(c) \/ EnableWait(c) \/ DisablePort(c) \/ DisableWait(c)
  /\ UNCHANGED groupPriority

Next == \E c \in Component : Client(c) \/ Handler(c)

Spec == Init /\ [][Next]_vars

(* Handlers run, and a client supplies and frees the buffers it is asked for. *)
Fairness == \A c \in Component :
  /\ WF_vars(Handler(c))
  /\ \A p \in Port : /\ WF_vars(Supplying(c, p) /\ UseBuffer(c, p) /\ UNCHANGED groupPriority)
                     /\ WF_vars(~HandlerIdle(c) /\ FreeBuffer(c, p) /\ UNCHANGED groupPriority)

FairSpec == Spec /\ Fairness

-----------------------------------------------------------------------------
(* Properties. *)

PerPort(S) == [Component -> [Port -> S]]

TypeOK ==
  /\ groupPriority \in Priorities
  /\ gpVideoRMComponentList \in Seq(Component) /\ gpVideoRMWaitingList \in Seq(Component)
  /\ currentState \in [Component -> State]
  /\ messageQ \in [Component -> Seq(AllCommands)]
  /\ \A c \in Component : Len(messageQ[c]) < MAX_QUEUE_ELEMENTS
  /\ portState \in PerPort({"Loaded", "Idle", "Invalid"})
  /\ bEnabled \in PerPort(BOOLEAN) /\ bPopulated \in PerPort(BOOLEAN)
  /\ assignedBufferNum \in PerPort(0 .. nBufferCountActual)
  /\ loadedResource \in PerPort(Nat) /\ unloadedResource \in PerPort(Nat)
  /\ hBufferProcess \in [Component -> BOOLEAN] /\ hMFCHandle \in [Component -> BOOLEAN]
  /\ pc \in [Component -> {"message", "load", "init", "terminate", "unload", "invalidate",
                           "enable", "enable_wait", "disable", "disable_wait", "spin", "stuck"}]
  /\ port \in [Component -> Port]
  /\ nPortIndex \in [Component -> Port \union {ALL_PORT_INDEX}]

Entries(c) == {i \in DOMAIN gpVideoRMComponentList : gpVideoRMComponentList[i] = c}

(* The component has been granted the resource, or is initialised, and is not on
   its way out. *)
Holding(c) == pc[c] \in {"load", "init"} \/ (hMFCHandle[c] /\ pc[c] \notin {"terminate", "invalidate"})

(* The resource manager's list never has more entries than the limit, also when
   a component of lower priority has to give way, and whatever fails. *)
ListBounded == Len(gpVideoRMComponentList) <= MAX_RESOURCE_VIDEO

(* Among components of equal priority, and as long as no initialisation fails, a
   component has one entry from the moment it is granted the resource until it
   gives it back, and none otherwise: no entry is leaked and none is missing,
   whichever way the component leaves. *)
HolderListedOnce ==
  ~InitFails /\ (\A c, d \in Component : groupPriority[c] = groupPriority[d])
  => \A c \in Component : Cardinality(Entries(c)) = IF Holding(c) THEN 1 ELSE 0

(* OMX_Core.h of OMX_StateIdle: "component initialization has been completed
   successfully": codec and process thread exist as long as the component is in
   Idle, Executing or Pause and is not being taken down. *)
IdleInitialised == \A c \in Component :
  /\ currentState[c] \in {"Idle", "Executing", "Pause"}
  /\ pc[c] \notin {"unload"}
  => hMFCHandle[c] /\ hBufferProcess[c]

(* OMX_Core.h of OMX_STATETYPE: a component that cannot become Idle "shall be
   fully rolled back to the Loaded state (e.g. all allocated resources shall be
   released)": an idle handler in Loaded leaves no entry in the resource
   manager's list, no open codec and no process thread. *)
LoadedHoldsNothing == \A c \in Component :
  currentState[c] = "Loaded" /\ pc[c] = "message"
  => Entries(c) = {} /\ ~hMFCHandle[c] /\ ~hBufferProcess[c]

(* OMX_Component.h of bPopulated: "Port is populated with all of its buffers as
   indicated by nBufferCountActual. A disabled port is always unpopulated. An
   enabled port is populated on a transition to OMX_StateIdle and unpopulated on
   a transition to loaded."  That is so whenever no command is in progress. *)
PopulatedMeansAll == \A c \in Component, p \in Port :
  HandlerIdle(c) =>
    /\ bPopulated[c][p] <=>
         bEnabled[c][p] /\ currentState[c] \in {"Idle", "Executing", "Pause"}
    /\ bPopulated[c][p] => assignedBufferNum[c][p] = nBufferCountActual
    /\ ~bPopulated[c][p] => assignedBufferNum[c][p] = 0

(* What the handler will take from a semaphore is still true when it takes it:
   a token of loadedResource means that the port has all its buffers, one of
   unloadedResource that it has none. *)
TokensFresh == \A c \in Component, p \in Port :
  /\ loadedResource[c][p] > 0 => assignedBufferNum[c][p] = nBufferCountActual
  /\ unloadedResource[c][p] > 0 => assignedBufferNum[c][p] = 0

(* A component that waits for resources is either in the waiting list, once, or
   has been sent the command that makes it Idle: nobody is forgotten. *)
NoWaiterForgotten == \A c \in Component :
  /\ Cardinality({i \in DOMAIN gpVideoRMWaitingList : gpVideoRMWaitingList[i] = c}) <= 1
  /\ currentState[c] = "WaitForResources"
     => c \in ToSet(gpVideoRMWaitingList) \/ StateSet("Idle") \in ToSet(messageQ[c])

(* A component loses its entry to another's step only if the other has just got
   one, has a higher priority, and nobody with an entry has a lower priority
   than the loser. *)
PreemptedByPriority ==
  [][\A c \in Component :
       Entries(c) # {} /\ Cardinality(Entries(c)') < Cardinality(Entries(c)) /\ pc'[c] = pc[c]
       => \E d \in Component \ {c} :
            /\ Cardinality(Entries(d)') > Cardinality(Entries(d))
            /\ groupPriority[d] < groupPriority[c]
            /\ \A e \in ToSet(gpVideoRMComponentList) : groupPriority[e] <= groupPriority[c]]_vars

(* OMX_Core.h of OMX_SendCommand: "The component thread shall send the
   EventHandler() callback at the conclusion of the command": the handler gets
   through every command it is sent and is ready for the next, but for a port that
   is disabled and whose flush hangs: before the process thread exists in a loop
   ("spin"), and after that on a mutex or a token of that thread's ("stuck"). *)
CommandsConcludeOrHang == \A c \in Component :
  ~HandlerIdle(c) ~> HandlerIdle(c) \/ pc[c] \in {"spin", "stuck"}
=============================================================================
