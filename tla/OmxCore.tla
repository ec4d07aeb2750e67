------------------------------- MODULE OmxCore -------------------------------
(***************************************************************************)
(* The OMX core and what it makes: SEC_OMX_Core.c with its load count, the *)
(* register of the components' names and the list of loaded components;    *)
(* the construction and destruction of a component layer by layer (base    *)
(* component, ports, video, codec); what it adds when it goes Idle and     *)
(* releases on its way back; the client's buffers.  The core is called     *)
(* through the Stagefright plugin.  A component is represented by what it  *)
(* owns, be it memory, a semaphore, a thread or an open library.           *)
(*                                                                         *)
(* Any call may be interrupted by other threads' calls, each on its own    *)
(* component.  The client keeps to the standard: it awaits each command,   *)
(* frees its buffers before the handle and its handles before the plugin.  *)
(* A fault is a failing call whose result the code looks at.               *)
(*                                                                         *)
(* SEC_OMX_Init, SEC_OMX_Deinit and the search and unlinking of FreeHandle *)
(* are one step each, as their threads hold the mutex of the list there.   *)
(* A refused FreeHandle may release it in the middle of them, and then the *)
(* load count may lose an update or the list a component in more ways than *)
(* are modelled: nothing is claimed of either after a stolen mutex.        *)
(***************************************************************************)
EXTENDS Integers, FiniteSets, SequencesExt

CONSTANTS Comp,        \* the components a run makes at most, once each
          Plugin,      \* the SECOMXPlugin objects
          Wanted,      \* per component, the names a client may ask for
          Nobody,
          MaxCoreFaults    \* bound: calls that fail in a run

ASSUME OmxCoreAssumption ==
  Nobody \notin Comp /\ IsFiniteSet(Comp) /\ IsFiniteSet(Plugin) /\ MaxCoreFaults \in Nat

Port == {"input", "output"}

VARIABLES gInitialized, gComponentList, gLoadComponentList,
          ghLoadComponentListMutex,   \* the component whose thread holds it
          plugin,      \* per plugin: what became of the core's library, the names told
          comp,        \* per component, see Unused
          crashed,     \* the call that followed a null pointer
          coreFaults,
          refused,     \* the components whose FreeHandle has been refused and not returned
          stolen       \* history: a refused FreeHandle released another thread's mutex

listVars == <<gInitialized, gComponentList, gLoadComponentList, ghLoadComponentListMutex, refused,
              stolen>>
coreVars == <<listVars, plugin, comp, crashed, coreFaults>>

-----------------------------------------------------------------------------
(* What each library of secomxregistry registers. *)
H264dec  == {"AVC.Decoder"}
Mpeg4dec == {"MPEG4.Decoder", "H263.Decoder"}
H264enc  == {"AVC.Encoder"}
Mpeg4enc == {"MPEG4.Encoder", "H263.Encoder"}
Libraries == {H264dec, Mpeg4dec, H264enc, Mpeg4enc}
Decoders == H264dec \union Mpeg4dec

(* What a component owns, in the order in which its constructors make it. *)
One(x) == <<x, "component">>
InOrder(s) == {s[i] : i \in DOMAIN s}
Before(r, s) == {s[i] : i \in {i \in DOMAIN s : \E j \in DOMAIN s : s[j] = r /\ i < j}}

Library == <<One("libHandle"), One("pOMXComponent")>>
Base == <<One("pSECComponent"), One("msgSemaphoreHandle"), One("compMutex"),
          One("messageQ"), One("hMessageHandler")>>
OfPort(p) == <<<<"bufferQ", p>>, <<"bufferHeader", p>>, <<"bufferStateAllocate", p>>,
               <<"loadedResource", p>>, <<"unloadedResource", p>>>>
Ports == <<One("pSECPort")>> \o OfPort("input") \o OfPort("output")
Video == <<<<"cMIMEType", "input">>, <<"cMIMEType", "output">>>>
Codec == <<One("componentName"), One("hCodecHandle")>>
Constructed == InOrder(Library) \union InOrder(Base) \union InOrder(Ports)
                 \union InOrder(Video) \union InOrder(Codec)

(* What it makes besides when it goes Idle: the driver, the codec's thread, and
   the buffer process thread. *)
Driver == {One("pCTX"), One("hMFC")}
Coding == {One("hFrameStart"), One("hFrameEnd"), One("hNBThread")}
Process == {One("pauseEvent"), One("hBufferProcess")}
             \union {"bufferSemID", "bufferMutex"} \X Port

(* A thread's handle is lost when pthread_create fails, a semaphore or a mutex
   when its initialisation does and not the allocation before it. *)
SemaphoreCreateLoses(r) == {{}, {r}}
MutexCreateLoses(r) == {{}, {r}}
ThreadCreateLoses(r) == {{r}}
Losses(r) ==
  CASE r[1] \in {"msgSemaphoreHandle", "loadedResource", "unloadedResource"} ->
         SemaphoreCreateLoses(r)
    [] r[1] = "compMutex" -> MutexCreateLoses(r)
    [] r[1] \in {"hMessageHandler", "hBufferProcess"} -> ThreadCreateLoses(r)
    [] OTHER -> {{}}

(* Nobody looks at the result of QueueCreate, of the allocation of the handle in
   ComponentLoad, or of that of the MIME types. *)
Unchecked == {One("messageQ"), One("pOMXComponent")} \union {"bufferQ", "cMIMEType"} \X Port
MayFail == Constructed \ Unchecked

Unused == [phase |-> "unused", plugin |-> Nobody, name |-> "none", owned |-> {}, cur |-> Nobody,
           handler |-> "none", currentState |-> "none", messageQ |-> <<>>,
           slots |-> [p \in Port |-> "FREE"], failed |-> FALSE]

CoreInit ==
  /\ gInitialized = 0 /\ gComponentList = {} /\ gLoadComponentList = <<>>
  /\ ghLoadComponentListMutex = Nobody
  /\ plugin = [p \in Plugin |-> [lib |-> "none", names |-> {}]]
  /\ comp = [h \in Comp |-> Unused]
  /\ crashed = "no" /\ refused = {} /\ stolen = FALSE
  /\ coreFaults = 0

CoreFault == coreFaults < MaxCoreFaults /\ coreFaults' = coreFaults + 1
Become(h, r) == comp' = [comp EXCEPT ![h] = r]
InPhase(h, phase) == comp[h].phase = phase /\ h \notin refused /\ crashed = "no"

-----------------------------------------------------------------------------
(* The plugin.  OMXMaster reads the names as soon as it has made one. *)

(* An empty list stands for the null pointer too: the register is never empty. *)
SEC_OMX_Component_Register ==
  \/ gComponentList' = UNION Libraries /\ gInitialized' = 1 /\ UNCHANGED coreFaults
  \/ /\ CoreFault
     /\ \/ UNCHANGED <<gInitialized, gComponentList>>      \* no registry file
        \/ \E l \in Libraries :                             \* a library is skipped
             gComponentList' = UNION (Libraries \ {l}) /\ gInitialized' = 1

SEC_OMX_Init ==
  /\ ghLoadComponentListMutex = Nobody
  /\ \/ gInitialized = 0 /\ SEC_OMX_Component_Register
     \/ gInitialized > 0 /\ gInitialized' = gInitialized + 1
        /\ UNCHANGED <<gComponentList, coreFaults>>
  /\ UNCHANGED <<gLoadComponentList, ghLoadComponentListMutex, refused, stolen>>

SEC_OMX_ComponentNameEnum == gComponentList'

CreatePlugin(p) ==
  /\ plugin[p].lib = "none" /\ crashed = "no"
  /\ \/ /\ SEC_OMX_Init
        /\ plugin' = [plugin EXCEPT ![p] = [lib |-> "open", names |-> SEC_OMX_ComponentNameEnum]]
     \/ /\ CoreFault                                            \* dlopen of the core
        /\ plugin' = [plugin EXCEPT ![p].lib = "empty"] /\ UNCHANGED listVars
  /\ UNCHANGED <<comp, crashed>>

Alive == {h \in Comp : comp[h].phase \notin {"unused", "gone", "failed"}}
OpenPlugins == {p \in Plugin : plugin[p].lib = "open"}

SEC_OMX_Component_Unregister ==
  IF gComponentList = {} THEN crashed' = "Unregister" /\ UNCHANGED gComponentList
                         ELSE gComponentList' = {} /\ UNCHANGED crashed

SEC_OMX_Deinit ==
  /\ ghLoadComponentListMutex = Nobody
  /\ gInitialized' = IF gInitialized > 0 THEN gInitialized - 1 ELSE 0
  /\ IF gInitialized' # 0 THEN UNCHANGED <<gComponentList, crashed>>
                          ELSE SEC_OMX_Component_Unregister
  /\ UNCHANGED <<gLoadComponentList, ghLoadComponentListMutex, refused, stolen>>

DestroyPlugin(p) ==
  /\ plugin[p].lib \in {"open", "empty"} /\ crashed = "no"
  /\ plugin' = [plugin EXCEPT ![p] = [lib |-> "gone", names |-> {}]]
  /\ IF plugin[p].lib = "empty" THEN UNCHANGED <<listVars, crashed>>
     ELSE (\A h \in Alive : comp[h].plugin # p) /\ SEC_OMX_Deinit
  /\ UNCHANGED <<comp, coreFaults>>

-----------------------------------------------------------------------------
(* SEC_OMX_GetHandle.  Nobody knows of the component before it is linked, so
   that its construction is one step. *)

(* The plugin passes each call on when it has found the core. *)
Forwards(p) == plugin[p].lib = "open"

(* What is left when r could not be made, besides what r itself loses: the base
   component's constructor and its callers release nothing; the port's releases
   all but the queues and has the base component destroyed; the codec's has the
   layers below it destroyed, but not the name. *)
BaseConstructorLeaves(r) == Before(r, Base)
PortConstructorLeaves(r) == {x \in Before(r, Ports) : x[1] = "bufferQ"}
ComponentInitLeaves(r)   == Before(r, Codec)
LeftWithout(r) == BaseConstructorLeaves(r) \union PortConstructorLeaves(r)
                    \union ComponentInitLeaves(r)

SEC_OMX_ComponentLoad(h, p, n) ==
  \/ /\ Become(h, [Unused EXCEPT !.phase = "built", !.plugin = p, !.name = n,
                              !.owned = Constructed, !.handler = "message", !.currentState = "Loaded"])
     /\ UNCHANGED coreFaults
  \/ /\ CoreFault
     /\ \E r \in MayFail : \E lost \in Losses(r) :
          Become(h, [Unused EXCEPT !.phase = "failed", !.owned = LeftWithout(r) \union lost])

SEC_OMX_GetHandle(h, p, n) ==
  /\ InPhase(h, "unused") /\ Forwards(p) /\ n \in plugin[p].names
  /\ gInitialized = 1 /\ n \in gComponentList
  /\ SEC_OMX_ComponentLoad(h, p, n)
  /\ UNCHANGED <<listVars, plugin, crashed>>

(* A new component refuses no callbacks. *)
SEC_OMX_SetCallbacks(h) == comp[h].currentState = "Loaded"

(* Deviation for the mutation runs: nobody waits for the mutex of the list. *)
WalkUnlocked(h) ==
  /\ InPhase(h, "built") /\ SEC_OMX_SetCallbacks(h)
  /\ ghLoadComponentListMutex' = h
  /\ Become(h, [comp[h] EXCEPT !.phase = "linking",
               !.cur = IF gLoadComponentList = <<>> THEN Nobody
                       ELSE gLoadComponentList[Len(gLoadComponentList)]])
  /\ UNCHANGED <<gInitialized, gComponentList, gLoadComponentList, plugin, crashed, coreFaults, refused, stolen>>

Walk(h) ==
  /\ InPhase(h, "built") /\ SEC_OMX_SetCallbacks(h) /\ ghLoadComponentListMutex = Nobody
  /\ ghLoadComponentListMutex' = h
  /\ Become(h, [comp[h] EXCEPT !.phase = "linking",
               !.cur = IF gLoadComponentList = <<>> THEN Nobody
                       ELSE gLoadComponentList[Len(gLoadComponentList)]])
  /\ UNCHANGED <<gInitialized, gComponentList, gLoadComponentList, plugin, crashed, coreFaults, refused, stolen>>

(* The new component becomes the successor of cur, whatever cur had before; behind
   a component that has been unlinked in the meantime it is not in the list. *)
Upto(cur) == {i \in DOMAIN gLoadComponentList :
                \E j \in DOMAIN gLoadComponentList : gLoadComponentList[j] = cur /\ i <= j}
LinkAfter(cur, h) ==
  IF cur = Nobody THEN <<h>>
  ELSE IF Upto(cur) = {} THEN gLoadComponentList
  ELSE [i \in 1 .. Cardinality(Upto(cur)) + 1 |->
          IF i \in Upto(cur) THEN gLoadComponentList[i] ELSE h]

Link(h) ==
  /\ InPhase(h, "linking")
  /\ gLoadComponentList' = LinkAfter(comp[h].cur, h)
  /\ ghLoadComponentListMutex' = Nobody
  /\ Become(h, [comp[h] EXCEPT !.phase = "held", !.cur = Nobody])
  /\ UNCHANGED <<gInitialized, gComponentList, plugin, crashed, coreFaults, refused, stolen>>

-----------------------------------------------------------------------------
(* SEC_OMX_FreeHandle, with the list locked to the end.  Refused, it goes to that
   end and releases a mutex it has not taken, whoever holds it. *)

Freed(h) == \A p \in Port : comp[h].slots[p] = "FREE"
Unlinked(h) == RemoveAt(gLoadComponentList,
                 CHOOSE i \in DOMAIN gLoadComponentList : gLoadComponentList[i] = h)

FreeingHandle(h) ==
  /\ InPhase(h, "held") /\ Forwards(comp[h].plugin)
  /\ comp[h].currentState = "Loaded" /\ Freed(h)
  /\ comp[h].messageQ = <<>> \/ comp[h].failed

FreeHandleRefused(h) ==
  /\ FreeingHandle(h) /\ gInitialized # 1
  /\ refused' = refused \union {h}
  /\ UNCHANGED <<gInitialized, gComponentList, gLoadComponentList, ghLoadComponentListMutex,
                 plugin, comp, crashed, coreFaults, stolen>>

RefusedUnlocks(h) ==
  /\ h \in refused /\ crashed = "no"
  /\ refused' = refused \ {h}
  /\ ghLoadComponentListMutex' = Nobody
  /\ stolen' = (stolen \/ ghLoadComponentListMutex # Nobody)
  /\ UNCHANGED <<gInitialized, gComponentList, gLoadComponentList, plugin, comp, crashed, coreFaults>>

SEC_OMX_FreeHandle(h) ==
  /\ FreeingHandle(h) /\ gInitialized = 1 /\ ghLoadComponentListMutex = Nobody
  /\ IF h \in InOrder(gLoadComponentList)
     THEN /\ gLoadComponentList' = Unlinked(h) /\ ghLoadComponentListMutex' = h
          /\ Become(h, [comp[h] EXCEPT !.phase = "leaving"]) /\ UNCHANGED crashed
     ELSE /\ crashed' = "FreeHandle"
          /\ UNCHANGED <<gLoadComponentList, ghLoadComponentListMutex, comp>>
  /\ UNCHANGED <<gInitialized, gComponentList, plugin, coreFaults, refused, stolen>>

(* What the codec's, the video layer's and the ports' destructors release. *)
CodecDeinit == InOrder(Codec)
VideoComponentDeinit == InOrder(Video)
SEC_OMX_Port_Destructor == InOrder(Ports)

SEC_OMX_ComponentDeInit(h) ==
  /\ InPhase(h, "leaving")
  /\ Become(h, [comp[h] EXCEPT !.phase = "joining",
               !.owned = @ \ (CodecDeinit \union VideoComponentDeinit
                                \union SEC_OMX_Port_Destructor),
               !.messageQ = Append(@, "DeInit")])
  /\ UNCHANGED <<listVars, plugin, crashed, coreFaults>>

(* The base component's destructor waits for the handler thread. *)
SEC_OSAL_ThreadTerminate(h) == comp[h].handler = "exited"

BaseComponent_Destructor(h) ==
  /\ InPhase(h, "joining") /\ SEC_OSAL_ThreadTerminate(h)
  /\ comp' = [comp EXCEPT ![h].phase = "unloading", ![h].handler = "none",
                          ![h].owned = @ \ InOrder(Base)]
  /\ UNCHANGED <<listVars, plugin, crashed, coreFaults>>

SEC_OMX_ComponentUnload(h) ==
  /\ InPhase(h, "unloading")
  /\ ghLoadComponentListMutex' = Nobody
  /\ Become(h, [Unused EXCEPT !.phase = "gone", !.owned = comp[h].owned \ InOrder(Library)])
  /\ UNCHANGED <<gInitialized, gComponentList, gLoadComponentList, plugin, crashed, coreFaults, refused, stolen>>

-----------------------------------------------------------------------------
(* The client's commands and buffers, one buffer a port. *)

SEC_OMX_SendCommand(h, s) ==
  /\ InPhase(h, "held") /\ comp[h].messageQ = <<>> /\ ~comp[h].failed
  /\ comp[h].currentState # s
  /\ Become(h, [comp[h] EXCEPT !.messageQ = <<s>>])
  /\ UNCHANGED <<listVars, plugin, crashed, coreFaults>>

ToIdle(h) == comp[h].messageQ = <<"Idle">> /\ ~comp[h].failed
Give(h, p, slot, parts) ==
  Become(h, [comp[h] EXCEPT !.slots[p] = slot, !.owned = @ \union parts])

(* Without memory nothing is kept, and the client gives up. *)
GiveUp(h) == Become(h, [comp[h] EXCEPT !.failed = TRUE])

SEC_OMX_UseBuffer(h, p) ==
  /\ InPhase(h, "held") /\ ToIdle(h) /\ comp[h].slots[p] = "FREE"
  /\ \/ Give(h, p, "ASSIGNED", {<<"header", p>>}) /\ UNCHANGED coreFaults
     \/ CoreFault /\ GiveUp(h)
  /\ UNCHANGED <<listVars, plugin, crashed>>

SEC_OMX_AllocateBuffer(h, p) ==
  /\ InPhase(h, "held") /\ ToIdle(h) /\ comp[h].slots[p] = "FREE"
  /\ \/ Give(h, p, "ALLOCATED", {<<"header", p>>, <<"buffer", p>>}) /\ UNCHANGED coreFaults
     \/ CoreFault /\ GiveUp(h)
  /\ UNCHANGED <<listVars, plugin, crashed>>

SEC_OMX_FreeBuffer(h, p) ==
  /\ InPhase(h, "held") /\ comp[h].slots[p] # "FREE"
  /\ comp[h].messageQ = <<"Loaded">> \/ comp[h].failed
  /\ Become(h, [comp[h] EXCEPT !.slots[p] = "FREE",
               !.owned = @ \ ({<<"header", p>>} \union
                 IF comp[h].slots[p] = "ALLOCATED" THEN {<<"buffer", p>>} ELSE {})])
  /\ UNCHANGED <<listVars, plugin, crashed, coreFaults>>

-----------------------------------------------------------------------------
(* The message handler thread. *)

Takes(h, message) ==
  /\ comp[h].handler = "message" /\ crashed = "no"
  /\ comp[h].messageQ # <<>> /\ Head(comp[h].messageQ) = message

(* What a component is left with when its codec cannot start: the decoder's library
   forgets its context when the device does not open, the encoder's does not, and
   neither codec closes the driver when it gets no stream buffer. *)
SsbSipMfcDecOpenLeaves == {{}, {One("pCTX")}}
SsbSipMfcEncOpenLeaves == {{}}
SsbSipMfcDecGetInBufLeaves == {Driver}
Mpeg4Dec_InitLeaves == SsbSipMfcDecOpenLeaves \union SsbSipMfcDecGetInBufLeaves
Mpeg4Enc_InitLeaves == SsbSipMfcEncOpenLeaves \union {Driver}
CodecInitLeaves(n) == IF n \in Decoders THEN Mpeg4Dec_InitLeaves ELSE Mpeg4Enc_InitLeaves

(* The thread is made last; without it its semaphores, mutexes and event go, but
   the codec stays as it is. *)
ProcessLeaves == {Driver \union Coding \union lost : lost \in Losses(One("hBufferProcess"))}

(* It waits for the buffers of both ports first. *)
StateSetIdle(h) ==
  /\ Takes(h, "Idle") /\ \A p \in Port : comp[h].slots[p] # "FREE"
  /\ \/ /\ Become(h, [comp[h] EXCEPT !.messageQ = Tail(@), !.currentState = "Idle",
                                  !.owned = @ \union Driver \union Coding \union Process])
        /\ UNCHANGED coreFaults
     \/ /\ CoreFault
        /\ \E left \in CodecInitLeaves(comp[h].name) \union ProcessLeaves :
             Become(h, [comp[h] EXCEPT !.messageQ = Tail(@), !.failed = TRUE,
                                    !.owned = @ \union left])
  /\ UNCHANGED <<listVars, plugin, crashed>>

(* What the end of a codec releases. *)
SsbSipMfcDecClose == Driver
SsbSipMfcEncClose == Driver
Mpeg4Dec_Terminate == Coding \union SsbSipMfcDecClose
Mpeg4Enc_Terminate == Coding \union SsbSipMfcEncClose
CodecTerminate(n) == IF n \in Decoders THEN Mpeg4Dec_Terminate ELSE Mpeg4Enc_Terminate

StateSetLoaded(h) ==
  /\ Takes(h, "Loaded")
  /\ comp' = [comp EXCEPT ![h].handler = "unload",
                          ![h].owned = @ \ (Process \union CodecTerminate(comp[h].name))]
  /\ UNCHANGED <<listVars, plugin, crashed, coreFaults>>

Unload(h) ==
  /\ comp[h].handler = "unload" /\ crashed = "no" /\ Freed(h)
  /\ comp' = [comp EXCEPT ![h].handler = "message", ![h].currentState = "Loaded",
                          ![h].messageQ = Tail(@)]
  /\ UNCHANGED <<listVars, plugin, crashed, coreFaults>>

HandlerExit(h) ==
  /\ Takes(h, "DeInit")
  /\ comp' = [comp EXCEPT ![h].handler = "exited", ![h].messageQ = Tail(@)]
  /\ UNCHANGED <<listVars, plugin, crashed, coreFaults>>

-----------------------------------------------------------------------------
Caller(h) ==
  \/ \E p \in Plugin, n \in Wanted[h] : SEC_OMX_GetHandle(h, p, n)
  \/ Walk(h) \/ Link(h)
  \/ \E s \in {"Idle", "Loaded"} : SEC_OMX_SendCommand(h, s)
  \/ \E p \in Port : \/ SEC_OMX_UseBuffer(h, p) \/ SEC_OMX_AllocateBuffer(h, p)
                     \/ SEC_OMX_FreeBuffer(h, p)
  \/ SEC_OMX_FreeHandle(h) \/ FreeHandleRefused(h) \/ RefusedUnlocks(h)
  \/ SEC_OMX_ComponentDeInit(h)
  \/ BaseComponent_Destructor(h) \/ SEC_OMX_ComponentUnload(h)

Handler(h) == StateSetIdle(h) \/ StateSetLoaded(h) \/ Unload(h) \/ HandlerExit(h)

CoreNext == \/ \E p \in Plugin : CreatePlugin(p) \/ DestroyPlugin(p)
        \/ \E h \in Comp : Caller(h) \/ Handler(h)

CoreSpec == CoreInit /\ [][CoreNext]_coreVars

-----------------------------------------------------------------------------
(* What can be lost for good: what a constructor or a failed start leaves. *)
Overlooked == InOrder(Base) \union InOrder(Codec) \union Driver \union Coding
  \union {One("hBufferProcess")}
  \union {"bufferQ", "loadedResource", "unloadedResource"} \X Port

(* What a component in the client's hands owns: what was constructed, what it runs
   with, and the client's buffers. *)
RunsWith(h) == IF comp[h].currentState = "Idle" /\ comp[h].handler = "message"
              THEN Driver \union Coding \union Process ELSE {}
BuffersOf(h) == {<<"header", p>> : p \in {p \in Port : comp[h].slots[p] # "FREE"}}
  \union {<<"buffer", p>> : p \in {p \in Port : comp[h].slots[p] = "ALLOCATED"}}

(* Every component is accounted for (SEC_OMX_Core.c and the constructors and
   destructors below it).  As long as no refused FreeHandle has released the mutex of
   the list while another thread held it, the list holds each component in the hands
   of a client once, and no other, and FreeHandle finds what it is asked to free; and
   without a failing call the core stays initialised while a component lives, and
   Unregister finds a register.  After such a release nothing is said of these.
   A component in use has everything its constructors and its last command make and
   nothing else.  One that is gone has left nothing behind unless a call failed, and
   then only what a constructor or a failed start overlooks. *)
ComponentsAccounted ==
  /\ crashed = "no" /\ ~stolen =>
       /\ InOrder(gLoadComponentList) = {h \in Comp : comp[h].phase = "held"}
       /\ Len(gLoadComponentList) = Cardinality(InOrder(gLoadComponentList))
       /\ \A h \in Comp : comp[h].phase = "held" /\ coreFaults = 0 => gInitialized > 0
  /\ \A h \in Comp :
       /\ comp[h].phase = "held" /\ ~comp[h].failed =>
            comp[h].owned = Constructed \union RunsWith(h) \union BuffersOf(h)
       /\ comp[h].phase \in {"unused", "gone", "failed"} =>
            comp[h].owned \subseteq IF coreFaults = 0 THEN {} ELSE Overlooked
  /\ crashed = "FreeHandle" => stolen
  /\ crashed = "Unregister" => coreFaults > 0 \/ stolen

(* Where a run may end: in a null pointer; with everything given back; or in a
   FreeHandle that waits for a handler which waits for a buffer that could not be had. *)
CoreEnded ==
  \/ crashed # "no"
  \/ Alive = {} /\ (\A p \in Plugin : plugin[p].lib = "gone")
  \/ \E h \in Comp : comp[h].phase = "joining" /\ Takes(h, "Idle") /\ comp[h].failed
=============================================================================
