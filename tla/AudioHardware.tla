--------------------------- MODULE AudioHardware ---------------------------
(***************************************************************************)
(* The threads of the audio HAL, AudioHardware.cpp: the playback thread     *)
(* writes to the output stream, the capture thread reads from the input     *)
(* stream, the servers are the threads of the audio service and policy that *)
(* change the mode, mute, open and close the streams and add effects.       *)
(*                                                                         *)
(* Three mutexes: the output stream's, the input stream's, the hardware's.  *)
(* An action runs from the acquisition of one mutex, or from a point where  *)
(* the hardware's is held, to the next; what is done in between is an       *)
(* operator of AudioDevices.  A thread that drops the last reference to a   *)
(* stream runs its destructor, standby(), with the mutexes it then holds.   *)
(* One output and one input object exist at a time.  mSleepReq only makes   *)
(* write() and read() wait a little and is left out, like the radio's call  *)
(* volume and paths and the FM radio, which this build leaves out.          *)
(***************************************************************************)
EXTENDS AudioDevices

CONSTANTS Player, Recorder,  \* the playback and the capture thread
          NoThread,          \* a mutex nobody holds
          Environments       \* what is called and what the kernel may refuse

AllCalls == {"write", "read", "standby", "setParameters", "setMode", "setMicMute",
             "openStream", "closeStream", "audioEffect"}
Refusals == {"pcm_out", "pcm_in", "mixer", "echo", "pcm_write", "pcm_read"}

ASSUME AudioAssumption ==
  /\ {Player, Recorder} \subseteq Threads /\ Player # Recorder
  /\ NoThread \notin Threads
  /\ Environments \subseteq [calls: SUBSET AllCalls, refused: SUBSET Refusals]

Servers == Threads \ {Player, Recorder}
Mutexes == {"out", "in", "hw"}

VARIABLES
  env,            \* the environment of this behaviour
  audio,          \* the record of AudioDevices
  owner,          \* who holds each mutex
  pc,             \* per thread
  after,          \* where the input's doStandby_l returns to
  spOut, spIn     \* the threads with a strong reference to the stream

vars == <<env, audio, owner, pc, after, spOut, spIn>>

(* Outcomes of a call of the kernel. *)
Outcome(what) == IF what \in env.refused THEN BOOLEAN ELSE {TRUE}

Init ==
  /\ env \in Environments
  /\ audio = AudioHardwareInit
  /\ owner = [x \in Mutexes |-> NoThread]
  /\ pc = [t \in Threads |-> "idle"]
  /\ after = [t \in Threads |-> "idle"]
  /\ spOut = {} /\ spIn = {}

-----------------------------------------------------------------------------
(* Mutexes are not recursive: their owner waits for them like anybody. *)
Take(t, x) == owner[x] = NoThread /\ owner' = [owner EXCEPT ![x] = t]
Handover(t, x, S) ==   \* take x and release the mutexes in S
  /\ owner[x] = NoThread
  /\ owner' = [y \in Mutexes |-> IF y \in S THEN NoThread
                                 ELSE IF y = x THEN t ELSE owner[y]]
Release(S) == owner' = [y \in Mutexes |-> IF y \in S THEN NoThread ELSE owner[y]]
Held(t) == {x \in Mutexes : owner[x] = t}

At(t, label) == pc[t] = label
Goto(t, label) == pc' = [pc EXCEPT ![t] = label] /\ UNCHANGED env
Begin(t, c, label) == c \in env.calls /\ At(t, "idle") /\ Goto(t, label)

(* Nobody but t, and no list of the hardware, keeps the stream alive. *)
LastOut(t) == ~audio.outListed /\ spOut \subseteq {t}
LastIn(t) == ~audio.inListed /\ spIn \subseteq {t}

(* The input's doStandby_l, called with the input's and the hardware's mutex
   held, returns to label r. *)
CallDoStandby(t, r) == Goto(t, "ds") /\ after' = [after EXCEPT ![t] = r]
DoStandbyReturn(t) == Goto(t, after[t]) /\ after' = [after EXCEPT ![t] = "idle"]

sps == <<spOut, spIn>>

(* The remembered counts are locals of a loop, compared once. *)
Forget(t) == [audio EXCEPT !.outSeen = @ \ {t}, !.inSeen = @ \ {t}]

(* Where a thread waits for which mutex. *)
WaitsForOut == {"w_out", "so_out", "po_out", "ds_out", "r_out", "m_out"}
WaitsForIn == {"w_in", "ds_in", "si_in", "pi_in", "r_in", "r_in2", "m_in"}
WaitsForHw == {"w_hw", "w_inhw", "so_hw", "po_hw", "ds_hw", "si_hw", "pi_hw", "pi_route",
               "r_hw", "r_hw2", "m_hw", "m_hw2", "m_hw3"}
Labels == WaitsForOut \cup WaitsForIn \cup WaitsForHw \cup
  {"idle", "drop", "w_look", "w_open", "w_reopen", "w_opened", "w_pcm", "ds", "si_done",
   "pi_done", "r_look", "r_open", "r_pcm", "m_look", "m_lookin", "m_body", "m_enter",
   "m_leave", "m_end"}

-----------------------------------------------------------------------------
(* AudioStreamOutALSA::write. *)
WriteBegin(t) ==
  /\ t = Player /\ audio.outListed
  /\ Begin(t, "write", "w_out")
  /\ UNCHANGED <<audio, owner, after, sps>>

WriteLock(t) ==
  /\ At(t, "w_out") /\ Take(t, "out")
  /\ Goto(t, IF audio.outStandby THEN "w_hw" ELSE "w_pcm")
  /\ UNCHANGED <<audio, after, sps>>

(* The look for an active input, with the hardware's mutex held: remember
   its mStandbyCnt and go for its mutex without the hardware's. *)
LookForInput(t, wait, ready) ==
  IF getActiveInput_l(audio)
  THEN /\ audio' = [audio EXCEPT !.inSeen = @ \cup {t}]
       /\ spIn' = spIn \cup {t}
       /\ Release({"hw"}) /\ Goto(t, wait)
  ELSE /\ spIn' = spIn \ {t}
       /\ Goto(t, IF t \in spIn /\ LastIn(t) THEN "si_in" ELSE ready)
       /\ UNCHANGED <<audio, owner>>

WriteLockHw(t) ==
  /\ At(t, "w_hw") /\ Take(t, "hw") /\ Goto(t, "w_look")
  /\ UNCHANGED <<audio, after, sps>>

WriteLook(t) ==
  /\ At(t, "w_look") /\ LookForInput(t, "w_in", "w_open")
  /\ UNCHANGED <<after, spOut>>

LockInput(t, here, next) ==
  /\ At(t, here) /\ Take(t, "in") /\ Goto(t, next)
  /\ UNCHANGED <<audio, after, sps>>

(* Still active and not put in standby since: close it, to open the output
   before it. *)
WriteRecheck(t) ==
  /\ At(t, "w_inhw")
  /\ IF getActiveInput_l(audio) /\ t \in audio.inSeen
     THEN /\ Take(t, "hw")
          /\ audio' = InClose_l(Forget(t))
          /\ Goto(t, "w_open")
     ELSE /\ Handover(t, "hw", {"in"})
          /\ Goto(t, "w_look")
          /\ audio' = Forget(t)
  /\ UNCHANGED <<after, sps>>

WriteOpen(t) ==
  /\ At(t, "w_open")
  /\ \E p \in Outcome("pcm_out"), m \in Outcome("mixer") :
       audio' = OutOpen_l(audio, p, m)
  /\ Goto(t, IF t \in spIn THEN "w_reopen" ELSE "w_opened")
  /\ UNCHANGED <<owner, after, sps>>

WriteReopenInput(t) ==
  /\ At(t, "w_reopen")
  /\ \E p \in Outcome("pcm_in"), m \in Outcome("mixer") :
       /\ audio' = InOpen_l(audio, p, m)
       /\ IF p THEN Goto(t, "w_opened") /\ UNCHANGED after
               ELSE CallDoStandby(t, "w_opened")
  /\ UNCHANGED <<owner, sps>>

(* spIn goes out of scope with the hardware's mutex held, but the input was
   listed under it and cannot have left since. *)
WriteOpened(t) ==
  /\ At(t, "w_opened")
  /\ spIn' = spIn \ {t}
  /\ audio' = [audio EXCEPT !.outStandby = ~audio.outPcm]
  /\ IF audio.outPcm THEN Release(Held(t) \ {"out"}) /\ Goto(t, "w_pcm")
                     ELSE Release(Held(t)) /\ Goto(t, "so_out")
  /\ UNCHANGED <<after, spOut>>

(* The echo reference is fed and the PCM written under the stream's mutex. *)
WritePcm(t) ==
  /\ At(t, "w_pcm") /\ Release({"out"})
  /\ \E ok \in Outcome("pcm_write") : Goto(t, IF ok THEN "idle" ELSE "so_out")
  /\ UNCHANGED <<audio, after, sps>>
-----------------------------------------------------------------------------
(* AudioStreamOutALSA::standby, also the destructor: a stream nobody refers
   to is gone when it returns.  setParameters puts the stream in standby for
   a new device unless there is a call. *)
OutStandbyBegin(t) ==
  /\ t = Player /\ audio.outListed
  /\ Begin(t, "standby", "so_out")
  /\ UNCHANGED <<audio, owner, after, sps>>

OutSetParameters(t) ==
  /\ t = Player /\ audio.outListed
  /\ Begin(t, "setParameters", "po_out")
  /\ UNCHANGED <<audio, owner, after, sps>>

LockOutput(t, here, next) ==
  /\ At(t, here) /\ Take(t, "out") /\ Goto(t, next)
  /\ UNCHANGED <<audio, after, sps>>

OutStandbyHw(t) ==
  /\ At(t, "so_hw") /\ Handover(t, "hw", {"out", "hw"})
  /\ audio' = [OutDoStandby_l(audio) EXCEPT
                 !.outAlive = audio.outListed \/ spOut # {},
                 !.outEcho = IF audio.outListed \/ spOut # {} THEN @ ELSE "none"]
  /\ Goto(t, "drop")
  /\ UNCHANGED <<after, sps>>

OutSetParametersHw(t) ==
  /\ At(t, "po_hw") /\ Handover(t, "hw", {"out", "hw"})
  /\ audio' = IF audio.mMode = "in_call" THEN audio ELSE OutDoStandby_l(audio)
  /\ Goto(t, "idle")
  /\ UNCHANGED <<after, sps>>

-----------------------------------------------------------------------------
(* AudioStreamInALSA::doStandby_l, called with the input's and the hardware's
   mutex held.  A stream with an echo reference lets go of both to take the
   output's first. *)
DoStandby(t) ==
  /\ At(t, "ds")
  /\ IF ~audio.inStandby /\ audio.inEcho # "none" /\ audio.outListed
     THEN /\ audio' = [audio EXCEPT !.inSeen = {}]
          /\ spOut' = spOut \cup {t}
          /\ Release({"in", "hw"}) /\ Goto(t, "ds_out")
          /\ UNCHANGED after
     ELSE /\ audio' = InEndStandby_l([audio EXCEPT !.inSeen = {}], ~audio.inStandby)
          /\ DoStandbyReturn(t)
          /\ UNCHANGED <<owner, spOut>>
  /\ UNCHANGED spIn

(* spOut is dropped with the two mutexes held again. *)
DoStandbyRelease(t) ==
  /\ At(t, "ds_hw") /\ Handover(t, "hw", {"out"})
  /\ audio' = InEndStandby_l(releaseEchoReference(audio, audio.inEcho), TRUE)
  /\ spOut' = spOut \ {t}
  /\ IF LastOut(t) THEN Goto(t, "so_out") /\ UNCHANGED after ELSE DoStandbyReturn(t)
  /\ UNCHANGED spIn

(* AudioStreamInALSA::standby, also the destructor. *)
InStandbyBegin(t) ==
  /\ t = Recorder /\ audio.inListed
  /\ Begin(t, "standby", "si_in")
  /\ UNCHANGED <<audio, owner, after, sps>>

InStandbyHw(t) ==
  /\ At(t, "si_hw") /\ Take(t, "hw") /\ CallDoStandby(t, "si_done")
  /\ UNCHANGED <<audio, sps>>

InStandbyDone(t) ==
  /\ At(t, "si_done") /\ Release({"in", "hw"})
  /\ audio' = [audio EXCEPT
                 !.inAlive = audio.inListed \/ spIn # {},
                 !.inEcho = IF audio.inListed \/ spIn # {} THEN @ ELSE "none"]
  /\ Goto(t, "drop")
  /\ UNCHANGED <<after, sps>>

(* setParameters: a new input source opens and closes the mixer around its
   selection; a new device puts the stream in standby unless there is a
   call. *)
InSetParameters(t) ==
  /\ t = Recorder /\ audio.inListed
  /\ Begin(t, "setParameters", "pi_in")
  /\ UNCHANGED <<audio, owner, after, sps>>

InSetSource(t) ==
  /\ At(t, "pi_hw") /\ Handover(t, "hw", {"hw"})
  /\ \E ok \in Outcome("mixer") : audio' = closeMixer_l(openMixer_l(audio, ok))
  /\ Goto(t, "pi_route")
  /\ UNCHANGED <<after, sps>>

InSetDevice(t) ==
  /\ pc[t] \in {"pi_hw", "pi_route"} /\ Take(t, "hw")
  /\ IF audio.mMode = "in_call" THEN Goto(t, "pi_done") /\ UNCHANGED after
     ELSE CallDoStandby(t, "pi_done")
  /\ UNCHANGED <<audio, sps>>

InSetParametersDone(t) ==
  /\ pc[t] \in {"pi_route", "pi_done"}
  /\ Release(Held(t)) /\ Goto(t, "idle")
  /\ UNCHANGED <<audio, after, sps>>

-----------------------------------------------------------------------------
(* AudioStreamInALSA::read. *)
ReadBegin(t) ==
  /\ t = Recorder /\ audio.inListed
  /\ Begin(t, "read", "r_in")
  /\ UNCHANGED <<audio, owner, after, sps>>

ReadLock(t) ==
  /\ At(t, "r_in") /\ Take(t, "in")
  /\ Goto(t, IF audio.inStandby THEN "r_hw" ELSE "r_pcm")
  /\ UNCHANGED <<audio, after, sps>>

ReadLockHw(t) ==
  /\ At(t, "r_hw") /\ Take(t, "hw") /\ Goto(t, "r_look")
  /\ UNCHANGED <<audio, after, sps>>

(* Deviation for the mutation runs: the input's mutex is kept while the
   output's is waited for. *)
ReadLookLocked(t) ==
  /\ At(t, "r_look")
  /\ IF audio.outListed
     THEN spOut' = spOut \cup {t} /\ Release({"hw"}) /\ Goto(t, "r_out")
     ELSE /\ spOut' = spOut \ {t}
          /\ Goto(t, IF t \in spOut /\ LastOut(t) THEN "so_out" ELSE "r_open")
          /\ UNCHANGED owner
  /\ UNCHANGED <<audio, after, spIn>>

(* spOut = output(): to take its mutex the other two are released. *)
ReadLook(t) ==
  /\ At(t, "r_look")
  /\ IF audio.outListed
     THEN spOut' = spOut \cup {t} /\ Release({"in", "hw"}) /\ Goto(t, "r_out")
     ELSE /\ spOut' = spOut \ {t}
          /\ Goto(t, IF t \in spOut /\ LastOut(t) THEN "so_out" ELSE "r_open")
          /\ UNCHANGED owner
  /\ UNCHANGED <<audio, after, spIn>>

(* The output is still the hardware's: close and open it if it is active,
   then get the echo reference. *)
ReadReopenOutput(t) ==
  /\ At(t, "r_hw2")
  /\ IF audio.outListed
     THEN /\ Handover(t, "hw", {"out"})
          /\ \E p \in Outcome("pcm_out"), m \in Outcome("mixer"), e \in Outcome("echo") :
               LET opened == OutOpen_l(OutClose_l(audio), p, m)
                   o == IF audio.outStandby THEN audio
                        ELSE IF opened.outPcm THEN opened ELSE OutDoStandby_l(opened)
               IN  audio' = IF o.inNeedEcho /\ o.inEcho = "none"
                            THEN getEchoReference(o, e) ELSE o
          /\ spOut' = spOut \ {t}
          /\ Goto(t, "r_open")
     ELSE /\ Handover(t, "hw", {"out"})
          /\ Goto(t, "r_look")
          /\ UNCHANGED <<audio, spOut>>
  /\ UNCHANGED <<after, spIn>>

ReadOpen(t) ==
  /\ At(t, "r_open")
  /\ \E p \in Outcome("pcm_in"), m \in Outcome("mixer") :
       /\ audio' = [InOpen_l(audio, p, m) EXCEPT !.inStandby = ~p /\ audio.inStandby]
       /\ IF p THEN Release({"hw"}) /\ Goto(t, "r_pcm")
               ELSE Release({"in", "hw"}) /\ Goto(t, "si_in")
  /\ UNCHANGED <<after, sps>>

(* Frames are read, and run past the echo reference, under the stream's mutex. *)
ReadPcm(t) ==
  /\ At(t, "r_pcm") /\ Release({"in"})
  /\ \E ok \in Outcome("pcm_read") : Goto(t, IF ok THEN "idle" ELSE "si_in")
  /\ UNCHANGED <<audio, after, sps>>

-----------------------------------------------------------------------------
(* setMode: gather the mutexes of the streams that are active, out -> in ->
   hw, then change the mode. *)
SetModeBegin(t) ==
  /\ t \in Servers
  /\ Begin(t, "setMode", "m_hw")
  /\ UNCHANGED <<audio, owner, after, sps>>

LockHw(t, here, next) ==
  /\ At(t, here) /\ Take(t, "hw") /\ Goto(t, next)
  /\ UNCHANGED <<audio, after, sps>>

SetModeLookOut(t) ==
  /\ At(t, "m_look")
  /\ IF ActiveOutput(audio)
     THEN /\ audio' = [audio EXCEPT !.outSeen = @ \cup {t}]
          /\ spOut' = spOut \cup {t}
          /\ Release({"hw"}) /\ Goto(t, "m_out")
     ELSE /\ spOut' = spOut \ {t}
          /\ Goto(t, IF t \in spOut /\ LastOut(t) THEN "so_out" ELSE "m_lookin")
          /\ UNCHANGED <<audio, owner>>
  /\ UNCHANGED <<after, spIn>>

SetModeRecheckOut(t) ==
  /\ At(t, "m_hw2")
  /\ IF audio.outListed /\ t \in audio.outSeen
     THEN Take(t, "hw") /\ Goto(t, "m_lookin")
     ELSE Handover(t, "hw", {"out"}) /\ Goto(t, "m_look")
  /\ audio' = Forget(t)
  /\ UNCHANGED <<after, sps>>

SetModeLookIn(t) ==
  /\ At(t, "m_lookin") /\ LookForInput(t, "m_in", "m_body")
  /\ UNCHANGED <<after, spOut>>

SetModeRecheckIn(t) ==
  /\ At(t, "m_hw3")
  /\ IF getActiveInput_l(audio) /\ t \in audio.inSeen
     THEN Take(t, "hw") /\ Goto(t, "m_body")
     ELSE Handover(t, "hw", {"in"}) /\ Goto(t, "m_lookin")
  /\ audio' = Forget(t)
  /\ UNCHANGED <<after, sps>>

(* Entering and leaving a call puts the streams found active in standby; the
   call's own use of the devices starts after, and ends before. *)
SetModeBody(t, mode) ==
  LET set == [audio EXCEPT !.mMode = mode]
      entering == mode = "in_call" /\ ~audio.mInCallAudioMode
      leaving == mode # "in_call" /\ audio.mInCallAudioMode
      freed == IF leaving THEN closePcmOut_l(closeMixer_l(set)) ELSE set
      next == IF entering THEN "m_enter" ELSE "m_leave"
  IN  /\ At(t, "m_body")
      /\ IF mode # audio.mMode /\ (entering \/ leaving)
         THEN /\ audio' = IF t \in spOut THEN OutDoStandby_l(freed) ELSE freed
              /\ IF t \in spIn THEN CallDoStandby(t, next)
                               ELSE Goto(t, next) /\ UNCHANGED after
         ELSE audio' = set /\ Goto(t, "m_end") /\ UNCHANGED after
      /\ UNCHANGED <<owner, sps>>

(* Deviation for the mutation runs: a playback device that is open already is not
   counted for the call. *)
SetModeEnterShares(t) ==
  /\ At(t, "m_enter")
  /\ \E p \in Outcome("pcm_out"), m \in Outcome("mixer") :
       LET opened == IF audio.mPcm THEN audio ELSE openPcmOut_l(audio, p)
       IN  audio' = [openMixer_l(opened, m) EXCEPT !.mInCallAudioMode = TRUE]
  /\ Goto(t, "m_end")
  /\ UNCHANGED <<owner, after, sps>>

SetModeEnter(t) ==
  /\ At(t, "m_enter")
  /\ \E p \in Outcome("pcm_out"), m \in Outcome("mixer") :
       audio' = [openMixer_l(openPcmOut_l(audio, p), m) EXCEPT !.mInCallAudioMode = TRUE]
  /\ Goto(t, "m_end")
  /\ UNCHANGED <<owner, after, sps>>

SetModeLeave(t) ==
  /\ At(t, "m_leave")
  /\ audio' = [audio EXCEPT !.mInCallAudioMode = FALSE]
  /\ Goto(t, "m_end")
  /\ UNCHANGED <<owner, after, sps>>

SetModeEnd(t) ==
  /\ At(t, "m_end") /\ Release(Held(t)) /\ Goto(t, "drop")
  /\ UNCHANGED <<audio, after, sps>>

-----------------------------------------------------------------------------
(* Deviation for the mutation runs: only muting reaches the active input. *)
SetMicMuteOneWay(t) ==
  LET affected == audio.mMode # "in_call" /\ getActiveInput_l(audio) /\ ~audio.mMicMute
  IN  /\ t \in Servers
      /\ owner["hw"] = NoThread
      /\ Begin(t, "setMicMute", IF affected THEN "si_in" ELSE "idle")
      /\ audio' = [audio EXCEPT !.mMicMute = ~@]
      /\ spIn' = IF affected THEN spIn \cup {t} ELSE spIn
      /\ UNCHANGED <<owner, after, spOut>>

(* setMicMute: an active input goes to standby, to be opened again with the
   route the new value asks for. *)
SetMicMute(t) ==
  LET affected == audio.mMode # "in_call" /\ getActiveInput_l(audio)
  IN  /\ t \in Servers
      /\ owner["hw"] = NoThread
      /\ Begin(t, "setMicMute", IF affected THEN "si_in" ELSE "idle")
      /\ audio' = [audio EXCEPT !.mMicMute = ~@]
      /\ spIn' = IF affected THEN spIn \cup {t} ELSE spIn
      /\ UNCHANGED <<owner, after, spOut>>

InStandbyLabels == {"si_in", "si_hw", "ds", "ds_out", "ds_in", "ds_hw", "si_done"}

(* The service's side of the contract: a stream is opened when the one before
   it is gone, and closed when nobody is in a call of it that was made with
   the plain pointer the service has. *)
OpenOutputStream(t) ==
  /\ t \in Servers /\ ~audio.outListed /\ ~audio.outAlive
  /\ owner["hw"] = NoThread
  /\ Begin(t, "openStream", "idle")
  /\ audio' = [audio EXCEPT !.outListed = TRUE, !.outAlive = TRUE]
  /\ UNCHANGED <<owner, after, sps>>

(* The input that uses the echo reference is put in standby first, when it is
   active. *)
CloseOutputStream(t) ==
  LET inUse == audio.mEchoReference /\ getActiveInput_l(audio)
  IN  /\ t \in Servers /\ audio.outListed /\ pc[Player] = "idle"
      /\ owner["hw"] = NoThread
      /\ Begin(t, "closeStream", IF inUse THEN "si_in" ELSE "drop")
      /\ audio' = [audio EXCEPT !.outListed = FALSE]
      /\ spOut' = spOut \cup {t}
      /\ spIn' = IF inUse THEN spIn \cup {t} ELSE spIn
      /\ UNCHANGED <<owner, after>>

OpenInputStream(t) ==
  /\ t \in Servers /\ ~audio.inListed /\ ~audio.inAlive
  /\ owner["hw"] = NoThread
  /\ Begin(t, "openStream", "idle")
  /\ audio' = [audio EXCEPT !.inListed = TRUE, !.inAlive = TRUE, !.inNeedEcho = FALSE]
  /\ UNCHANGED <<owner, after, sps>>

CloseInputStream(t) ==
  /\ t \in Servers /\ audio.inListed /\ pc[Recorder] = "idle"
  /\ \A s \in Servers : pc[s] \in InStandbyLabels => s \in spIn
  /\ owner["hw"] = NoThread
  /\ Begin(t, "closeStream", "drop")
  /\ audio' = [audio EXCEPT !.inListed = FALSE]
  /\ spIn' = spIn \cup {t}
  /\ UNCHANGED <<owner, after, spOut>>

(* An echo canceller is added to the input, or removed: a plain store, then
   standby(). *)
AudioEffect(t) ==
  /\ t \in Servers /\ audio.inListed
  /\ Begin(t, "audioEffect", "si_in")
  /\ audio' = [audio EXCEPT !.inNeedEcho = ~@]
  /\ UNCHANGED <<owner, after, sps>>

(* The end of a call: the references it still has go, the last one with the
   stream. *)
DropInput(t) ==
  /\ At(t, "drop") /\ t \in spIn
  /\ spIn' = spIn \ {t}
  /\ Goto(t, IF LastIn(t) THEN "si_in" ELSE "drop")
  /\ UNCHANGED <<audio, owner, after, spOut>>

DropOutput(t) ==
  /\ At(t, "drop") /\ t \in spOut
  /\ spOut' = spOut \ {t}
  /\ Goto(t, IF LastOut(t) THEN "so_out" ELSE "drop")
  /\ UNCHANGED <<audio, owner, after, spIn>>

Return(t) ==
  /\ At(t, "drop") /\ t \notin spIn \cup spOut
  /\ Goto(t, "idle")
  /\ UNCHANGED <<audio, owner, after, sps>>

-----------------------------------------------------------------------------
(* What a thread starts, and what it does once it has. *)
Start(t) ==
  \/ WriteBegin(t) \/ OutStandbyBegin(t) \/ OutSetParameters(t)
  \/ ReadBegin(t) \/ InStandbyBegin(t) \/ InSetParameters(t)
  \/ SetModeBegin(t)
  \/ SetMicMute(t)
  \/ OpenOutputStream(t) \/ CloseOutputStream(t)
  \/ OpenInputStream(t) \/ CloseInputStream(t)
  \/ AudioEffect(t)

Lock(t) ==
  \/ WriteLock(t) \/ WriteLockHw(t)
  \/ LockInput(t, "w_in", "w_inhw") \/ WriteRecheck(t)
  \/ LockOutput(t, "so_out", "so_hw") \/ OutStandbyHw(t)
  \/ LockOutput(t, "po_out", "po_hw") \/ OutSetParametersHw(t)
  \/ LockOutput(t, "ds_out", "ds_in") \/ LockInput(t, "ds_in", "ds_hw")
  \/ DoStandbyRelease(t)
  \/ LockInput(t, "si_in", "si_hw") \/ InStandbyHw(t)
  \/ LockInput(t, "pi_in", "pi_hw") \/ InSetSource(t) \/ InSetDevice(t)
  \/ ReadLock(t) \/ ReadLockHw(t)
  \/ LockOutput(t, "r_out", "r_in2") \/ LockInput(t, "r_in2", "r_hw2")
  \/ ReadReopenOutput(t)
  \/ LockHw(t, "m_hw", "m_look")
  \/ LockOutput(t, "m_out", "m_hw2") \/ SetModeRecheckOut(t)
  \/ LockInput(t, "m_in", "m_hw3") \/ SetModeRecheckIn(t)

Run(t) ==
  \/ WriteLook(t) \/ WriteOpen(t) \/ WriteReopenInput(t) \/ WriteOpened(t) \/ WritePcm(t)
  \/ DoStandby(t) \/ InStandbyDone(t) \/ InSetParametersDone(t)
  \/ ReadLook(t) \/ ReadOpen(t) \/ ReadPcm(t)
  \/ SetModeLookOut(t) \/ SetModeLookIn(t) \/ (\E mode \in Modes : SetModeBody(t, mode))
  \/ SetModeEnter(t) \/ SetModeLeave(t) \/ SetModeEnd(t)
  \/ DropInput(t) \/ DropOutput(t) \/ Return(t)

Next == \E t \in Threads : Start(t) \/ Lock(t) \/ Run(t)

Spec == Init /\ [][Next]_vars

-----------------------------------------------------------------------------
(* Everything has its type. *)
TypeOK ==
  /\ env \in Environments
  /\ audio \in Audio
  /\ owner \in [Mutexes -> Threads \cup {NoThread}]
  /\ pc \in [Threads -> Labels] /\ after \in [Threads -> Labels]
  /\ spOut \subseteq Threads /\ spIn \subseteq Threads

(* Only the use of an echo canceller, and the end of a stream somebody else
   refers to, take a mutex out of order. *)
PlainCalls == env.calls \cap {"audioEffect", "closeStream"} = {}

(* "Mutex acquisition order is always out -> in -> hw", AudioHardware.cpp:345:
   a thread that waits for a mutex holds none that is not before it. *)
AcquisitionOrder ==
  \A t \in Threads :
    /\ pc[t] \in WaitsForOut => Held(t) = {}
    /\ pc[t] \in WaitsForIn => Held(t) \subseteq {"out"}
    /\ pc[t] \in WaitsForHw => Held(t) \subseteq {"out", "in"}

(* With plain calls the order is kept, whatever the kernel refuses. *)
LocksInOrder == PlainCalls => AcquisitionOrder

(* With plain calls the threads never all wait for each other: whenever a call
   is under way some thread can take its next step. *)
CanGo(t) ==
  /\ pc[t] \in WaitsForOut => owner["out"] = NoThread
  /\ pc[t] \in WaitsForIn => owner["in"] = NoThread
  /\ pc[t] \in WaitsForHw => owner["hw"] = NoThread

NoDeadlock ==
  PlainCalls /\ (\E t \in Threads : pc[t] # "idle")
    => \E t \in Threads : pc[t] # "idle" /\ CanGo(t)

(* A stream that uses the playback PCM or the mixer finds it open, unless the
   kernel refused it when a call began: the end of that call gives back what
   it never got. *)
DevicesOfUsers ==
  env.refused \cap {"pcm_out", "mixer"} = {} /\ owner["hw"] = NoThread =>
    /\ audio.outPcm => audio.mPcm
    /\ audio.outMixer \/ audio.inMixer => audio.mMixer

(* An input that records outside a call has the route mMicMute asks for, once
   the thread that changed it has put the input in standby. *)
MuteIsHeard ==
  /\ getActiveInput_l(audio) /\ audio.inMixer /\ audio.mMode # "in_call"
  /\ owner["hw"] = NoThread
  /\ \A t \in spIn : pc[t] \notin InStandbyLabels
  => audio.inRoute = IF audio.mMicMute THEN "off" ELSE "mic"

(* The echo reference a stream feeds or reads, under its own mutex only, is
   the one the hardware has. *)
EchoReferenceInUse ==
  \A t \in Threads : /\ pc[t] = "w_pcm" => audio.outEcho # "stale"
                     /\ pc[t] = "r_pcm" => audio.inEcho # "stale"
=============================================================================
