---------------------------- MODULE SensorsPoll ----------------------------
(***************************************************************************)
(* Events on their way from the kernel to the sensor service: pollEvents   *)
(* of sensors.cpp with the drivers' readEvents, on the service's polling   *)
(* thread, against the drivers' enable on its caller's thread.  Nothing    *)
(* of this is locked.  A driver is its index; its values are numbered by   *)
(* report, so the kernel's queue and the reader (an EventFifo) are three   *)
(* positions in one stream of entries: produced, filled, taken.            *)
(***************************************************************************)
EXTENDS Integers, FiniteSetsExt

CONSTANTS NumDrivers,     \* numSensorDrivers
          WithInitial,    \* drivers whose enable fetches the present state: proximity
          EntriesPer,     \* entries of a report: the values and the closing EV_SYN
          RingSize,       \* entries the reader holds, mInputReader(4)
          Room,           \* count, the events the caller of pollEvents has room for
          MaxReports,     \* bound: reports of each driver
          MaxCalls,       \* bound: calls of enable
          MaxFaults       \* bound: ioctls that fail

ASSUME SensorsPollAssumption ==
  /\ NumDrivers \in Nat \ {0} /\ WithInitial \subseteq 0 .. NumDrivers - 1
  /\ EntriesPer \in Nat \ {0, 1} /\ RingSize \in Nat \ {0} /\ Room \in Nat \ {0}
  /\ MaxReports \in Nat /\ MaxCalls \in Nat /\ MaxFaults \in Nat

Drivers == 0 .. NumDrivers - 1

VARIABLES
  on,                \* what the driver was last told by the sysfs file
  produced, filled, taken,  \* entries: queued, read into the ring, handed out
  mEnabled, mHasPendingEvent,
  mPendingEvent,     \* the report whose value it holds, 0 before any
  revents,           \* POLLIN in mPollFds
  wake,              \* bytes in the wake pipe
  poll,              \* the polling thread: pc, i, count, nb, nbEvents, out (the
                     \* last report of each driver put into data, -1: none)
  told,              \* the last report handed to the service, -1 before any
  svc,               \* the enabling thread: pc, d, en, val
  calls, faults

driverVars == <<mEnabled, mHasPendingEvent, mPendingEvent>>
streamVars == <<produced, filled, taken>>
vars == <<on, streamVars, driverVars, revents, wake, poll, told, svc,
          calls, faults>>

Made(d) == produced[d] \div EntriesPer
Unread(d) == filled[d] < produced[d]
Stored(d) == filled[d] - taken[d]

NoEvents == [d \in Drivers |-> -1]
Outside == [pc |-> "out", i |-> 0, count |-> Room, nb |-> 0, nbEvents |-> 0,
            out |-> NoEvents]
Idle == [pc |-> "idle", d |-> 0, en |-> FALSE, val |-> 0]

Init ==
  /\ on = [d \in Drivers |-> FALSE]
  /\ produced = [d \in Drivers |-> 0]
  /\ filled = [d \in Drivers |-> 0]
  /\ taken = [d \in Drivers |-> 0]
  /\ mEnabled = [d \in Drivers |-> FALSE]
  /\ mHasPendingEvent = [d \in Drivers |-> FALSE]
  /\ mPendingEvent = [d \in Drivers |-> 0]
  /\ revents = [d \in Drivers |-> FALSE]
  /\ wake = 0
  /\ poll = Outside
  /\ told = NoEvents
  /\ svc = Idle
  /\ calls = 0 /\ faults = 0

-----------------------------------------------------------------------------
(* The kernel queues a report of a driver that is on. *)
Report(d) ==
  /\ on[d] /\ Made(d) < MaxReports
  /\ produced' = [produced EXCEPT ![d] = @ + EntriesPer]
  /\ UNCHANGED <<on, filled, taken, driverVars, revents, wake, poll, told, svc,
                 calls, faults>>

-----------------------------------------------------------------------------
(* The enabling thread: real_activate and the driver's enable. *)

(* The flag is written to the sysfs file, or there is nothing to change. *)
Enable(d, e) ==
  /\ svc.pc = "idle" /\ calls < MaxCalls /\ calls' = calls + 1
  /\ \/ /\ mEnabled[d] # e
        /\ on' = [on EXCEPT ![d] = e]
        /\ svc' = [svc EXCEPT !.pc = "flag", !.d = d, !.en = e]
     \/ /\ mEnabled[d] = e /\ e
        /\ svc' = [svc EXCEPT !.pc = "wake", !.d = d, !.en = e]
        /\ UNCHANGED on
  /\ UNCHANGED <<streamVars, driverVars, revents, wake, poll, told, faults>>

(* After the driver's part: a wake message for an activation. *)
Enabled == IF svc.en THEN [svc EXCEPT !.pc = "wake", !.val = 0] ELSE Idle

SetEnabled ==
  /\ svc.pc = "flag"
  /\ mEnabled' = [mEnabled EXCEPT ![svc.d] = svc.en]
  /\ svc' = IF svc.d \in WithInitial THEN [svc EXCEPT !.pc = "state"] ELSE Enabled
  /\ UNCHANGED <<on, streamVars, mHasPendingEvent, mPendingEvent, revents, wake,
                 poll, told, calls, faults>>

(* setInitialState: EVIOCGABS, then two stores. *)
GetState ==
  /\ svc.pc = "state"
  /\ \/ /\ svc' = [svc EXCEPT !.pc = "pending", !.val = Made(svc.d)]
        /\ UNCHANGED faults
     \/ /\ faults < MaxFaults /\ faults' = faults + 1
        /\ svc' = Enabled
  /\ UNCHANGED <<on, streamVars, driverVars, revents, wake, poll, told, calls>>

SetPending ==
  /\ svc.pc = "pending"
  /\ mHasPendingEvent' = [mHasPendingEvent EXCEPT ![svc.d] = TRUE]
  /\ svc' = [svc EXCEPT !.pc = "distance"]
  /\ UNCHANGED <<on, streamVars, mEnabled, mPendingEvent, revents, wake, poll,
                 told, calls, faults>>

SetDistance ==
  /\ svc.pc = "distance"
  /\ mPendingEvent' = [mPendingEvent EXCEPT ![svc.d] = svc.val]
  /\ svc' = Enabled
  /\ UNCHANGED <<on, streamVars, mEnabled, mHasPendingEvent, revents, wake, poll,
                 told, calls, faults>>

Wake ==
  /\ svc.pc = "wake"
  /\ wake' = wake + 1
  /\ svc' = Idle
  /\ UNCHANGED <<on, streamVars, driverVars, revents, poll, told, calls,
                 faults>>

-----------------------------------------------------------------------------
(* The polling thread. *)
pollOnly == <<on, produced, mEnabled, svc, calls, faults>>

EnterPoll ==
  /\ poll.pc = "out"
  /\ poll' = [poll EXCEPT !.pc = "scan"]
  /\ UNCHANGED <<pollOnly, filled, taken, mHasPendingEvent, mPendingEvent, revents,
                 wake, told>>

Scanning == poll.pc = "scan" /\ poll.count > 0 /\ poll.i < NumDrivers

ScanSkip ==
  /\ Scanning /\ ~revents[poll.i] /\ ~mHasPendingEvent[poll.i]
  /\ poll' = [poll EXCEPT !.i = @ + 1]
  /\ UNCHANGED <<pollOnly, filled, taken, mHasPendingEvent, mPendingEvent, revents,
                 wake, told>>

(* readEvents with a pending event clears the flag, then copies the event. *)
ScanPending ==
  /\ Scanning /\ mHasPendingEvent[poll.i]
  /\ mHasPendingEvent' = [mHasPendingEvent EXCEPT ![poll.i] = FALSE]
  /\ poll' = [poll EXCEPT !.pc = "copy"]
  /\ UNCHANGED <<pollOnly, filled, taken, mPendingEvent, revents, wake, told>>

(* readEvents returned: on to the next driver. *)
Counted(p, nb) ==
  [p EXCEPT !.pc = "scan", !.i = @ + 1, !.nb = 0,
            !.count = @ - nb, !.nbEvents = @ + nb]

(* POLLIN is forgotten unless the driver filled all the room there was. *)
Drained(nb) ==
  revents' = [revents EXCEPT ![poll.i] = @ /\ nb >= poll.count]

CopyPending ==
  /\ poll.pc = "copy"
  /\ LET nb == IF mEnabled[poll.i] THEN 1 ELSE 0
         put == IF nb = 1
                THEN [poll EXCEPT !.out[poll.i] = mPendingEvent[poll.i]] ELSE poll
     IN  /\ poll' = Counted(put, nb)
         /\ Drained(nb)
  /\ UNCHANGED <<pollOnly, filled, taken, mHasPendingEvent, mPendingEvent, wake, told>>

ScanRead ==
  /\ Scanning /\ revents[poll.i] /\ ~mHasPendingEvent[poll.i]
  /\ poll' = [poll EXCEPT !.pc = "fill"]
  /\ UNCHANGED <<pollOnly, filled, taken, mHasPendingEvent, mPendingEvent, revents,
                 wake, told>>

(* fill: read() on a descriptor that was opened without O_NONBLOCK waits for
   an entry unless the ring is full. *)
FillWaits == Stored(poll.i) < RingSize /\ ~Unread(poll.i)

Fill ==
  /\ poll.pc = "fill" /\ ~FillWaits
  /\ filled' = [filled EXCEPT ![poll.i] =
                  Min({taken[poll.i] + RingSize, produced[poll.i]})]
  /\ poll' = [poll EXCEPT !.pc = "drain"]
  /\ UNCHANGED <<pollOnly, taken, mHasPendingEvent, mPendingEvent, revents, wake, told>>

(* Deviation for the mutation runs: one event for each call of readEvents. *)
DrainingOne == poll.pc = "drain" /\ poll.nb < 1 /\ Stored(poll.i) > 0

Draining == poll.pc = "drain" /\ poll.nb < poll.count /\ Stored(poll.i) > 0

IsSyn(k) == k % EntriesPer = EntriesPer - 1

DrainValue ==
  /\ Draining /\ ~IsSyn(taken[poll.i])
  /\ mPendingEvent' = [mPendingEvent EXCEPT
                         ![poll.i] = (taken[poll.i] \div EntriesPer) + 1]
  /\ taken' = [taken EXCEPT ![poll.i] = @ + 1]
  /\ UNCHANGED <<pollOnly, filled, mHasPendingEvent, revents, wake, poll, told>>

DrainSyn ==
  /\ Draining /\ IsSyn(taken[poll.i])
  /\ poll' = IF mEnabled[poll.i]
             THEN [poll EXCEPT !.nb = @ + 1, !.out[poll.i] = mPendingEvent[poll.i]]
             ELSE poll
  /\ taken' = [taken EXCEPT ![poll.i] = @ + 1]
  /\ UNCHANGED <<pollOnly, filled, mHasPendingEvent, mPendingEvent, revents, wake, told>>

DrainEnd ==
  /\ poll.pc = "drain" /\ ~Draining
  /\ poll' = Counted(poll, poll.nb)
  /\ Drained(poll.nb)
  /\ UNCHANGED <<pollOnly, filled, taken, mHasPendingEvent, mPendingEvent, wake, told>>

ScanEnd ==
  /\ poll.pc = "scan" /\ ~Scanning
  /\ poll' = [poll EXCEPT !.pc = IF poll.count > 0 THEN "poll" ELSE "return"]
  /\ UNCHANGED <<pollOnly, filled, taken, mHasPendingEvent, mPendingEvent, revents,
                 wake, told>>

(* poll() waits only when there is nothing to return, and one wake message is
   taken from the pipe. *)
PollWaits == poll.nbEvents = 0 /\ wake = 0 /\ \A d \in Drivers : ~Unread(d)

Poll ==
  /\ poll.pc = "poll" /\ ~PollWaits
  /\ revents' = [d \in Drivers |-> Unread(d)]
  /\ wake' = IF wake > 0 THEN wake - 1 ELSE 0
  /\ poll' = [poll EXCEPT !.i = 0,
                !.pc = IF wake > 0 \/ \E d \in Drivers : Unread(d)
                       THEN "scan" ELSE "return"]
  /\ UNCHANGED <<pollOnly, filled, taken, mHasPendingEvent, mPendingEvent, told>>

ReturnEvents ==
  /\ poll.pc = "return"
  /\ told' = [d \in Drivers |-> IF poll.out[d] >= 0 THEN poll.out[d] ELSE told[d]]
  /\ poll' = Outside
  /\ UNCHANGED <<pollOnly, filled, taken, mHasPendingEvent, mPendingEvent, revents, wake>>

PollThread ==
  \/ EnterPoll \/ ScanSkip \/ ScanPending \/ CopyPending \/ ScanRead \/ Fill
  \/ DrainValue \/ DrainSyn \/ DrainEnd \/ ScanEnd \/ Poll \/ ReturnEvents

EnableThread ==
  SetEnabled \/ GetState \/ SetPending \/ SetDistance \/ Wake

Next == \/ PollThread
        \/ EnableThread
        \/ \E d \in Drivers : \/ Report(d)
                              \/ \E e \in BOOLEAN : Enable(d, e)

(* Both threads run when they can; nothing is promised about the service's
   calls or the kernel's reports. *)
Spec == Init /\ [][Next]_vars /\ WF_vars(PollThread) /\ WF_vars(EnableThread)

-----------------------------------------------------------------------------
TypeOK ==
  /\ on \in [Drivers -> BOOLEAN] /\ mEnabled \in [Drivers -> BOOLEAN]
  /\ \A d \in Drivers : /\ produced[d] \in 0 .. MaxReports * EntriesPer
                        /\ filled[d] \in 0 .. produced[d]
                        /\ taken[d] \in filled[d] - RingSize .. filled[d]
  /\ mHasPendingEvent \in [Drivers -> BOOLEAN]
  /\ mPendingEvent \in [Drivers -> 0 .. MaxReports]
  /\ revents \in [Drivers -> BOOLEAN]
  /\ wake \in 0 .. MaxCalls
  /\ poll.pc \in {"out", "scan", "copy", "fill", "drain", "poll", "return"}
  /\ poll.i \in 0 .. NumDrivers
  /\ told \in [Drivers -> -1 .. MaxReports]

Asleep == poll.pc = "poll" /\ PollWaits

(* sensors.cpp:290 "no more data for this sensor": when the thread goes to
   sleep in poll(), nothing is left where poll() does not look: in a reader,
   or as the initial event of a driver that was enabled. *)
NothingLeftAsleep ==
  Asleep => \A d \in Drivers :
              /\ Stored(d) = 0
              /\ mHasPendingEvent[d] /\ mEnabled[d] => svc.pc # "idle"

(* What a driver reports while it is enabled reaches the service, unless the
   driver is disabled meanwhile. *)
ReportReachesService ==
  \A d \in Drivers \ WithInitial : \A k \in 1 .. MaxReports :
    (mEnabled[d] /\ Made(d) = k /\ taken[d] < k * EntriesPer)
      ~> (told[d] >= k \/ ~mEnabled[d])
=============================================================================
