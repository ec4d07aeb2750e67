-------------------------- MODULE SensorsActivate --------------------------
(***************************************************************************)
(* Turning sensors on and off: sensors_poll_context_t::activate and the    *)
(* enable methods of the five drivers that libsensors builds.  The device  *)
(* is opened and closed, each call of activate is one action (the sensor   *)
(* service makes them one at a time), and the open of a driver's sysfs     *)
(* file may fail.  Handles are A(cceleration), M(agnetic field),           *)
(* O(rientation), P(roximity) and L(ight); a driver has its handle's name. *)
(***************************************************************************)
EXTENDS Integers, FiniteSets

CONSTANTS Garbage,   \* what the uninitialised CompassSensor::mEnabled may hold
          MaxOpenFaults  \* bound: calls in which an open fails

ASSUME SensorsActivateAssumption == Garbage \subseteq Int /\ MaxOpenFaults \in Nat

Handles == {"A", "M", "O", "P", "L"}

VARIABLES opened,   \* the context exists
          dev,      \* the drivers: mEnabled, on (what was last written to the
                    \* kernel), asked (written since the device was opened),
                    \* orientationd (the daemon runs), err (of the last enable)
          mAccelActive, mMagnetActive, mOrientationActive,
          users,    \* ghost: handles whose last call was an activation that returned 0
          leftOn,   \* ghost: drivers that a failing destructor left running
          openFaults

activateVars == <<opened, dev, mAccelActive, mMagnetActive, mOrientationActive,
          users, leftOn, openFaults>>

(* Deviation for the mutation runs: the compass leaves its daemon alone. *)
WrittenNoDaemon(d, h, e) ==
  [d EXCEPT !.mEnabled[h] = e, !.on[h] = (e = 1), !.asked = @ \union {h}, !.err = 0]

-----------------------------------------------------------------------------
Written(d, h, e) ==
  [d EXCEPT !.mEnabled[h] = e, !.on[h] = (e = 1), !.asked = @ \union {h},
            !.orientationd = IF h = "M" THEN e = 1 ELSE @, !.err = 0]

(* A driver's enable: nothing to do, the sysfs file does not open, or the
   flag is written to the kernel. *)
enable(d, h, e, fails) ==
  IF d.mEnabled[h] = e THEN [d EXCEPT !.err = 0]
  ELSE IF h \in fails THEN [d EXCEPT !.err = -1]
  ELSE Written(d, h, e)

(* Sets of sysfs files that do not open during one call. *)
Failing == IF openFaults < MaxOpenFaults THEN SUBSET Handles ELSE {{}}

Count(fails) == openFaults' = IF fails = {} THEN openFaults ELSE openFaults + 1

Fresh(on, daemon, garbage) ==
  [mEnabled |-> [h \in Handles |-> IF h = "M" THEN garbage ELSE 0],
   on |-> on, asked |-> {}, orientationd |-> daemon, err |-> 0]

ActivateInit ==
  /\ opened = FALSE
  /\ \E g \in Garbage : dev = Fresh([h \in Handles |-> FALSE], FALSE, g)
  /\ mAccelActive = FALSE /\ mMagnetActive = FALSE /\ mOrientationActive = FALSE
  /\ users = {} /\ leftOn = {} /\ openFaults = 0

(* The constructors of the light and the proximity driver turn them on. *)
Open ==
  /\ ~opened /\ opened' = TRUE
  /\ \E g \in Garbage, fails \in Failing :
       /\ LET light == enable(Fresh(dev.on, dev.orientationd, g), "L", 1, fails)
          IN  dev' = enable(light, "P", 1, fails)
       /\ Count(fails)
  /\ mAccelActive' = FALSE /\ mMagnetActive' = FALSE /\ mOrientationActive' = FALSE
  /\ users' = {}
  /\ UNCHANGED leftOn

(* Deviation for the mutation runs: the compass, whose initialisation is
   commented out, is forgotten. *)
DestroyedAllButCompass(d, fails) ==
  LET off == {h \in Handles \ (fails \union {"M"}) : d.mEnabled[h] # 0}
  IN  [d EXCEPT !.mEnabled = [h \in Handles |-> IF h \in off THEN 0 ELSE @[h]],
                !.on = [h \in Handles |-> @[h] /\ h \notin off]]

(* Each destructor turns its driver off when mEnabled says it is on. *)
Destroyed(d, fails) ==
  LET off == {h \in Handles \ fails : d.mEnabled[h] # 0}
  IN  [d EXCEPT !.mEnabled = [h \in Handles |-> IF h \in off THEN 0 ELSE @[h]],
                !.on = [h \in Handles |-> @[h] /\ h \notin off],
                !.orientationd = @ /\ "M" \notin off]

Close ==
  /\ opened /\ opened' = FALSE
  /\ \E fails \in Failing :
       /\ dev' = Destroyed(dev, fails)
       /\ leftOn' = leftOn \union {h \in fails : dev.on[h]}
       /\ Count(fails)
  /\ users' = {}
  /\ UNCHANGED <<mAccelActive, mMagnetActive, mOrientationActive>>

-----------------------------------------------------------------------------
(* The service uses a sensor from an activation that returned 0 until its next
   call for it. *)
Believes(h, e, err) ==
  users' = IF e = 1 /\ err = 0 THEN users \union {h} ELSE users \ {h}

(* The first of two calls failed: the second is not made. *)
Then(d, skip, h, e, fails) ==
  IF d.err # 0 \/ skip THEN d ELSE enable(d, h, e, fails)

(* Orientation turns the accelerometer and the compass on and off unless the
   service uses them itself. *)
activateOrientation(e) ==
  /\ opened
  /\ mOrientationActive' = (e = 1)
  /\ \E fails \in Failing :
       /\ LET start == [dev EXCEPT !.err = 0]
              accel == Then(start, mAccelActive, "A", e, fails)
              magnet == Then(accel, mMagnetActive, "M", e, fails)
          IN  dev' = Then(magnet, FALSE, "O", e, fails)
       /\ Count(fails)
  /\ Believes("O", e, dev'.err)
  /\ UNCHANGED <<opened, mAccelActive, mMagnetActive, leftOn>>

(* The accelerometer and the compass: nothing to do while orientation runs. *)
activateShared(h, e) ==
  /\ opened
  /\ mAccelActive' = IF h = "A" THEN e = 1 ELSE mAccelActive
  /\ mMagnetActive' = IF h = "M" THEN e = 1 ELSE mMagnetActive
  /\ \E fails \in Failing :
       /\ dev' = Then([dev EXCEPT !.err = 0], mOrientationActive, h, e, fails)
       /\ Count(fails)
  /\ Believes(h, e, dev'.err)
  /\ UNCHANGED <<opened, mOrientationActive, leftOn>>

activatePlain(h, e) ==
  /\ opened
  /\ \E fails \in Failing :
       /\ dev' = enable(dev, h, e, fails)
       /\ Count(fails)
  /\ Believes(h, e, dev'.err)
  /\ UNCHANGED <<opened, mAccelActive, mMagnetActive, mOrientationActive, leftOn>>

ActivateNext ==
  \/ Open
  \/ Close
  \/ \E e \in {0, 1} :
       \/ activateOrientation(e)
       \/ \E h \in {"A", "M"} : activateShared(h, e)
       \/ \E h \in {"P", "L"} : activatePlain(h, e)

ActivateSpec == ActivateInit /\ [][ActivateNext]_activateVars

-----------------------------------------------------------------------------
ActivateTypeOK ==
  /\ opened \in BOOLEAN
  /\ dev \in [mEnabled : [Handles -> Int], on : [Handles -> BOOLEAN],
              asked : SUBSET Handles, orientationd : BOOLEAN, err : {0, -1}]
  /\ mAccelActive \in BOOLEAN /\ mMagnetActive \in BOOLEAN
  /\ mOrientationActive \in BOOLEAN
  /\ users \subseteq Handles /\ leftOn \subseteq Handles
  /\ openFaults \in 0 .. MaxOpenFaults

(* The drivers that a use of h needs: orientation is computed by a daemon from
   the other two. *)
Needs(h) == IF h = "O" THEN {"A", "M", "O"} ELSE {h}

Needed == UNION {Needs(h) : h \in users}

On == {h \in Handles : dev.on[h]}

(* While no open has failed, in whatever order orientation, accelerometer and
   compass are turned on and off: every sensor the service was told is on has
   all the drivers it needs, but for one that has not been written to yet (the
   compass starts with whatever is in its memory); the shared drivers run only
   for a user, none draws current after the last one has gone; and the
   orientation daemon runs exactly with the compass.  Whatever failed before,
   closing the device turns off everything but the drivers whose sysfs file did
   not open at that moment. *)
DriversFollowUsers ==
  /\ openFaults = 0 => /\ Needed \intersect dev.asked \subseteq On
                       /\ On \intersect {"A", "M", "O"} \subseteq Needed
                       /\ dev.orientationd <=> "M" \in On
  /\ ~opened => On \subseteq leftOn
=============================================================================
