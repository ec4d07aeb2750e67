------------------------- MODULE OmxLifecycleProofs -------------------------
(***************************************************************************)
(* Proofs about OmxLifecycle for any components, ports, priorities, limit  *)
(* and set of commands, with clients that await outcomes or do not.  Each  *)
(* invariant is proved relative to the ones before it:                     *)
(*   TypeOK          the types, per action;                                *)
(*   ListBounded     from TypeOK;                                          *)
(*   Staged          which state a handler's step starts from;             *)
(*   NeverWaits      when no client asks to wait, nobody does;             *)
(*   IdleInitialised from Staged and NeverWaits;                           *)
(*   CodecInv        when a codec can be open, from Staged;                *)
(*   ListedIsHeld, HeldIsListed   who has an entry, from CodecInv;         *)
(*   WaitInv         who waits for resources, from Staged;                 *)
(*   PopulationInv   a port's buffers and tokens at every step of every    *)
(*                   command, from all of the above.                       *)
(* PreemptedByPriority is about single steps and needs TypeOK only.        *)
(***************************************************************************)
EXTENDS OmxLifecycle, SequenceTheorems, FiniteSetTheorems, WellFoundedInduction, TLAPS

(* What Append does to a sequence's elements. *)
LEMMA Appended ==
  ASSUME NEW S, NEW s \in Seq(S), NEW e \in S
  PROVE  /\ Append(s, e) \in Seq(S) /\ Len(Append(s, e)) = Len(s) + 1
         /\ Append(s, e) # <<>>
         /\ ToSet(Append(s, e)) = ToSet(s) \union {e}
<1>1. /\ Append(s, e) \in Seq(S) /\ Len(Append(s, e)) = Len(s) + 1
      /\ \A i \in 1 .. Len(s) : Append(s, e)[i] = s[i]
      /\ Append(s, e)[Len(s) + 1] = e /\ Append(s, e) # <<>>
  BY AppendProperties
<1>2. Len(s) \in Nat /\ DOMAIN s = 1 .. Len(s) /\ DOMAIN Append(s, e) = 1 .. Len(s) + 1
  BY <1>1, LenProperties
<1>3. ToSet(Append(s, e)) \subseteq ToSet(s) \union {e}
  BY <1>1, <1>2 DEF ToSet
<1>4. ToSet(s) \union {e} \subseteq ToSet(Append(s, e))
  BY <1>1, <1>2 DEF ToSet
<1> QED BY <1>1, <1>3, <1>4

(* Appending something new keeps a sequence free of repetitions. *)
LEMMA AppendedInjective ==
  ASSUME NEW S, NEW s \in Seq(S), NEW e \in S, IsInjective(s), e \notin ToSet(s)
  PROVE  IsInjective(Append(s, e))
<1>1. /\ \A i \in 1 .. Len(s) : Append(s, e)[i] = s[i] /\ s[i] # e
      /\ Append(s, e)[Len(s) + 1] = e
      /\ Len(s) \in Nat /\ DOMAIN s = 1 .. Len(s) /\ DOMAIN Append(s, e) = 1 .. Len(s) + 1
  BY AppendProperties, LenProperties DEF ToSet
<1> QED BY <1>1 DEF IsInjective

(* What is left when the first element is taken. *)
LEMMA FirstTaken ==
  ASSUME NEW S, NEW s \in Seq(S), s # <<>>
  PROVE  /\ Head(s) \in S /\ Tail(s) \in Seq(S)
         /\ Len(s) \in Nat /\ Len(Tail(s)) = Len(s) - 1
         /\ Head(s) \in ToSet(s) /\ ToSet(Tail(s)) \subseteq ToSet(s)
         /\ ToSet(s) \subseteq ToSet(Tail(s)) \union {Head(s)}
<1>1. /\ Head(s) \in S /\ Tail(s) \in Seq(S) /\ Len(Tail(s)) = Len(s) - 1
      /\ \A i \in 1 .. Len(Tail(s)) : Tail(s)[i] = s[i + 1]
  BY HeadTailProperties, Zenon
<1>2. /\ Len(s) \in Nat /\ Len(s) > 0 /\ Head(s) = s[1]
      /\ DOMAIN s = 1 .. Len(s) /\ DOMAIN Tail(s) = 1 .. Len(s) - 1
  BY <1>1, LenProperties, EmptySeq
<1>3. Head(s) \in ToSet(s) /\ ToSet(Tail(s)) \subseteq ToSet(s)
  BY <1>1, <1>2 DEF ToSet
<1>4. ToSet(s) \subseteq ToSet(Tail(s)) \union {Head(s)}
  <2>1. \A i \in DOMAIN s : i = 1 \/ (i - 1 \in DOMAIN Tail(s) /\ s[i] = Tail(s)[i - 1])
    BY <1>1, <1>2
  <2> QED BY <2>1, <1>2 DEF ToSet
<1> QED BY <1>1, <1>2, <1>3, <1>4

(* A set of naturals has a least element. *)
LEMMA LeastElement ==
  ASSUME NEW T \in SUBSET Nat, T # {}
  PROVE  Min(T) \in T
<1>1. PICK x \in T : \A y \in T : ~ (<<y, x>> \in OpToRel(<, Nat))
  BY NatLessThanWellFounded, WFMin, Zenon
<1>2. \A y \in T : x =< y
  <2> TAKE y \in T
  <2>1. x \in Nat /\ y \in Nat
    OBVIOUS
  <2>2. ~ (y < x)
    BY <1>1, <2>1 DEF OpToRel
  <2> QED BY <2>1, <2>2
<1> QED BY <1>2 DEF Min

(* RemoveFirst of an element that occurs: one element less, the others in order. *)
LEMMA FirstRemoved ==
  ASSUME NEW S, NEW s \in Seq(S), NEW e, e \in ToSet(s)
  PROVE  /\ RemoveFirst(s, e) \in Seq(S) /\ Len(RemoveFirst(s, e)) = Len(s) - 1
         /\ \E k \in 1 .. Len(s) :
              /\ s[k] = e
              /\ \A j \in 1 .. Len(s) - 1 :
                   RemoveFirst(s, e)[j] = IF j < k THEN s[j] ELSE s[j + 1]
<1> DEFINE I == {i \in 1 .. Len(s) : s[i] = e}
           k == Min(I)
<1>1. Len(s) \in Nat /\ DOMAIN s = 1 .. Len(s) /\ \A i \in 1 .. Len(s) : s[i] \in S
  BY LenProperties, ElementOfSeq
<1>2. I # {} /\ I \subseteq Nat
  BY <1>1 DEF ToSet
<1>3. k \in I
  BY <1>2, LeastElement
<1>4. RemoveFirst(s, e) = RemoveAt(s, k)
  BY <1>1, <1>2 DEF RemoveFirst, SelectInSeq
<1> HIDE DEF k
<1>5. k \in 1 .. Len(s) /\ s[k] = e
  BY <1>3
<1> HIDE DEF I
<1>6. /\ SubSeq(s, 1, k - 1) \in Seq(S) /\ Len(SubSeq(s, 1, k - 1)) = k - 1
      /\ \A i \in 1 .. k - 1 : SubSeq(s, 1, k - 1)[i] = s[i]
  <2>1. 1 \in Int /\ k - 1 \in Int /\ \A i \in 1 .. k - 1 : s[i] \in S
    BY <1>1, <1>5
  <2>2. /\ SubSeq(s, 1, k - 1) \in Seq(S)
        /\ Len(SubSeq(s, 1, k - 1)) = IF 1 <= k - 1 THEN (k - 1) - 1 + 1 ELSE 0
        /\ \A i \in 1 .. (k - 1) - 1 + 1 : SubSeq(s, 1, k - 1)[i] = s[1 + i - 1]
    BY <2>1, SubSeqProperties
  <2> QED BY <2>2, <1>1, <1>5
<1>7. /\ SubSeq(s, k + 1, Len(s)) \in Seq(S) /\ Len(SubSeq(s, k + 1, Len(s))) = Len(s) - k
      /\ \A i \in 1 .. Len(s) - k : SubSeq(s, k + 1, Len(s))[i] = s[k + i]
  <2>1. k + 1 \in Int /\ Len(s) \in Int /\ \A i \in k + 1 .. Len(s) : s[i] \in S
    BY <1>1, <1>5
  <2>2. /\ SubSeq(s, k + 1, Len(s)) \in Seq(S)
        /\ Len(SubSeq(s, k + 1, Len(s))) = IF k + 1 <= Len(s) THEN Len(s) - (k + 1) + 1 ELSE 0
        /\ \A i \in 1 .. Len(s) - (k + 1) + 1 : SubSeq(s, k + 1, Len(s))[i] = s[k + 1 + i - 1]
    BY <2>1, SubSeqProperties
  <2> QED BY <2>2, <1>1, <1>5
<1> DEFINE before == SubSeq(s, 1, k - 1)
           after  == SubSeq(s, k + 1, Len(s))
<1>8. RemoveAt(s, k) = before \o after
  BY DEF RemoveAt
<1> HIDE DEF before, after
<1>9. /\ before \o after \in Seq(S) /\ Len(before \o after) = Len(before) + Len(after)
      /\ \A i \in 1 .. Len(before) + Len(after) :
           (before \o after)[i] = IF i <= Len(before) THEN before[i] ELSE after[i - Len(before)]
  <2>1. before \in Seq(S) /\ after \in Seq(S)
    BY <1>6, <1>7 DEF before, after
  <2> QED BY <2>1, ConcatProperties
<1>10. Len(before) = k - 1 /\ Len(after) = Len(s) - k
  BY <1>6, <1>7 DEF before, after
<1>11. Len(before \o after) = Len(s) - 1
  BY <1>1, <1>5, <1>9, <1>10
<1>12. ASSUME NEW j \in 1 .. Len(s) - 1
       PROVE  (before \o after)[j] = IF j < k THEN s[j] ELSE s[j + 1]
  <2>1. (before \o after)[j] = IF j <= k - 1 THEN before[j] ELSE after[j - (k - 1)]
    BY <1>1, <1>5, <1>9, <1>10
  <2>2. CASE j < k
    <3>1. before[j] = s[j]
      BY <1>1, <1>5, <1>6, <2>2 DEF before
    <3> QED BY <1>1, <1>5, <2>1, <2>2, <3>1
  <2>3. CASE j >= k
    <3>1. j - (k - 1) \in 1 .. Len(s) - k
      BY <1>1, <1>5, <2>3
    <3>2. after[j - (k - 1)] = s[k + (j - (k - 1))]
      BY <1>7, <3>1 DEF after
    <3>3. k + (j - (k - 1)) = j + 1
      BY <1>1, <1>5
    <3> QED BY <1>1, <1>5, <2>1, <2>3, <3>2, <3>3
  <2>4. j < k \/ j >= k
    BY <1>1, <1>5
  <2> QED BY <2>2, <2>3, <2>4
<1>13. s[k] = e /\ k \in 1 .. Len(s)
  BY <1>5
<1> QED BY <1>4, <1>8, <1>9, <1>11, <1>12, <1>13

(* RemoveFirst of anything. *)
LEMMA MaybeRemoved ==
  ASSUME NEW S, NEW s \in Seq(S), NEW e
  PROVE  /\ RemoveFirst(s, e) \in Seq(S)
         /\ Len(RemoveFirst(s, e)) \in Nat /\ Len(RemoveFirst(s, e)) <= Len(s)
         /\ IsInjective(s) => /\ IsInjective(RemoveFirst(s, e))
                              /\ ToSet(RemoveFirst(s, e)) = ToSet(s) \ {e}
<1>1. Len(s) \in Nat /\ DOMAIN s = 1 .. Len(s)
  BY LenProperties
<1>2. CASE e \notin ToSet(s)
  <2>1. RemoveFirst(s, e) = s
    BY <1>1, <1>2 DEF RemoveFirst, ToSet
  <2>2. ToSet(s) = ToSet(s) \ {e}
    BY <1>2
  <2> QED BY <1>1, <2>1, <2>2
<1>3. CASE e \in ToSet(s)
  <2> DEFINE r == RemoveFirst(s, e)
  <2>1. r \in Seq(S) /\ Len(r) = Len(s) - 1
    BY <1>3, FirstRemoved
  <2>2. PICK k \in 1 .. Len(s) :
          s[k] = e /\ \A j \in 1 .. Len(s) - 1 : r[j] = IF j < k THEN s[j] ELSE s[j + 1]
    BY <1>3, FirstRemoved
  <2> HIDE DEF r
  <2>3. DOMAIN r = 1 .. Len(s) - 1 /\ Len(r) \in Nat
    BY <2>1, LenProperties
  <2>4. ASSUME IsInjective(s) PROVE IsInjective(r)
    <3>1. SUFFICES ASSUME NEW i \in 1 .. Len(s) - 1, NEW j \in 1 .. Len(s) - 1, r[i] = r[j]
                   PROVE  i = j
      BY <2>3 DEF IsInjective
    <3> DEFINE at(n) == IF n < k THEN n ELSE n + 1
    <3>2. \A n \in 1 .. Len(s) - 1 : at(n) \in 1 .. Len(s) /\ r[n] = s[at(n)]
      BY <1>1, <2>2
    <3>3. at(i) = at(j)
      <4> HIDE DEF at
      <4> QED BY <1>1, <2>4, <3>1, <3>2 DEF IsInjective
    <3> QED BY <1>1, <3>3
  <2>5. ASSUME IsInjective(s) PROVE ToSet(r) \subseteq ToSet(s) \ {e}
    BY <1>1, <2>2, <2>3, <2>5 DEF IsInjective, ToSet
  <2>6. ToSet(s) \ {e} \subseteq ToSet(r)
    <3>1. SUFFICES ASSUME NEW i \in 1 .. Len(s), s[i] # e PROVE s[i] \in ToSet(r)
      BY <1>1 DEF ToSet
    <3>2. CASE i < k
      <4>1. i \in DOMAIN r /\ r[i] = s[i]
        BY <1>1, <2>2, <2>3, <3>2
      <4> QED BY <4>1 DEF ToSet
    <3>3. CASE i > k
      <4>1. i - 1 \in DOMAIN r /\ r[i - 1] = s[i]
        BY <1>1, <2>2, <2>3, <3>3
      <4> QED BY <4>1 DEF ToSet
    <3>4. i # k
      BY <2>2, <3>1
    <3> QED BY <1>1, <3>2, <3>3, <3>4
  <2> QED BY <1>1, <2>1, <2>3, <2>4, <2>5, <2>6 DEF r
<1> QED BY <1>2, <1>3

-----------------------------------------------------------------------------
(* What receiving and sending do to the queues. *)

QueuesTyped(q) == q \in [Component -> Seq(AllCommands)]
                  /\ \A c \in Component : Len(q[c]) < MAX_QUEUE_ELEMENTS

LEMMA ReceivedOne ==
  ASSUME QueuesTyped(messageQ), NEW c \in Component, NEW k, Received(c, k)
  PROVE  /\ k \in AllCommands /\ k \in ToSet(messageQ[c])
         /\ QueuesTyped(messageQ')
         /\ \A d \in Component : ToSet(messageQ'[d]) \subseteq ToSet(messageQ[d])
<1>1. messageQ[c] \in Seq(AllCommands) /\ messageQ[c] # <<>> /\ k = Head(messageQ[c])
  BY DEF QueuesTyped, Received, Receives
<1>2. /\ k \in AllCommands /\ k \in ToSet(messageQ[c])
      /\ Tail(messageQ[c]) \in Seq(AllCommands) /\ Len(messageQ[c]) \in Nat
      /\ Len(Tail(messageQ[c])) = Len(messageQ[c]) - 1
      /\ ToSet(Tail(messageQ[c])) \subseteq ToSet(messageQ[c])
  BY <1>1, FirstTaken
<1>3. /\ messageQ' \in [Component -> Seq(AllCommands)]
      /\ messageQ'[c] = Tail(messageQ[c])
      /\ \A d \in Component \ {c} : messageQ'[d] = messageQ[d]
  BY <1>2 DEF QueuesTyped, Received
<1>4. ASSUME NEW d \in Component
      PROVE  Len(messageQ'[d]) < MAX_QUEUE_ELEMENTS /\ ToSet(messageQ'[d]) \subseteq ToSet(messageQ[d])
  <2>1. MAX_QUEUE_ELEMENTS \in Nat /\ Len(messageQ[d]) < MAX_QUEUE_ELEMENTS
    BY OmxLifecycleAssumption DEF QueuesTyped
  <2>2. CASE d = c
    <3>1. Len(messageQ'[d]) < MAX_QUEUE_ELEMENTS
      BY <1>2, <1>3, <2>1, <2>2
    <3>2. ToSet(messageQ'[d]) \subseteq ToSet(messageQ[d])
      BY <1>2, <1>3, <2>2
    <3> QED BY <3>1, <3>2
  <2>3. CASE d # c
    BY <1>3, <2>1, <2>3
  <2> QED BY <2>2, <2>3
<1> QED BY <1>2, <1>3, <1>4 DEF QueuesTyped

(* Receiving from one queue and sending to another, or to the same. *)
LEMMA ReceivedAndSent ==
  ASSUME QueuesTyped(messageQ), NEW c \in Component, NEW k, NEW d \in Component,
         NEW m \in AllCommands, ReceivedSending(c, k, d, m)
  PROVE  /\ k \in AllCommands /\ k \in ToSet(messageQ[c])
         /\ QueuesTyped(messageQ')
         /\ \A e \in Component : ToSet(messageQ'[e]) \subseteq ToSet(messageQ[e]) \union {m}
<1> DEFINE q == [messageQ EXCEPT ![c] = Tail(@)]
<1>1. messageQ[c] \in Seq(AllCommands) /\ messageQ[c] # <<>> /\ k = Head(messageQ[c])
  BY DEF QueuesTyped, ReceivedSending, Receives
<1>2. /\ k \in AllCommands /\ k \in ToSet(messageQ[c])
      /\ Tail(messageQ[c]) \in Seq(AllCommands) /\ Len(messageQ[c]) \in Nat
      /\ Len(Tail(messageQ[c])) = Len(messageQ[c]) - 1
      /\ ToSet(Tail(messageQ[c])) \subseteq ToSet(messageQ[c])
  BY <1>1, FirstTaken
<1>3. /\ q \in [Component -> Seq(AllCommands)]
      /\ q[c] = Tail(messageQ[c])
      /\ \A e \in Component \ {c} : q[e] = messageQ[e]
  BY <1>2 DEF QueuesTyped
<1>4. ASSUME NEW e \in Component
      PROVE  Len(q[e]) < MAX_QUEUE_ELEMENTS /\ ToSet(q[e]) \subseteq ToSet(messageQ[e])
  BY <1>2, <1>3, OmxLifecycleAssumption DEF QueuesTyped
<1>5. messageQ' = [q EXCEPT ![d] = IF Queueable(q[d]) THEN Append(q[d], m) ELSE q[d]]
  BY DEF ReceivedSending
<1> HIDE DEF q
<1>6. /\ q[d] \in Seq(AllCommands) /\ Len(q[d]) \in Nat
      /\ Append(q[d], m) \in Seq(AllCommands) /\ Len(Append(q[d], m)) = Len(q[d]) + 1
      /\ ToSet(Append(q[d], m)) = ToSet(q[d]) \union {m}
  BY <1>3, Appended, LenProperties
<1>7. /\ messageQ' \in [Component -> Seq(AllCommands)]
      /\ messageQ'[d] = IF Queueable(q[d]) THEN Append(q[d], m) ELSE q[d]
      /\ \A e \in Component \ {d} : messageQ'[e] = q[e]
  BY <1>3, <1>5, <1>6
<1>8. ASSUME NEW e \in Component
      PROVE  /\ Len(messageQ'[e]) < MAX_QUEUE_ELEMENTS
             /\ ToSet(messageQ'[e]) \subseteq ToSet(messageQ[e]) \union {m}
  <2>1. CASE e = d
    <3>1. MAX_QUEUE_ELEMENTS \in Nat /\ Len(q[d]) < MAX_QUEUE_ELEMENTS
          /\ ToSet(q[d]) \subseteq ToSet(messageQ[d])
      BY <1>4, OmxLifecycleAssumption
    <3>2. CASE Queueable(q[d])
      <4>1. Len(messageQ'[d]) < MAX_QUEUE_ELEMENTS
        BY <1>6, <1>7, <3>1, <3>2 DEF Queueable
      <4> QED BY <1>6, <1>7, <2>1, <3>1, <3>2, <4>1
    <3>3. CASE ~Queueable(q[d])
      BY <1>7, <2>1, <3>1, <3>3
    <3> QED BY <3>2, <3>3
  <2>2. CASE e # d
    BY <1>4, <1>7, <2>2
  <2> QED BY <2>1, <2>2
<1> QED BY <1>2, <1>7, <1>8 DEF QueuesTyped

LEMMA PortStateNowTyped ==
  ASSUME NEW c \in Component, NEW k, portState \in PerPort({"Loaded", "Idle", "Invalid"})
  PROVE  PortStateNow(c, k) \in [Port -> {"Loaded", "Idle", "Invalid"}]
BY DEF PortStateNow, PerPort

(* The parameters of commands. *)
LEMMA CommandParts ==
  ASSUME NEW k \in AllCommands
  PROVE  /\ k.type = "StateSet" => k.param \in State
         /\ k.type \in {"PortEnable", "PortDisable"} => k.param \in Port \union {ALL_PORT_INDEX}
BY DEF AllCommands, StateSet, PortEnable, PortDisable

LEMMA IdleAndLoadedAreCommands == StateSet("Idle") \in AllCommands /\ StateSet("Loaded") \in AllCommands
BY DEF AllCommands, State

-----------------------------------------------------------------------------
(* Type correctness.  The parts of TypeOK that a step may touch. *)

ListsTyped == gpVideoRMComponentList \in Seq(Component) /\ gpVideoRMWaitingList \in Seq(Component)
PortsTyped ==
  /\ bEnabled \in PerPort(BOOLEAN) /\ bPopulated \in PerPort(BOOLEAN)
  /\ assignedBufferNum \in PerPort(0 .. nBufferCountActual)
  /\ loadedResource \in PerPort(Nat) /\ unloadedResource \in PerPort(Nat)
Labels == {"message", "load", "init", "terminate", "unload", "invalidate",
           "enable", "enable_wait", "disable", "disable_wait", "spin", "stuck"}
ThreadsTyped ==
  /\ pc \in [Component -> Labels]
  /\ port \in [Component -> Port]
  /\ nPortIndex \in [Component -> Port \union {ALL_PORT_INDEX}]
StatesTyped == currentState \in [Component -> State]
PortStatesTyped == portState \in PerPort({"Loaded", "Idle", "Invalid"})
CodecsTyped == hBufferProcess \in [Component -> BOOLEAN] /\ hMFCHandle \in [Component -> BOOLEAN]

LEMMA TypeParts ==
  TypeOK <=> /\ groupPriority \in Priorities
             /\ ListsTyped /\ QueuesTyped(messageQ) /\ StatesTyped /\ PortStatesTyped
             /\ PortsTyped /\ CodecsTyped /\ ThreadsTyped
BY Zenon DEF TypeOK, ListsTyped, QueuesTyped, StatesTyped, PortStatesTyped, PortsTyped,
             CodecsTyped, ThreadsTyped, Labels

(* The same for the next state. *)
LEMMA TypePartsNext ==
  /\ groupPriority' \in Priorities
  /\ ListsTyped' /\ QueuesTyped(messageQ') /\ StatesTyped' /\ PortStatesTyped'
  /\ PortsTyped' /\ CodecsTyped' /\ ThreadsTyped'
  => TypeOK'
BY Zenon DEF TypeOK, ListsTyped, QueuesTyped, StatesTyped, PortStatesTyped, PortsTyped,
             CodecsTyped, ThreadsTyped, Labels

(* Functions of components and ports, updated at one place or not at all. *)
LEMMA PortUpdated ==
  ASSUME NEW S, NEW f \in PerPort(S), NEW c \in Component, NEW p \in Port
  PROVE  f[c][p] \in S /\ \A v \in S : [f EXCEPT ![c][p] = v] \in PerPort(S)
BY DEF PerPort

LEMMA PortMaybeUpdated ==
  ASSUME NEW S, NEW f \in PerPort(S), NEW c \in Component, NEW p \in Port, NEW v \in S,
         NEW g, g = f \/ g = [f EXCEPT ![c][p] = v]
  PROVE  g \in PerPort(S)
BY DEF PerPort

(* The handler's program point and port. *)
LEMMA NextPortTyped ==
  ASSUME ThreadsTyped, NEW c \in Component, NEW label \in Labels, NEW last \in Labels,
         NextPort(c, label, last)
  PROVE  pc' \in [Component -> Labels] /\ port' \in [Component -> Port]
<1>1. nPorts \in Nat \ {0}
  BY OmxLifecycleAssumption
<1> QED BY <1>1 DEF ThreadsTyped, NextPort, Goto, Port

LEMMA PortDoneTyped ==
  ASSUME ThreadsTyped, NEW c \in Component, NEW label \in Labels, PortDone(c, label)
  PROVE  pc' \in [Component -> Labels] /\ port' \in [Component -> Port]
<1>1. "message" \in Labels
  BY DEF Labels
<1>2. CASE NextPort(c, label, "message")
  BY <1>1, <1>2, NextPortTyped
<1>3. CASE Goto(c, "message") /\ UNCHANGED port
  BY <1>1, <1>3 DEF ThreadsTyped, Goto
<1> QED BY <1>2, <1>3 DEF PortDone

(* What a release does to the lists, queues and ports. *)
LEMMA ReleasedTyped ==
  ASSUME TypeOK, NEW c \in Component, NEW k, ReleaseResource(c, k)
  PROVE  /\ k \in AllCommands /\ k \in ToSet(messageQ[c])
         /\ ListsTyped' /\ QueuesTyped(messageQ') /\ PortStatesTyped'
         /\ \A e \in Component :
              ToSet(messageQ'[e]) \subseteq ToSet(messageQ[e]) \union {StateSet("Idle")}
<1> USE TypeParts
<1>1. gpVideoRMComponentList' \in Seq(Component)
  BY MaybeRemoved DEF ListsTyped, ReleaseResource
<1>2. CASE /\ Received(c, k) /\ UNCHANGED portState
           /\ gpVideoRMWaitingList' \in Seq(Component)
  BY <1>1, <1>2, ReceivedOne DEF ListsTyped, PortStatesTyped
<1>3. ASSUME ReleasesEntry(c), gpVideoRMWaitingList # <<>>
      PROVE  /\ gpVideoRMWaitingList' \in Seq(Component)
             /\ Head(gpVideoRMWaitingList) \in Component
             /\ \/ Received(c, k) /\ UNCHANGED portState
                \/ ReceivedSending(c, k, Head(gpVideoRMWaitingList), StateSet("Idle"))
  <2>1. Head(gpVideoRMWaitingList) \in Component /\ Tail(gpVideoRMWaitingList) \in Seq(Component)
    BY <1>3, FirstTaken DEF ListsTyped
  <2> QED BY <1>3, <2>1 DEF ReleaseResource
<1>4. ASSUME NEW w \in Component, ReceivedSending(c, k, w, StateSet("Idle")),
             gpVideoRMWaitingList' \in Seq(Component)
      PROVE  /\ k \in AllCommands /\ k \in ToSet(messageQ[c])
             /\ ListsTyped' /\ QueuesTyped(messageQ') /\ PortStatesTyped'
             /\ \A e \in Component :
                  ToSet(messageQ'[e]) \subseteq ToSet(messageQ[e]) \union {StateSet("Idle")}
  <2>1. PortStatesTyped'
    BY <1>4, PortStateNowTyped DEF ReceivedSending, PortStatesTyped, PerPort
  <2> QED BY <1>1, <1>4, <2>1, ReceivedAndSent, IdleAndLoadedAreCommands DEF ListsTyped
<1>5. CASE ReleasesEntry(c) /\ gpVideoRMWaitingList # <<>>
  BY <1>2, <1>3, <1>4, <1>5
<1>6. CASE ~(ReleasesEntry(c) /\ gpVideoRMWaitingList # <<>>)
  BY <1>2, <1>6 DEF ReleaseResource, ListsTyped
<1> QED BY <1>5, <1>6

LEMMA InitType == Init => TypeOK
<1> SUFFICES ASSUME Init PROVE TypeOK
  OBVIOUS
<1>1. ListsTyped /\ QueuesTyped(messageQ)
  BY OmxLifecycleAssumption, EmptySeq DEF Init, ListsTyped, QueuesTyped
<1>2. StatesTyped /\ PortStatesTyped /\ CodecsTyped
  BY DEF Init, StatesTyped, PortStatesTyped, CodecsTyped, State, PerPort
<1>3. PortsTyped /\ ThreadsTyped
  BY OmxLifecycleAssumption DEF Init, PortsTyped, ThreadsTyped, PerPort, Labels, Port
<1> QED BY <1>1, <1>2, <1>3, TypeParts DEF Init

LEMMA ClientType ==
  ASSUME TypeOK, NEW c \in Component, Client(c)
  PROVE  TypeOK'
<1> USE TypeParts
<1>1. ASSUME NEW k \in Commands, SendCommand(c, k) PROVE TypeOK'
  <2>1. QueuesTyped(messageQ')
    <3>1. k \in AllCommands
      BY OmxLifecycleAssumption
    <3>2. /\ messageQ[c] \in Seq(AllCommands) /\ Len(messageQ[c]) \in Nat
          /\ Append(messageQ[c], k) \in Seq(AllCommands)
          /\ Len(Append(messageQ[c], k)) = Len(messageQ[c]) + 1
      BY <3>1, Appended, LenProperties DEF QueuesTyped
    <3>3. CASE UNCHANGED messageQ
      BY <3>3 DEF QueuesTyped
    <3>4. CASE Queueable(messageQ[c]) /\ messageQ' = [messageQ EXCEPT ![c] = Append(@, k)]
      <4>1. Len(Append(messageQ[c], k)) < MAX_QUEUE_ELEMENTS
        BY <3>2, <3>4, OmxLifecycleAssumption DEF Queueable
      <4> QED BY <3>2, <3>4, <4>1 DEF QueuesTyped
    <3> QED BY <1>1, <3>3, <3>4 DEF SendCommand
  <2>2. PortStatesTyped'
    BY <1>1, PortStateNowTyped DEF SendCommand, PortStatesTyped, PerPort
  <2> QED BY <1>1, <2>1, <2>2, TypePartsNext
          DEF Client, SendCommand, rmVars, portVars, codecVars, threadVars,
              ListsTyped, StatesTyped, PortsTyped, CodecsTyped, ThreadsTyped
<1>2. ASSUME NEW p \in Port, BufferAssigned(c, p) PROVE TypeOK'
  <2>1. PortsTyped'
    <3>1. /\ assignedBufferNum[c][p] + 1 \in 0 .. nBufferCountActual
          /\ loadedResource[c][p] + 1 \in Nat /\ TRUE \in BOOLEAN
      <4>1. assignedBufferNum[c][p] \in 0 .. nBufferCountActual
        BY PortUpdated DEF PortsTyped
      <4>2. loadedResource[c][p] \in Nat
        BY PortUpdated DEF PortsTyped
      <4> QED BY <1>2, <4>1, <4>2, OmxLifecycleAssumption DEF BufferAssigned
    <3>2. assignedBufferNum' \in PerPort(0 .. nBufferCountActual)
      BY <1>2, <3>1, PortUpdated DEF BufferAssigned, PortsTyped
    <3>3. bPopulated' \in PerPort(BOOLEAN)
      <4>1. bPopulated' = [bPopulated EXCEPT ![c][p] = TRUE] \/ bPopulated' = bPopulated
        BY <1>2 DEF BufferAssigned
      <4> QED BY <4>1, <3>1, PortMaybeUpdated DEF PortsTyped
    <3>4. loadedResource' \in PerPort(Nat)
      <4>1. \/ loadedResource' = [loadedResource EXCEPT ![c][p] = loadedResource[c][p] + 1]
            \/ loadedResource' = loadedResource
        BY <1>2 DEF BufferAssigned
      <4> QED BY <4>1, <3>1, PortMaybeUpdated DEF PortsTyped
    <3> QED BY <1>2, <3>2, <3>3, <3>4 DEF BufferAssigned, PortsTyped
  <2> QED BY <1>2, <2>1, TypePartsNext
          DEF Client, BufferAssigned, rmVars, codecVars, threadVars,
              ListsTyped, QueuesTyped, StatesTyped, PortStatesTyped, CodecsTyped, ThreadsTyped
<1>3. ASSUME NEW p \in Port, FreeBuffer(c, p) PROVE TypeOK'
  <2>1. PortsTyped'
    <3>1. /\ assignedBufferNum[c][p] - 1 \in 0 .. nBufferCountActual
          /\ unloadedResource[c][p] + 1 \in Nat /\ FALSE \in BOOLEAN
      <4>1. assignedBufferNum[c][p] \in 0 .. nBufferCountActual
        BY PortUpdated DEF PortsTyped
      <4>2. unloadedResource[c][p] \in Nat
        BY PortUpdated DEF PortsTyped
      <4> QED BY <1>3, <4>1, <4>2, OmxLifecycleAssumption DEF FreeBuffer
    <3>2. assignedBufferNum' \in PerPort(0 .. nBufferCountActual)
      BY <1>3, <3>1, PortUpdated DEF FreeBuffer, PortsTyped
    <3>3. bPopulated' \in PerPort(BOOLEAN)
      <4>1. bPopulated' = [bPopulated EXCEPT ![c][p] = FALSE] \/ bPopulated' = bPopulated
        BY <1>3 DEF FreeBuffer
      <4> QED BY <4>1, <3>1, PortMaybeUpdated DEF PortsTyped
    <3>4. unloadedResource' \in PerPort(Nat)
      <4>1. \/ unloadedResource' = [unloadedResource EXCEPT ![c][p] = unloadedResource[c][p] + 1]
            \/ unloadedResource' = unloadedResource
        BY <1>3 DEF FreeBuffer
      <4> QED BY <4>1, <3>1, PortMaybeUpdated DEF PortsTyped
    <3> QED BY <1>3, <3>2, <3>3, <3>4 DEF FreeBuffer, PortsTyped
  <2> QED BY <1>3, <2>1, TypePartsNext
          DEF Client, FreeBuffer, rmVars, codecVars, threadVars,
              ListsTyped, QueuesTyped, StatesTyped, PortStatesTyped, CodecsTyped, ThreadsTyped
<1> QED BY <1>1, <1>2, <1>3 DEF Client, UseBuffer, AllocateBuffer

(* One step per action, under it one per part of the state it touches. *)
LEMMA HandlerType ==
  ASSUME TypeOK, NEW c \in Component, Handler(c)
  PROVE  TypeOK'
<1> USE TypeParts DEF rmVars, portVars, codecVars, threadVars
<1>0. groupPriority' = groupPriority
  BY DEF Handler
<1>1. ASSUME NEW k \in AllCommands, StateSetPlain(c, k)
      PROVE  TypeOK'
  <2>1. QueuesTyped(messageQ') /\ k \in AllCommands
    BY <1>1, ReceivedOne DEF StateSetPlain
  <2>2. StatesTyped'
    BY <1>1 DEF StateSetPlain, PlainTransition, StatesTyped, State
  <2> QED BY <1>0, <1>1, <2>1, <2>2, TypePartsNext
          DEF StateSetPlain,
              ListsTyped, StatesTyped, PortStatesTyped, PortsTyped, CodecsTyped, ThreadsTyped
<1>2. ASSUME NEW k \in AllCommands, StateSetRefused(c, k)
      PROVE  TypeOK'
  <2>1. QueuesTyped(messageQ') /\ k \in AllCommands
    BY <1>2, ReceivedOne DEF StateSetRefused
  <2> QED BY <1>0, <1>2, <2>1, TypePartsNext
          DEF StateSetRefused,
              ListsTyped, StatesTyped, PortStatesTyped, PortsTyped, CodecsTyped, ThreadsTyped
<1>3. ASSUME NEW k \in AllCommands, EnableReceived(c, k)
      PROVE  TypeOK'
  <2>1. QueuesTyped(messageQ') /\ k \in AllCommands
    BY <1>3, ReceivedOne DEF EnableReceived
  <2>2. k.param \in Port \union {ALL_PORT_INDEX}
    BY <1>3, <2>1, CommandParts DEF EnableReceived
  <2>3. PICK label \in {"enable"} : StartAt(c, k.param, label)
    BY <1>3 DEF EnableReceived
  <2>4. ThreadsTyped'
    <3>1. 0 \in Port
      BY OmxLifecycleAssumption DEF Port
    <3> QED BY <2>2, <2>3, <3>1 DEF StartAt, Goto, ThreadsTyped, Labels
  <2> QED BY <1>0, <1>3, <2>1, <2>2, <2>3, <2>4, TypePartsNext
          DEF EnableReceived,
              ListsTyped, StatesTyped, PortStatesTyped, PortsTyped, CodecsTyped, ThreadsTyped
<1>4. ASSUME NEW k \in AllCommands, DisableReceived(c, k)
      PROVE  TypeOK'
  <2>1. QueuesTyped(messageQ') /\ k \in AllCommands
    BY <1>4, ReceivedOne DEF DisableReceived
  <2>2. k.param \in Port \union {ALL_PORT_INDEX}
    BY <1>4, <2>1, CommandParts DEF DisableReceived
  <2>3. PICK label \in {"disable", "spin", "stuck"} : StartAt(c, k.param, label)
    BY <1>4 DEF DisableReceived
  <2>4. ThreadsTyped'
    <3>1. 0 \in Port
      BY OmxLifecycleAssumption DEF Port
    <3> QED BY <2>2, <2>3, <3>1 DEF StartAt, Goto, ThreadsTyped, Labels
  <2> QED BY <1>0, <1>4, <2>1, <2>2, <2>3, <2>4, TypePartsNext
          DEF DisableReceived,
              ListsTyped, StatesTyped, PortStatesTyped, PortsTyped, CodecsTyped, ThreadsTyped
<1>5. ASSUME WaitForResources(c)
      PROVE  TypeOK'
  <2>1. QueuesTyped(messageQ')
    BY <1>5, ReceivedOne DEF WaitForResources
  <2>2. gpVideoRMWaitingList' \in Seq(Component)
    BY <1>5, Appended DEF WaitForResources, ListsTyped
  <2>3. StatesTyped'
    BY <1>5 DEF WaitForResources, StatesTyped, State
  <2> QED BY <1>0, <1>5, <2>1, <2>2, <2>3, TypePartsNext
          DEF WaitForResources,
              ListsTyped, StatesTyped, PortStatesTyped, PortsTyped, CodecsTyped, ThreadsTyped
<1>6. ASSUME StopWaiting(c)
      PROVE  TypeOK'
  <2>1. QueuesTyped(messageQ')
    BY <1>6, ReceivedOne DEF StopWaiting
  <2>2. gpVideoRMWaitingList' \in Seq(Component)
    BY <1>6, MaybeRemoved DEF StopWaiting, ListsTyped
  <2>3. StatesTyped'
    BY <1>6 DEF StopWaiting, StatesTyped, State
  <2> QED BY <1>0, <1>6, <2>1, <2>2, <2>3, TypePartsNext
          DEF StopWaiting,
              ListsTyped, StatesTyped, PortStatesTyped, PortsTyped, CodecsTyped, ThreadsTyped
<1>7. ASSUME GetResource(c)
      PROVE  TypeOK'
  <2>1. QueuesTyped(messageQ')
    BY <1>7, ReceivedOne DEF GetResource
  <2>2. gpVideoRMComponentList' \in Seq(Component)
    BY <1>7, Appended DEF GetResource, ListsTyped
  <2>3. ThreadsTyped'
    <3>1. 0 \in Port /\ "load" \in Labels
      BY OmxLifecycleAssumption DEF Port, Labels
    <3> QED BY <1>7, <3>1 DEF GetResource, Enter, Goto, ThreadsTyped
  <2> QED BY <1>0, <1>7, <2>1, <2>2, <2>3, TypePartsNext
          DEF GetResource,
              ListsTyped, StatesTyped, PortStatesTyped, PortsTyped, CodecsTyped, ThreadsTyped
<1>8. ASSUME NEW v \in Component, EvictAndGetResource(c, v)
      PROVE  TypeOK'
  <2>1. QueuesTyped(messageQ') /\ PortStatesTyped'
    <3>1. CASE Received(c, StateSet("Idle")) /\ UNCHANGED portState
      BY <3>1, ReceivedOne DEF PortStatesTyped
    <3>2. CASE ReceivedSending(c, StateSet("Idle"), v, StateSet("Loaded"))
      <4>1. PortStatesTyped'
        BY <3>2, PortStateNowTyped DEF ReceivedSending, PortStatesTyped, PerPort
      <4> QED BY <3>2, <4>1, ReceivedAndSent, IdleAndLoadedAreCommands
    <3> QED BY <1>8, <3>1, <3>2 DEF EvictAndGetResource
  <2>2. gpVideoRMComponentList' \in Seq(Component)
    <3>1. RemoveFirst(gpVideoRMComponentList, v) \in Seq(Component)
      BY MaybeRemoved DEF ListsTyped
    <3> QED BY <1>8, <3>1, Appended DEF EvictAndGetResource
  <2>3. ThreadsTyped'
    <3>1. 0 \in Port /\ "load" \in Labels
      BY OmxLifecycleAssumption DEF Port, Labels
    <3> QED BY <1>8, <3>1 DEF EvictAndGetResource, Enter, Goto, ThreadsTyped
  <2> QED BY <1>0, <1>8, <2>1, <2>2, <2>3, TypePartsNext
          DEF EvictAndGetResource,
              ListsTyped, StatesTyped, PortStatesTyped, PortsTyped, CodecsTyped, ThreadsTyped
<1>9. ASSUME GetResourceRefused(c)
      PROVE  TypeOK'
  <2>1. QueuesTyped(messageQ')
    BY <1>9, ReceivedOne DEF GetResourceRefused
  <2> QED BY <1>0, <1>9, <2>1, TypePartsNext
          DEF GetResourceRefused,
              ListsTyped, StatesTyped, PortStatesTyped, PortsTyped, CodecsTyped, ThreadsTyped
<1>10. ASSUME LoadPort(c)
      PROVE  TypeOK'
  <2>1. port[c] \in Port
    BY DEF ThreadsTyped
  <2>2. bPopulated' \in PerPort(BOOLEAN)
    <3>1. \/ bPopulated' = bPopulated
          \/ bPopulated' = [bPopulated EXCEPT ![c][port[c]] = TRUE]
      BY <1>10 DEF LoadPort
    <3> QED BY <2>1, <3>1, PortMaybeUpdated DEF PortsTyped
  <2>3. loadedResource' \in PerPort(Nat)
    <3>1. \/ loadedResource' = loadedResource
          \/ /\ loadedResource[c][port[c]] > 0
             /\ loadedResource' = [loadedResource EXCEPT ![c][port[c]] = loadedResource[c][port[c]] - 1]
      BY <1>10 DEF LoadPort, WaitFor
    <3>2. loadedResource[c][port[c]] \in Nat
      BY <2>1, PortUpdated DEF PortsTyped
    <3>3. CASE loadedResource[c][port[c]] > 0
      <4>1. loadedResource[c][port[c]] - 1 \in Nat
        BY <3>2, <3>3
      <4> QED BY <2>1, <3>1, <4>1, PortMaybeUpdated DEF PortsTyped
    <3>4. CASE loadedResource' = loadedResource
      BY <3>4 DEF PortsTyped
    <3> QED BY <3>1, <3>3, <3>4
  <2>4. pc' \in [Component -> Labels] /\ port' \in [Component -> Port]
    <3>1. "load" \in Labels /\ "init" \in Labels
      BY DEF Labels
    <3> QED BY <1>10, <3>1, NextPortTyped DEF LoadPort
  <2> QED BY <1>0, <1>10, <2>1, <2>2, <2>3, <2>4, TypePartsNext
          DEF LoadPort, QueuesTyped,
              ListsTyped, StatesTyped, PortStatesTyped, PortsTyped, CodecsTyped, ThreadsTyped
<1>11. ASSUME InitDone(c)
      PROVE  TypeOK'
  <2>1. pc' \in [Component -> Labels]
    BY <1>11 DEF InitDone, Goto, ThreadsTyped, Labels
  <2>2. CodecsTyped'
    BY <1>11 DEF InitDone, CodecsTyped
  <2>3. StatesTyped'
    BY <1>11 DEF InitDone, StatesTyped, State
  <2> QED BY <1>0, <1>11, <2>1, <2>2, <2>3, TypePartsNext
          DEF InitDone, QueuesTyped,
              ListsTyped, StatesTyped, PortStatesTyped, PortsTyped, CodecsTyped, ThreadsTyped
<1>12. ASSUME InitFailed(c)
      PROVE  TypeOK'
  <2>1. pc' \in [Component -> Labels]
    BY <1>12 DEF InitFailed, Goto, ThreadsTyped, Labels
  <2>2. CodecsTyped'
    BY <1>12 DEF InitFailed, CodecsTyped
  <2> QED BY <1>0, <1>12, <2>1, <2>2, TypePartsNext
          DEF InitFailed, QueuesTyped,
              ListsTyped, StatesTyped, PortStatesTyped, PortsTyped, CodecsTyped, ThreadsTyped
<1>13. ASSUME ReleaseForLoaded(c)
      PROVE  TypeOK'
  <2>1. QueuesTyped(messageQ') /\ ListsTyped' /\ PortStatesTyped'
    BY <1>13, ReleasedTyped DEF ReleaseForLoaded
  <2>2. ThreadsTyped'
    <3>1. 0 \in Port /\ "terminate" \in Labels
      BY OmxLifecycleAssumption DEF Port, Labels
    <3> QED BY <1>13, <3>1 DEF ReleaseForLoaded, Enter, Goto, ThreadsTyped
  <2> QED BY <1>0, <1>13, <2>1, <2>2, TypePartsNext
          DEF ReleaseForLoaded,
              ListsTyped, StatesTyped, PortStatesTyped, PortsTyped, CodecsTyped, ThreadsTyped
<1>14. ASSUME Terminate(c)
      PROVE  TypeOK'
  <2>1. pc' \in [Component -> Labels]
    BY <1>14 DEF Terminate, Goto, ThreadsTyped, Labels
  <2>2. CodecsTyped'
    BY <1>14 DEF Terminate, CodecsTyped
  <2> QED BY <1>0, <1>14, <2>1, <2>2, TypePartsNext
          DEF Terminate, QueuesTyped,
              ListsTyped, StatesTyped, PortStatesTyped, PortsTyped, CodecsTyped, ThreadsTyped
<1>15. ASSUME UnloadPort(c)
      PROVE  TypeOK'
  <2>1. port[c] \in Port
    BY DEF ThreadsTyped
  <2>2. bPopulated' \in PerPort(BOOLEAN)
    <3>1. \/ bPopulated' = bPopulated
          \/ bPopulated' = [bPopulated EXCEPT ![c][port[c]] = FALSE]
      BY <1>15 DEF UnloadPort
    <3> QED BY <2>1, <3>1, PortMaybeUpdated DEF PortsTyped
  <2>3. unloadedResource' \in PerPort(Nat)
    <3>1. \/ unloadedResource' = unloadedResource
          \/ /\ unloadedResource[c][port[c]] > 0
             /\ unloadedResource' = [unloadedResource EXCEPT ![c][port[c]] = unloadedResource[c][port[c]] - 1]
      BY <1>15 DEF UnloadPort, WaitFor
    <3>2. unloadedResource[c][port[c]] \in Nat
      BY <2>1, PortUpdated DEF PortsTyped
    <3>3. CASE unloadedResource[c][port[c]] > 0
      <4>1. unloadedResource[c][port[c]] - 1 \in Nat
        BY <3>2, <3>3
      <4> QED BY <2>1, <3>1, <4>1, PortMaybeUpdated DEF PortsTyped
    <3>4. CASE unloadedResource' = unloadedResource
      BY <3>4 DEF PortsTyped
    <3> QED BY <3>1, <3>3, <3>4
  <2>4. pc' \in [Component -> Labels] /\ port' \in [Component -> Port]
    <3>1. "unload" \in Labels /\ "message" \in Labels
      BY DEF Labels
    <3> QED BY <1>15, <3>1, NextPortTyped DEF UnloadPort
  <2>5. StatesTyped'
    BY <1>15 DEF UnloadPort, StatesTyped, State
  <2> QED BY <1>0, <1>15, <2>1, <2>2, <2>3, <2>4, <2>5, TypePartsNext
          DEF UnloadPort, QueuesTyped,
              ListsTyped, StatesTyped, PortStatesTyped, PortsTyped, CodecsTyped, ThreadsTyped
<1>16. ASSUME ReleaseForInvalid(c)
      PROVE  TypeOK'
  <2>1. QueuesTyped(messageQ') /\ ListsTyped' /\ PortStatesTyped'
    <3>1. CASE ReleaseResource(c, StateSet("Invalid"))
      BY <3>1, ReleasedTyped
    <3>2. CASE Received(c, StateSet("Invalid")) /\ UNCHANGED <<rmVars, portState>>
      BY <3>2, ReceivedOne DEF ListsTyped, PortStatesTyped
    <3> QED BY <1>16, <3>1, <3>2 DEF ReleaseForInvalid
  <2>2. ThreadsTyped'
    <3>1. 0 \in Port /\ "invalidate" \in Labels
      BY OmxLifecycleAssumption DEF Port, Labels
    <3> QED BY <1>16, <3>1 DEF ReleaseForInvalid, Enter, Goto, ThreadsTyped
  <2> QED BY <1>0, <1>16, <2>1, <2>2, TypePartsNext
          DEF ReleaseForInvalid,
              ListsTyped, StatesTyped, PortStatesTyped, PortsTyped, CodecsTyped, ThreadsTyped
<1>17. ASSUME Invalidate(c)
      PROVE  TypeOK'
  <2>1. pc' \in [Component -> Labels]
    BY <1>17 DEF Invalidate, Goto, ThreadsTyped, Labels
  <2>2. CodecsTyped'
    BY <1>17 DEF Invalidate, CodecsTyped
  <2>3. StatesTyped'
    BY <1>17 DEF Invalidate, StatesTyped, State
  <2> QED BY <1>0, <1>17, <2>1, <2>2, <2>3, TypePartsNext
          DEF Invalidate, QueuesTyped,
              ListsTyped, StatesTyped, PortStatesTyped, PortsTyped, CodecsTyped, ThreadsTyped
<1>18. ASSUME EnablePort(c)
      PROVE  TypeOK'
  <2>1. port[c] \in Port
    BY DEF ThreadsTyped
  <2>2. bEnabled' \in PerPort(BOOLEAN)
    <3>1. \/ bEnabled' = bEnabled
          \/ bEnabled' = [bEnabled EXCEPT ![c][port[c]] = TRUE]
      BY <1>18 DEF EnablePort
    <3> QED BY <2>1, <3>1, PortMaybeUpdated DEF PortsTyped
  <2>3. pc' \in [Component -> Labels] /\ port' \in [Component -> Port]
    <3>1. "enable" \in Labels
      BY DEF Labels
    <3>2. CASE PortDone(c, "enable")
      BY <3>1, <3>2, PortDoneTyped
    <3>3. CASE Goto(c, "enable_wait") /\ UNCHANGED port
      BY <3>3 DEF Goto, ThreadsTyped, Labels
    <3> QED BY <1>18, <3>2, <3>3 DEF EnablePort
  <2> QED BY <1>0, <1>18, <2>1, <2>2, <2>3, TypePartsNext
          DEF EnablePort, QueuesTyped,
              ListsTyped, StatesTyped, PortStatesTyped, PortsTyped, CodecsTyped, ThreadsTyped
<1>19. ASSUME EnableWait(c)
      PROVE  TypeOK'
  <2>1. port[c] \in Port
    BY DEF ThreadsTyped
  <2>2. bPopulated' \in PerPort(BOOLEAN)
    <3>1. \/ bPopulated' = bPopulated
          \/ bPopulated' = [bPopulated EXCEPT ![c][port[c]] = TRUE]
      BY <1>19 DEF EnableWait
    <3> QED BY <2>1, <3>1, PortMaybeUpdated DEF PortsTyped
  <2>3. loadedResource' \in PerPort(Nat)
    <3>1. \/ loadedResource' = loadedResource
          \/ /\ loadedResource[c][port[c]] > 0
             /\ loadedResource' = [loadedResource EXCEPT ![c][port[c]] = loadedResource[c][port[c]] - 1]
      BY <1>19 DEF EnableWait, WaitFor
    <3>2. loadedResource[c][port[c]] \in Nat
      BY <2>1, PortUpdated DEF PortsTyped
    <3>3. CASE loadedResource[c][port[c]] > 0
      <4>1. loadedResource[c][port[c]] - 1 \in Nat
        BY <3>2, <3>3
      <4> QED BY <2>1, <3>1, <4>1, PortMaybeUpdated DEF PortsTyped
    <3>4. CASE loadedResource' = loadedResource
      BY <3>4 DEF PortsTyped
    <3> QED BY <3>1, <3>3, <3>4
  <2>4. pc' \in [Component -> Labels] /\ port' \in [Component -> Port]
    <3>1. "enable" \in Labels
      BY DEF Labels
    <3> QED BY <1>19, <3>1, PortDoneTyped DEF EnableWait
  <2> QED BY <1>0, <1>19, <2>1, <2>2, <2>3, <2>4, TypePartsNext
          DEF EnableWait, QueuesTyped,
              ListsTyped, StatesTyped, PortStatesTyped, PortsTyped, CodecsTyped, ThreadsTyped
<1>20. ASSUME DisablePort(c)
      PROVE  TypeOK'
  <2>1. port[c] \in Port
    BY DEF ThreadsTyped
  <2>2. bPopulated' \in PerPort(BOOLEAN)
    <3>1. \/ bPopulated' = bPopulated
          \/ bPopulated' = [bPopulated EXCEPT ![c][port[c]] = FALSE]
      BY <1>20 DEF DisablePort
    <3> QED BY <2>1, <3>1, PortMaybeUpdated DEF PortsTyped
  <2>3. bEnabled' \in PerPort(BOOLEAN)
    <3>1. \/ bEnabled' = bEnabled
          \/ bEnabled' = [bEnabled EXCEPT ![c][port[c]] = FALSE]
      BY <1>20 DEF DisablePort
    <3> QED BY <2>1, <3>1, PortMaybeUpdated DEF PortsTyped
  <2>4. pc' \in [Component -> Labels] /\ port' \in [Component -> Port]
    <3>1. "disable" \in Labels
      BY DEF Labels
    <3>2. CASE PortDone(c, "disable")
      BY <3>1, <3>2, PortDoneTyped
    <3>3. CASE Goto(c, "disable_wait") /\ UNCHANGED port
      BY <3>3 DEF Goto, ThreadsTyped, Labels
    <3> QED BY <1>20, <3>2, <3>3 DEF DisablePort
  <2> QED BY <1>0, <1>20, <2>1, <2>2, <2>3, <2>4, TypePartsNext
          DEF DisablePort, QueuesTyped,
              ListsTyped, StatesTyped, PortStatesTyped, PortsTyped, CodecsTyped, ThreadsTyped
<1>21. ASSUME DisableWait(c)
      PROVE  TypeOK'
  <2>1. port[c] \in Port
    BY DEF ThreadsTyped
  <2>2. bEnabled' \in PerPort(BOOLEAN)
    <3>1. \/ bEnabled' = bEnabled
          \/ bEnabled' = [bEnabled EXCEPT ![c][port[c]] = FALSE]
      BY <1>21 DEF DisableWait
    <3> QED BY <2>1, <3>1, PortMaybeUpdated DEF PortsTyped
  <2>3. unloadedResource' \in PerPort(Nat)
    <3>1. \/ unloadedResource' = unloadedResource
          \/ /\ unloadedResource[c][port[c]] > 0
             /\ unloadedResource' = [unloadedResource EXCEPT ![c][port[c]] = unloadedResource[c][port[c]] - 1]
      BY <1>21 DEF DisableWait, WaitFor
    <3>2. unloadedResource[c][port[c]] \in Nat
      BY <2>1, PortUpdated DEF PortsTyped
    <3>3. CASE unloadedResource[c][port[c]] > 0
      <4>1. unloadedResource[c][port[c]] - 1 \in Nat
        BY <3>2, <3>3
      <4> QED BY <2>1, <3>1, <4>1, PortMaybeUpdated DEF PortsTyped
    <3>4. CASE unloadedResource' = unloadedResource
      BY <3>4 DEF PortsTyped
    <3> QED BY <3>1, <3>3, <3>4
  <2>4. pc' \in [Component -> Labels] /\ port' \in [Component -> Port]
    <3>1. "disable" \in Labels
      BY DEF Labels
    <3> QED BY <1>21, <3>1, PortDoneTyped DEF DisableWait
  <2> QED BY <1>0, <1>21, <2>1, <2>2, <2>3, <2>4, TypePartsNext
          DEF DisableWait, QueuesTyped,
              ListsTyped, StatesTyped, PortStatesTyped, PortsTyped, CodecsTyped, ThreadsTyped
<1> QED BY <1>1, <1>2, <1>3, <1>4, <1>5, <1>6, <1>7, <1>8, <1>9, <1>10, <1>11, <1>12, <1>13, <1>14, <1>15, <1>16, <1>17, <1>18, <1>19, <1>20, <1>21 DEF Handler

(* In every behaviour, with any clients and any failures, the components' states,
   queues, ports and threads and the resource manager's lists have their types;
   no queue is ever full beyond its ring. *)
THEOREM TypeCorrect == Spec => []TypeOK
<1>1. ASSUME TypeOK, [Next]_vars PROVE TypeOK'
  <2>1. CASE UNCHANGED vars
    BY <1>1, <2>1
       DEF vars, rmVars, portVars, codecVars, threadVars, TypeOK
  <2>2. ASSUME NEW c \in Component, Client(c) \/ Handler(c) PROVE TypeOK'
    BY <1>1, <2>2, ClientType, HandlerType
  <2> QED BY <1>1, <2>1, <2>2 DEF Next
<1> QED BY <1>1, InitType, PTL DEF Spec

-----------------------------------------------------------------------------
(* The resource manager's list and its limit. *)

LEMMA ReleasedList ==
  ASSUME TypeOK, NEW c \in Component, NEW k, ReleaseResource(c, k)
  PROVE  /\ Len(gpVideoRMComponentList') <= Len(gpVideoRMComponentList)
         /\ IsInjective(gpVideoRMComponentList) =>
              /\ IsInjective(gpVideoRMComponentList')
              /\ ToSet(gpVideoRMComponentList') = ToSet(gpVideoRMComponentList) \ {c}
BY MaybeRemoved DEF TypeOK, ReleaseResource

(* Nothing but a release, a grant and a preemption touches the list. *)
LEMMA ListChanges ==
  ASSUME NEW c \in Component, Client(c) \/ Handler(c)
  PROVE  \/ UNCHANGED gpVideoRMComponentList
         \/ GetResource(c)
         \/ \E v \in Component : EvictAndGetResource(c, v)
         \/ ReleaseForLoaded(c) \/ ReleaseForInvalid(c)
<1>1. CASE Client(c)
  BY <1>1 DEF Client, SendCommand, UseBuffer, AllocateBuffer, BufferAssigned, FreeBuffer, rmVars
<1>2. CASE Handler(c) /\ ~(ReleaseForLoaded(c) \/ ReleaseForInvalid(c))
  BY <1>2 DEF Handler, StateSetPlain, StateSetRefused, EnableReceived, DisableReceived,
       WaitForResources, StopWaiting, GetResourceRefused, LoadPort, InitDone, InitFailed,
       Terminate, UnloadPort, Invalidate, EnablePort, EnableWait, DisablePort, DisableWait, rmVars
<1> QED BY <1>1, <1>2

LEMMA ListSteps ==
  ASSUME NEW c \in Component, Client(c) \/ Handler(c)
  PROVE  \/ UNCHANGED gpVideoRMComponentList
         \/ GetResource(c)
         \/ \E v \in Component : EvictAndGetResource(c, v)
         \/ \E k \in AllCommands : ReleaseResource(c, k)
BY ListChanges DEF ReleaseForLoaded, ReleaseForInvalid, rmVars, AllCommands, State

(* The list of granted components never exceeds the limit: a grant is made with
   room to spare, or for an entry that is taken away. *)
THEOREM ListStaysBounded == Spec => []ListBounded
<1>1. Init => ListBounded
  BY EmptySeq, OmxLifecycleAssumption DEF Init, ListBounded
<1>2. ASSUME TypeOK, ListBounded, [Next]_vars PROVE ListBounded'
  <2>1. CASE UNCHANGED vars
    BY <1>2, <2>1
       DEF vars, rmVars, portVars, codecVars, threadVars, TypeOK, ListBounded
  <2>2. ASSUME NEW c \in Component, Client(c) \/ Handler(c) PROVE ListBounded'
    <3>0. gpVideoRMComponentList \in Seq(Component) /\ Len(gpVideoRMComponentList) \in Nat
          /\ MAX_RESOURCE_VIDEO \in Nat
      BY <1>2, LenProperties, OmxLifecycleAssumption DEF TypeOK
    <3>1. CASE UNCHANGED gpVideoRMComponentList
      BY <1>2, <3>1 DEF ListBounded
    <3>2. CASE GetResource(c)
      BY <3>0, <3>2, Appended DEF GetResource, ListHasRoom, ListBounded
    <3>3. ASSUME NEW v \in Component, EvictAndGetResource(c, v) PROVE ListBounded'
      <4>1. v \in ToSet(gpVideoRMComponentList)
        BY <3>3 DEF EvictAndGetResource, Victims, ToSet
      <4>2. /\ RemoveFirst(gpVideoRMComponentList, v) \in Seq(Component)
            /\ Len(RemoveFirst(gpVideoRMComponentList, v)) = Len(gpVideoRMComponentList) - 1
        BY <3>0, <4>1, FirstRemoved
      <4>3. Len(gpVideoRMComponentList') = Len(gpVideoRMComponentList)
        BY <3>0, <3>3, <4>2, Appended DEF EvictAndGetResource
      <4> QED BY <1>2, <4>3 DEF ListBounded
    <3>4. ASSUME NEW k \in AllCommands, ReleaseResource(c, k) PROVE ListBounded'
      <4>1. Len(gpVideoRMComponentList') <= Len(gpVideoRMComponentList)
            /\ gpVideoRMComponentList' \in Seq(Component)
        BY <1>2, <3>4, ReleasedList, ReleasedTyped DEF ListsTyped
      <4>2. Len(gpVideoRMComponentList') \in Nat
        BY <4>1, LenProperties
      <4> QED BY <1>2, <3>0, <4>1, <4>2 DEF ListBounded
    <3> QED BY <2>2, <3>1, <3>2, <3>3, <3>4, ListSteps
  <2> QED BY <1>2, <2>1, <2>2 DEF Next
<1> QED BY <1>1, <1>2, TypeCorrect, PTL DEF Spec

-----------------------------------------------------------------------------
(* Which states a handler's step starts from, and what is in the queues. *)

Running == {"Idle", "Executing", "Pause"}

(* The transition to Idle leaves the state Loaded until its last step, the one
   to Loaded leaves it Idle. *)
Staged ==
  \A c \in Component : /\ pc[c] \in {"load", "init"} => currentState[c] = "Loaded"
                       /\ pc[c] \in {"terminate", "unload"} => currentState[c] = "Idle"

LEMMA StagedHolds == Spec => []Staged
<1>1. Init => Staged
  BY DEF Init, Staged
<1>2. ASSUME TypeOK, Staged, [Next]_vars PROVE Staged'
  <2>1. CASE UNCHANGED vars
    BY <1>2, <2>1
       DEF vars, rmVars, portVars, codecVars, threadVars, TypeOK, Staged
  <2>2. ASSUME NEW c \in Component, Client(c) PROVE Staged'
    BY <1>2, <2>2
       DEF Client, SendCommand, UseBuffer, AllocateBuffer, BufferAssigned, FreeBuffer,
           threadVars, Staged
  <2>3. ASSUME NEW c \in Component, Handler(c) PROVE Staged'
    <3>0. c \in DOMAIN pc /\ c \in DOMAIN currentState /\ port[c] \in Port /\ nPorts \in Nat
      BY <1>2, OmxLifecycleAssumption DEF TypeOK
    <3>1. ASSUME NEW k \in AllCommands, StateSetPlain(c, k) PROVE Staged'
      BY <1>2, <3>0, <3>1 DEF StateSetPlain, PlainTransition, Received, Receives, TypeOK, rmVars, portVars, codecVars, threadVars, Staged, Goto
    <3>2. ASSUME NEW k \in AllCommands, StateSetRefused(c, k) PROVE Staged'
      BY <1>2, <3>0, <3>2 DEF StateSetRefused, Received, Receives, TypeOK, rmVars, portVars, codecVars, threadVars, Staged, Goto
    <3>3. ASSUME NEW k \in AllCommands, EnableReceived(c, k) PROVE Staged'
      BY <1>2, <3>0, <3>3 DEF EnableReceived, StartAt, TypeOK, rmVars, portVars, codecVars, threadVars, Staged, Goto
    <3>4. ASSUME NEW k \in AllCommands, DisableReceived(c, k) PROVE Staged'
      BY <1>2, <3>0, <3>4 DEF DisableReceived, StartAt, TypeOK, rmVars, portVars, codecVars, threadVars, Staged, Goto
    <3>5. ASSUME WaitForResources(c) PROVE Staged'
      BY <1>2, <3>0, <3>5 DEF WaitForResources, Received, Receives, TypeOK, rmVars, portVars, codecVars, threadVars, Staged, Goto
    <3>6. ASSUME StopWaiting(c) PROVE Staged'
      BY <1>2, <3>0, <3>6 DEF StopWaiting, Received, Receives, TypeOK, rmVars, portVars, codecVars, threadVars, Staged, Goto
    <3>7. ASSUME GetResource(c) PROVE Staged'
      BY <1>2, <3>0, <3>7 DEF GetResource, ToIdle, Enter, TypeOK, rmVars, portVars, codecVars, threadVars, Staged, Goto
    <3>8. ASSUME NEW v \in Component, EvictAndGetResource(c, v) PROVE Staged'
      BY <1>2, <3>0, <3>8 DEF EvictAndGetResource, ToIdle, Enter, TypeOK, rmVars, portVars, codecVars, threadVars, Staged, Goto
    <3>9. ASSUME GetResourceRefused(c) PROVE Staged'
      BY <1>2, <3>0, <3>9 DEF GetResourceRefused, TypeOK, rmVars, portVars, codecVars, threadVars, Staged, Goto
    <3>10. ASSUME LoadPort(c) PROVE Staged'
      BY <1>2, <3>0, <3>10 DEF LoadPort, NextPort, TypeOK, rmVars, portVars, codecVars, threadVars, Staged, Goto
    <3>11. ASSUME InitDone(c) PROVE Staged'
      BY <1>2, <3>0, <3>11 DEF InitDone, TypeOK, rmVars, portVars, codecVars, threadVars, Staged, Goto
    <3>12. ASSUME InitFailed(c) PROVE Staged'
      BY <1>2, <3>0, <3>12 DEF InitFailed, TypeOK, rmVars, portVars, codecVars, threadVars, Staged, Goto
    <3>13. ASSUME ReleaseForLoaded(c) PROVE Staged'
      BY <1>2, <3>0, <3>13 DEF ReleaseForLoaded, Enter, TypeOK, rmVars, portVars, codecVars, threadVars, Staged, Goto
    <3>14. ASSUME Terminate(c) PROVE Staged'
      BY <1>2, <3>0, <3>14 DEF Terminate, TypeOK, rmVars, portVars, codecVars, threadVars, Staged, Goto
    <3>15. ASSUME UnloadPort(c) PROVE Staged'
      BY <1>2, <3>0, <3>15 DEF UnloadPort, NextPort, Port, TypeOK, rmVars, portVars, codecVars, threadVars, Staged, Goto
    <3>16. ASSUME ReleaseForInvalid(c) PROVE Staged'
      BY <1>2, <3>0, <3>16 DEF ReleaseForInvalid, Enter, TypeOK, rmVars, portVars, codecVars, threadVars, Staged, Goto
    <3>17. ASSUME Invalidate(c) PROVE Staged'
      BY <1>2, <3>0, <3>17 DEF Invalidate, TypeOK, rmVars, portVars, codecVars, threadVars, Staged, Goto
    <3>18. ASSUME EnablePort(c) PROVE Staged'
      BY <1>2, <3>0, <3>18 DEF EnablePort, PortDone, NextPort, TypeOK, rmVars, portVars, codecVars, threadVars, Staged, Goto
    <3>19. ASSUME EnableWait(c) PROVE Staged'
      BY <1>2, <3>0, <3>19 DEF EnableWait, PortDone, NextPort, TypeOK, rmVars, portVars, codecVars, threadVars, Staged, Goto
    <3>20. ASSUME DisablePort(c) PROVE Staged'
      BY <1>2, <3>0, <3>20 DEF DisablePort, PortDone, NextPort, TypeOK, rmVars, portVars, codecVars, threadVars, Staged, Goto
    <3>21. ASSUME DisableWait(c) PROVE Staged'
      BY <1>2, <3>0, <3>21 DEF DisableWait, PortDone, NextPort, TypeOK, rmVars, portVars, codecVars, threadVars, Staged, Goto
    <3> QED BY <2>3, <3>1, <3>2, <3>3, <3>4, <3>5, <3>6, <3>7, <3>8, <3>9, <3>10, <3>11, <3>12, <3>13, <3>14, <3>15, <3>16, <3>17, <3>18, <3>19, <3>20, <3>21 DEF Handler
  <2> QED BY <1>2, <2>1, <2>2, <2>3 DEF Next
<1> QED BY <1>1, <1>2, TypeCorrect, PTL DEF Spec

-----------------------------------------------------------------------------
(* Initialised components. *)

(* A queue gains only what its client sends and what the resource manager sends. *)
LEMMA QueueGains ==
  ASSUME TypeOK, NEW c \in Component, Client(c) \/ Handler(c)
  PROVE  \A e \in Component :
           ToSet(messageQ'[e]) \subseteq
             ToSet(messageQ[e]) \union Commands \union {StateSet("Idle"), StateSet("Loaded")}
<1> USE TypeParts
<1>1. ASSUME NEW k \in Commands, SendCommand(c, k)
      PROVE  \A e \in Component : ToSet(messageQ'[e]) \subseteq ToSet(messageQ[e]) \union Commands
  <2>1. messageQ[c] \in Seq(AllCommands) /\ k \in AllCommands
    BY OmxLifecycleAssumption DEF QueuesTyped
  <2>2. ToSet(Append(messageQ[c], k)) = ToSet(messageQ[c]) \union {k}
    BY <2>1, Appended
  <2>3. CASE UNCHANGED messageQ
    BY <2>3
  <2>4. CASE messageQ' = [messageQ EXCEPT ![c] = Append(@, k)]
    BY <2>2, <2>4 DEF QueuesTyped
  <2> QED BY <1>1, <2>3, <2>4 DEF SendCommand
<1>2. CASE Client(c) /\ ~(\E k \in Commands : SendCommand(c, k))
  BY <1>2 DEF Client, UseBuffer, AllocateBuffer, BufferAssigned, FreeBuffer
<1>3. ASSUME NEW k, Received(c, k)
      PROVE  \A e \in Component : ToSet(messageQ'[e]) \subseteq ToSet(messageQ[e])
  BY <1>3, ReceivedOne
<1>4. ASSUME NEW v \in Component, EvictAndGetResource(c, v)
      PROVE  \A e \in Component : ToSet(messageQ'[e]) \subseteq ToSet(messageQ[e]) \union {StateSet("Loaded")}
  BY <1>3, <1>4, ReceivedAndSent, IdleAndLoadedAreCommands DEF EvictAndGetResource
<1>5. ASSUME NEW k, ReleaseResource(c, k)
      PROVE  \A e \in Component : ToSet(messageQ'[e]) \subseteq ToSet(messageQ[e]) \union {StateSet("Idle")}
  BY <1>5, ReleasedTyped
<1>6. CASE Handler(c)
  <2>1. \/ UNCHANGED messageQ
        \/ \E k : Received(c, k) \/ ReleaseResource(c, k)
        \/ \E v \in Component : EvictAndGetResource(c, v)
    BY <1>6 DEF Handler, StateSetPlain, StateSetRefused, EnableReceived, DisableReceived,
       WaitForResources, StopWaiting, GetResource, GetResourceRefused, LoadPort, InitDone, InitFailed,
       ReleaseForLoaded, Terminate, UnloadPort, ReleaseForInvalid, Invalidate,
       EnablePort, EnableWait, DisablePort, DisableWait
  <2> QED BY <1>3, <1>4, <1>5, <2>1
<1> QED BY <1>1, <1>2, <1>6 DEF Client

(* When clients do not ask to wait for resources, no component ever does. *)
NeverWaits == \A c \in Component :
  /\ currentState[c] # "WaitForResources"
  /\ StateSet("WaitForResources") \notin ToSet(messageQ[c])

LEMMA NobodyWaits ==
  ASSUME StateSet("WaitForResources") \notin Commands
  PROVE  Spec => []NeverWaits
<1>1. Init => NeverWaits
  BY DEF Init, NeverWaits, ToSet
<1>2. ASSUME TypeOK, NeverWaits, [Next]_vars PROVE NeverWaits'
  <2>1. CASE UNCHANGED vars
    BY <1>2, <2>1 DEF vars, NeverWaits
  <2>2. ASSUME NEW c \in Component, Client(c) \/ Handler(c) PROVE NeverWaits'
    <3>1. \A e \in Component : StateSet("WaitForResources") \notin ToSet(messageQ'[e])
      <4>1. StateSet("WaitForResources") \notin {StateSet("Idle"), StateSet("Loaded")}
        BY DEF StateSet
      <4> QED BY <1>2, <2>2, <4>1, QueueGains DEF NeverWaits
    <3>2. ~WaitForResources(c)
      BY <1>2, ReceivedOne, TypeParts DEF WaitForResources, NeverWaits
    <3>3. CASE UNCHANGED currentState
      BY <1>2, <3>1, <3>3 DEF NeverWaits
    <3>4. ASSUME NEW s, s # "WaitForResources", currentState' = [currentState EXCEPT ![c] = s]
          PROVE  NeverWaits'
      BY <1>2, <3>1, <3>4 DEF NeverWaits, TypeOK
    <3>5. \/ UNCHANGED currentState
          \/ \E s : s # "WaitForResources" /\ currentState' = [currentState EXCEPT ![c] = s]
      <4>1. CASE Client(c)
        BY <4>1 DEF Client, SendCommand, UseBuffer, AllocateBuffer, BufferAssigned, FreeBuffer
      <4>2. CASE \E k \in AllCommands : StateSetPlain(c, k)
        BY <4>2 DEF StateSetPlain, PlainTransition
      <4>3. CASE Handler(c) /\ ~(\E k \in AllCommands : StateSetPlain(c, k))
        BY <3>2, <4>3 DEF Handler, StateSetRefused, EnableReceived, DisableReceived,
           StopWaiting, GetResource, EvictAndGetResource, GetResourceRefused, LoadPort, InitDone,
           InitFailed, ReleaseForLoaded, Terminate, UnloadPort, ReleaseForInvalid, Invalidate,
           EnablePort, EnableWait, DisablePort, DisableWait
      <4> QED BY <2>2, <4>1, <4>2, <4>3
    <3> QED BY <3>3, <3>4, <3>5
  <2> QED BY <1>2, <2>1, <2>2 DEF Next
<1> QED BY <1>1, <1>2, TypeCorrect, PTL DEF Spec

(* As long as no client asks to wait for resources, a component that is in Idle,
   Executing or Pause and is not being taken down has its codec open and its
   process thread, whatever fails and whatever order clients call in.  The
   condition is needed: WaitForResources to Idle skips the initialisation. *)
THEOREM RunningIsInitialised ==
  ASSUME StateSet("WaitForResources") \notin Commands
  PROVE  Spec => []IdleInitialised
<1>1. Init => IdleInitialised
  BY DEF Init, IdleInitialised
<1>2. ASSUME TypeOK, Staged, NeverWaits, IdleInitialised, [Next]_vars PROVE IdleInitialised'
  <2>1. CASE UNCHANGED vars
    BY <1>2, <2>1 DEF vars, codecVars, threadVars, IdleInitialised
  <2>2. ASSUME NEW c \in Component, Client(c) PROVE IdleInitialised'
    BY <1>2, <2>2
       DEF Client, SendCommand, UseBuffer, AllocateBuffer, BufferAssigned, FreeBuffer,
           codecVars, threadVars, IdleInitialised
  <2>3. ASSUME NEW c \in Component, Handler(c) PROVE IdleInitialised'
    <3>0. /\ c \in DOMAIN pc /\ c \in DOMAIN currentState
          /\ c \in DOMAIN hMFCHandle /\ c \in DOMAIN hBufferProcess
          /\ port[c] \in Port /\ nPorts \in Nat
          /\ hMFCHandle \in [Component -> BOOLEAN] /\ hBufferProcess \in [Component -> BOOLEAN]
      BY <1>2, OmxLifecycleAssumption DEF TypeOK
    <3>a. ASSUME UNCHANGED <<currentState, codecVars>>, pc[c] = "message",
                 NEW label, pc' = [pc EXCEPT ![c] = label]
          PROVE  IdleInitialised'
      <4>1. \A e \in Component : pc[e] = "unload" => pc'[e] = "unload"
        BY <1>2, <3>a DEF TypeOK
      <4>2. currentState' = currentState /\ hMFCHandle' = hMFCHandle /\ hBufferProcess' = hBufferProcess
        BY <3>a DEF codecVars
      <4> QED BY <1>2, <4>1, <4>2 DEF IdleInitialised
    <3>1. ASSUME NEW k \in AllCommands, StateSetPlain(c, k) PROVE IdleInitialised'
      BY <1>2, <3>0, <3>1 DEF StateSetPlain, PlainTransition, Received, Receives, TypeOK, rmVars, portVars, codecVars, threadVars, Staged, NeverWaits, IdleInitialised, Goto
    <3>2. ASSUME NEW k \in AllCommands, StateSetRefused(c, k) PROVE IdleInitialised'
      BY <1>2, <3>0, <3>2 DEF StateSetRefused, Received, Receives, TypeOK, rmVars, portVars, codecVars, threadVars, Staged, NeverWaits, IdleInitialised, Goto
    <3>3. ASSUME NEW k \in AllCommands, EnableReceived(c, k) PROVE IdleInitialised'
      BY <3>a, <3>3 DEF EnableReceived, StartAt, Received, Receives, ReleaseResource, ReceivedSending, Goto
    <3>4. ASSUME NEW k \in AllCommands, DisableReceived(c, k) PROVE IdleInitialised'
      BY <3>a, <3>4 DEF DisableReceived, StartAt, Received, Receives, ReleaseResource, ReceivedSending, Goto
    <3>5. ASSUME WaitForResources(c) PROVE IdleInitialised'
      BY <1>2, <3>0, <3>5 DEF WaitForResources, Received, Receives, TypeOK, rmVars, portVars, codecVars, threadVars, Staged, NeverWaits, IdleInitialised, Goto
    <3>6. ASSUME StopWaiting(c) PROVE IdleInitialised'
      BY <1>2, <3>0, <3>6 DEF StopWaiting, Received, Receives, TypeOK, rmVars, portVars, codecVars, threadVars, Staged, NeverWaits, IdleInitialised, Goto
    <3>7. ASSUME GetResource(c) PROVE IdleInitialised'
      BY <1>2, <3>0, <3>7 DEF GetResource, ToIdle, Enter, TypeOK, rmVars, portVars, codecVars, threadVars, Staged, NeverWaits, IdleInitialised, Goto
    <3>8. ASSUME NEW v \in Component, EvictAndGetResource(c, v) PROVE IdleInitialised'
      BY <1>2, <3>0, <3>8 DEF EvictAndGetResource, ToIdle, Enter, TypeOK, rmVars, portVars, codecVars, threadVars, Staged, NeverWaits, IdleInitialised, Goto
    <3>9. ASSUME GetResourceRefused(c) PROVE IdleInitialised'
      BY <1>2, <3>0, <3>9 DEF GetResourceRefused, TypeOK, rmVars, portVars, codecVars, threadVars, Staged, NeverWaits, IdleInitialised, Goto
    <3>10. ASSUME LoadPort(c) PROVE IdleInitialised'
      BY <1>2, <3>0, <3>10 DEF LoadPort, NextPort, TypeOK, rmVars, portVars, codecVars, threadVars, Staged, NeverWaits, IdleInitialised, Goto
    <3>11. ASSUME InitDone(c) PROVE IdleInitialised'
      BY <1>2, <3>0, <3>11 DEF InitDone, TypeOK, rmVars, portVars, codecVars, threadVars, Staged, NeverWaits, IdleInitialised, Goto
    <3>12. ASSUME InitFailed(c) PROVE IdleInitialised'
      BY <1>2, <3>0, <3>12 DEF InitFailed, TypeOK, rmVars, portVars, codecVars, threadVars, Staged, NeverWaits, IdleInitialised, Goto
    <3>13. ASSUME ReleaseForLoaded(c) PROVE IdleInitialised'
      BY <3>a, <3>13 DEF ReleaseForLoaded, Enter, Received, Receives, ReleaseResource, ReceivedSending, Goto
    <3>14. ASSUME Terminate(c) PROVE IdleInitialised'
      BY <1>2, <3>0, <3>14 DEF Terminate, TypeOK, rmVars, portVars, codecVars, threadVars, Staged, NeverWaits, IdleInitialised, Goto
    <3>15. ASSUME UnloadPort(c) PROVE IdleInitialised'
      BY <1>2, <3>0, <3>15 DEF UnloadPort, NextPort, Port, TypeOK, rmVars, portVars, codecVars, threadVars, Staged, NeverWaits, IdleInitialised, Goto
    <3>16. ASSUME ReleaseForInvalid(c) PROVE IdleInitialised'
      BY <3>a, <3>16 DEF ReleaseForInvalid, Enter, Received, Receives, ReleaseResource, ReceivedSending, Goto
    <3>17. ASSUME Invalidate(c) PROVE IdleInitialised'
      BY <1>2, <3>0, <3>17 DEF Invalidate, TypeOK, rmVars, portVars, codecVars, threadVars, Staged, NeverWaits, IdleInitialised, Goto
    <3>18. ASSUME EnablePort(c) PROVE IdleInitialised'
      BY <1>2, <3>0, <3>18 DEF EnablePort, PortDone, NextPort, TypeOK, rmVars, portVars, codecVars, threadVars, Staged, NeverWaits, IdleInitialised, Goto
    <3>19. ASSUME EnableWait(c) PROVE IdleInitialised'
      BY <1>2, <3>0, <3>19 DEF EnableWait, PortDone, NextPort, TypeOK, rmVars, portVars, codecVars, threadVars, Staged, NeverWaits, IdleInitialised, Goto
    <3>20. ASSUME DisablePort(c) PROVE IdleInitialised'
      BY <1>2, <3>0, <3>20 DEF DisablePort, PortDone, NextPort, TypeOK, rmVars, portVars, codecVars, threadVars, Staged, NeverWaits, IdleInitialised, Goto
    <3>21. ASSUME DisableWait(c) PROVE IdleInitialised'
      BY <1>2, <3>0, <3>21 DEF DisableWait, PortDone, NextPort, TypeOK, rmVars, portVars, codecVars, threadVars, Staged, NeverWaits, IdleInitialised, Goto
    <3> QED BY <2>3, <3>1, <3>2, <3>3, <3>4, <3>5, <3>6, <3>7, <3>8, <3>9, <3>10, <3>11, <3>12, <3>13, <3>14, <3>15, <3>16, <3>17, <3>18, <3>19, <3>20, <3>21 DEF Handler
  <2> QED BY <1>2, <2>1, <2>2, <2>3 DEF Next
<1> QED BY <1>1, <1>2, TypeCorrect, StagedHolds, NobodyWaits, PTL DEF Spec

-----------------------------------------------------------------------------
(* Who holds a resource and who is listed, as long as no initialisation fails. *)

(* The codec is open, and the process thread exists, only in a running state,
   and not after Terminate. *)
CodecInv ==
  \A c \in Component : /\ hBufferProcess[c] => hMFCHandle[c]
                       /\ hMFCHandle[c] => currentState[c] \in Running /\ pc[c] # "unload"

LEMMA CodecInvHolds ==
  ASSUME ~InitFails
  PROVE  Spec => []CodecInv
<1>1. Init => CodecInv
  BY DEF Init, CodecInv
<1>2. ASSUME TypeOK, Staged, CodecInv, [Next]_vars PROVE CodecInv'
  <2>1. CASE UNCHANGED vars
    BY <1>2, <2>1 DEF vars, codecVars, threadVars, CodecInv
  <2>2. ASSUME UNCHANGED <<currentState, codecVars>>, NEW c \in Component,
               pc[c] # "terminate", NEW label, label # "unload" \/ pc[c] = "unload",
               UNCHANGED pc \/ pc' = [pc EXCEPT ![c] = label]
        PROVE  CodecInv'
    <3>1. \A e \in Component : pc'[e] = "unload" => pc[e] = "unload"
      BY <1>2, <2>2 DEF TypeOK
    <3>2. currentState' = currentState /\ hMFCHandle' = hMFCHandle /\ hBufferProcess' = hBufferProcess
      BY <2>2 DEF codecVars
    <3> QED BY <1>2, <3>1, <3>2 DEF CodecInv
  <2>3. ASSUME NEW c \in Component, Client(c) PROVE CodecInv'
    BY <1>2, <2>3
       DEF Client, SendCommand, UseBuffer, AllocateBuffer, BufferAssigned, FreeBuffer,
           codecVars, threadVars, CodecInv
  <2>4. ASSUME NEW c \in Component, Handler(c) PROVE CodecInv'
    <3>0. /\ c \in DOMAIN pc /\ c \in DOMAIN currentState
          /\ c \in DOMAIN hMFCHandle /\ c \in DOMAIN hBufferProcess
          /\ port[c] \in Port /\ nPorts \in Nat
          /\ hMFCHandle \in [Component -> BOOLEAN] /\ hBufferProcess \in [Component -> BOOLEAN]
      BY <1>2, OmxLifecycleAssumption DEF TypeOK
    <3>1. ASSUME NEW k \in AllCommands, StateSetPlain(c, k) PROVE CodecInv'
      BY <1>2, <3>0, <3>1 DEF StateSetPlain, PlainTransition, Received, Receives, TypeOK, rmVars, portVars, codecVars, threadVars, Staged, CodecInv, Running, Goto
    <3>2. ASSUME NEW k \in AllCommands, StateSetRefused(c, k) PROVE CodecInv'
      BY <2>2, <3>2 DEF StateSetRefused, Received, Receives, Received, Receives, ReleaseResource, ReceivedSending, codecVars, threadVars, Goto
    <3>3. ASSUME NEW k \in AllCommands, EnableReceived(c, k) PROVE CodecInv'
      BY <2>2, <3>3 DEF EnableReceived, StartAt, Received, Receives, ReleaseResource, ReceivedSending, codecVars, threadVars, Goto
    <3>4. ASSUME NEW k \in AllCommands, DisableReceived(c, k) PROVE CodecInv'
      BY <2>2, <3>4 DEF DisableReceived, StartAt, Received, Receives, ReleaseResource, ReceivedSending, codecVars, threadVars, Goto
    <3>5. ASSUME WaitForResources(c) PROVE CodecInv'
      BY <1>2, <3>0, <3>5 DEF WaitForResources, Received, Receives, TypeOK, rmVars, portVars, codecVars, threadVars, Staged, CodecInv, Running, Goto
    <3>6. ASSUME StopWaiting(c) PROVE CodecInv'
      BY <1>2, <3>0, <3>6 DEF StopWaiting, Received, Receives, TypeOK, rmVars, portVars, codecVars, threadVars, Staged, CodecInv, Running, Goto
    <3>7. ASSUME GetResource(c) PROVE CodecInv'
      BY <2>2, <3>7 DEF GetResource, ToIdle, Enter, Received, Receives, ReleaseResource, ReceivedSending, codecVars, threadVars, Goto
    <3>8. ASSUME NEW v \in Component, EvictAndGetResource(c, v) PROVE CodecInv'
      BY <2>2, <3>8 DEF EvictAndGetResource, ToIdle, Enter, Received, Receives, ReleaseResource, ReceivedSending, codecVars, threadVars, Goto
    <3>9. ASSUME GetResourceRefused(c) PROVE CodecInv'
      BY <2>2, <3>9 DEF GetResourceRefused, Received, Receives, ReleaseResource, ReceivedSending, codecVars, threadVars, Goto
    <3>10. ASSUME LoadPort(c) PROVE CodecInv'
      BY <2>2, <3>10 DEF LoadPort, NextPort, Received, Receives, ReleaseResource, ReceivedSending, codecVars, threadVars, Goto
    <3>11. ASSUME InitDone(c) PROVE CodecInv'
      BY <1>2, <3>0, <3>11 DEF InitDone, TypeOK, rmVars, portVars, codecVars, threadVars, Staged, CodecInv, Running, Goto
    <3>12. ASSUME InitFailed(c) PROVE CodecInv'
      BY <3>12, ~InitFails DEF InitFailed
    <3>13. ASSUME ReleaseForLoaded(c) PROVE CodecInv'
      BY <2>2, <3>13 DEF ReleaseForLoaded, Enter, Received, Receives, ReleaseResource, ReceivedSending, codecVars, threadVars, Goto
    <3>14. ASSUME Terminate(c) PROVE CodecInv'
      BY <1>2, <3>0, <3>14 DEF Terminate, TypeOK, rmVars, portVars, codecVars, threadVars, Staged, CodecInv, Running, Goto
    <3>15. ASSUME UnloadPort(c) PROVE CodecInv'
      BY <1>2, <3>0, <3>15 DEF UnloadPort, NextPort, Port, TypeOK, rmVars, portVars, codecVars, threadVars, Staged, CodecInv, Running, Goto
    <3>16. ASSUME ReleaseForInvalid(c) PROVE CodecInv'
      BY <2>2, <3>16 DEF ReleaseForInvalid, Enter, Received, Receives, ReleaseResource, ReceivedSending, codecVars, threadVars, Goto
    <3>17. ASSUME Invalidate(c) PROVE CodecInv'
      BY <1>2, <3>0, <3>17 DEF Invalidate, TypeOK, rmVars, portVars, codecVars, threadVars, Staged, CodecInv, Running, Goto
    <3>18. ASSUME EnablePort(c) PROVE CodecInv'
      BY <2>2, <3>18 DEF EnablePort, PortDone, NextPort, Received, Receives, ReleaseResource, ReceivedSending, codecVars, threadVars, Goto
    <3>19. ASSUME EnableWait(c) PROVE CodecInv'
      BY <2>2, <3>19 DEF EnableWait, PortDone, NextPort, Received, Receives, ReleaseResource, ReceivedSending, codecVars, threadVars, Goto
    <3>20. ASSUME DisablePort(c) PROVE CodecInv'
      BY <2>2, <3>20 DEF DisablePort, PortDone, NextPort, Received, Receives, ReleaseResource, ReceivedSending, codecVars, threadVars, Goto
    <3>21. ASSUME DisableWait(c) PROVE CodecInv'
      BY <2>2, <3>21 DEF DisableWait, PortDone, NextPort, Received, Receives, ReleaseResource, ReceivedSending, codecVars, threadVars, Goto
    <3> QED BY <2>4, <3>1, <3>2, <3>3, <3>4, <3>5, <3>6, <3>7, <3>8, <3>9, <3>10, <3>11, <3>12, <3>13, <3>14, <3>15, <3>16, <3>17, <3>18, <3>19, <3>20, <3>21 DEF Handler
  <2> QED BY <1>2, <2>1, <2>3, <2>4 DEF Next
<1> QED BY <1>1, <1>2, TypeCorrect, StagedHolds, PTL DEF Spec

(* The four steps that change who is granted the resource, and all the others. *)
LEMMA HoldingSteps ==
  ASSUME TypeOK, Staged, CodecInv, ~InitFails, NEW c \in Component, Client(c) \/ Handler(c)
  PROVE  \/ GetResource(c) \/ (\E v \in Component : EvictAndGetResource(c, v))
         \/ ReleaseForLoaded(c) \/ ReleaseForInvalid(c)
         \/ /\ UNCHANGED gpVideoRMComponentList
            /\ \A e \in Component : Holding(e)' <=> Holding(e)
<1> DEFINE Kept == \A e \in Component : Holding(e)' <=> Holding(e)
<1>1. ASSUME UNCHANGED codecVars, NEW label,
             UNCHANGED pc \/ pc' = [pc EXCEPT ![c] = label],
             pc[c] \notin {"terminate", "invalidate"} /\ label \notin {"terminate", "invalidate"},
             pc[c] \in {"load", "init"} <=> label \in {"load", "init"}
      PROVE  Kept
  <2>1. \A e \in Component : /\ pc'[e] \in {"load", "init"} <=> pc[e] \in {"load", "init"}
                             /\ pc'[e] \in {"terminate", "invalidate"} <=> pc[e] \in {"terminate", "invalidate"}
    BY <1>1 DEF TypeOK
  <2>2. hMFCHandle' = hMFCHandle
    BY <1>1 DEF codecVars
  <2> QED BY <2>1, <2>2 DEF Holding
<1>2. ASSUME Client(c) PROVE Kept
  BY <1>2 DEF Client, SendCommand, UseBuffer, AllocateBuffer, BufferAssigned, FreeBuffer,
              codecVars, threadVars, Holding
<1>3. c \in DOMAIN pc /\ c \in DOMAIN hMFCHandle
      /\ hMFCHandle \in [Component -> BOOLEAN] /\ port[c] \in Port /\ nPorts \in Nat
  BY OmxLifecycleAssumption DEF TypeOK
<1>4. ASSUME NEW k \in AllCommands, StateSetPlain(c, k) PROVE Kept
  BY <1>1, <1>4 DEF StateSetPlain, PlainTransition, Received, Receives, Received, Receives, codecVars, threadVars, Goto
<1>5. ASSUME NEW k \in AllCommands, StateSetRefused(c, k) PROVE Kept
  BY <1>1, <1>5 DEF StateSetRefused, Received, Receives, Received, Receives, codecVars, threadVars, Goto
<1>6. ASSUME NEW k \in AllCommands, EnableReceived(c, k) PROVE Kept
  <2>1. pc[c] = "message" /\ pc' = [pc EXCEPT ![c] = "enable"] /\ UNCHANGED codecVars
    BY <1>6 DEF EnableReceived, StartAt, Received, Receives, Goto
  <2> DEFINE label == "enable"
  <2>2. label \notin {"terminate", "invalidate"} /\ label \notin {"load", "init"}
    OBVIOUS
  <2>3. pc[c] \notin {"terminate", "invalidate"} /\ pc[c] \notin {"load", "init"}
    BY <2>1
  <2>4. pc' = [pc EXCEPT ![c] = label]
    BY <2>1
  <2> HIDE DEF label
  <2> QED BY <1>1, <2>1, <2>2, <2>3, <2>4
<1>7. ASSUME NEW k \in AllCommands, DisableReceived(c, k) PROVE Kept
  BY <1>1, <1>7 DEF DisableReceived, StartAt, Received, Receives, codecVars, threadVars, Goto
<1>8. ASSUME WaitForResources(c) PROVE Kept
  BY <1>1, <1>8 DEF WaitForResources, Received, Receives, Received, Receives, codecVars, threadVars, Goto
<1>9. ASSUME StopWaiting(c) PROVE Kept
  BY <1>1, <1>9 DEF StopWaiting, Received, Receives, Received, Receives, codecVars, threadVars, Goto
<1>10. ASSUME GetResourceRefused(c) PROVE Kept
  BY <1>1, <1>10 DEF GetResourceRefused, Received, Receives, codecVars, threadVars, Goto
<1>11. ASSUME LoadPort(c) PROVE Kept
  BY <1>1, <1>11 DEF LoadPort, NextPort, Received, Receives, codecVars, threadVars, Goto
<1>12. ASSUME InitDone(c) PROVE Kept
  BY <1>3, <1>12 DEF InitDone, Goto, Holding, TypeOK, Staged, CodecInv
<1>13. ASSUME InitFailed(c) PROVE Kept
  BY <1>13 DEF InitFailed
<1>14. ASSUME Terminate(c) PROVE Kept
  BY <1>3, <1>14 DEF Terminate, Goto, Holding, TypeOK, Staged, CodecInv
<1>15. ASSUME UnloadPort(c) PROVE Kept
  BY <1>1, <1>15 DEF UnloadPort, NextPort, Port, Received, Receives, codecVars, threadVars, Goto
<1>16. ASSUME Invalidate(c) PROVE Kept
  BY <1>3, <1>16 DEF Invalidate, Goto, Holding, TypeOK, Staged, CodecInv
<1>17. ASSUME EnablePort(c) PROVE Kept
  BY <1>1, <1>17 DEF EnablePort, PortDone, NextPort, Received, Receives, codecVars, threadVars, Goto
<1>18. ASSUME EnableWait(c) PROVE Kept
  BY <1>1, <1>18 DEF EnableWait, PortDone, NextPort, Received, Receives, codecVars, threadVars, Goto
<1>19. ASSUME DisablePort(c) PROVE Kept
  BY <1>1, <1>19 DEF DisablePort, PortDone, NextPort, Received, Receives, codecVars, threadVars, Goto
<1>20. ASSUME DisableWait(c) PROVE Kept
  BY <1>1, <1>20 DEF DisableWait, PortDone, NextPort, Received, Receives, codecVars, threadVars, Goto
<1>21. CASE ~(GetResource(c) \/ (\E v \in Component : EvictAndGetResource(c, v))
           \/ ReleaseForLoaded(c) \/ ReleaseForInvalid(c))
  <2>1. Kept
    BY <1>2, <1>21, <1>4, <1>5, <1>6, <1>7, <1>8, <1>9, <1>10, <1>11, <1>12, <1>13, <1>14, <1>15, <1>16, <1>17, <1>18, <1>19, <1>20 DEF Handler
  <2>2. UNCHANGED gpVideoRMComponentList
    BY <1>21 DEF Client, SendCommand, UseBuffer, AllocateBuffer, BufferAssigned, FreeBuffer,
       Handler, StateSetPlain, StateSetRefused, EnableReceived, DisableReceived,
       WaitForResources, StopWaiting, GetResourceRefused, LoadPort, InitDone, InitFailed,
       Terminate, UnloadPort, Invalidate, EnablePort, EnableWait, DisablePort, DisableWait, rmVars
  <2> QED BY <2>1, <2>2
<1> QED BY <1>21

(* Everything listed is granted, nothing is listed twice and, among equals,
   everything granted is listed. *)
SamePriority == \A c, d \in Component : groupPriority[c] = groupPriority[d]
ListedIsHeld ==
  /\ IsInjective(gpVideoRMComponentList)
  /\ \A c \in Component : c \in ToSet(gpVideoRMComponentList) => Holding(c)
HeldIsListed ==
  SamePriority => \A c \in Component : Holding(c) => c \in ToSet(gpVideoRMComponentList)

LEMMA ListedAndHeld ==
  ASSUME ~InitFails
  PROVE  Spec => [](ListedIsHeld /\ HeldIsListed)
<1>1. Init => ListedIsHeld /\ HeldIsListed
  BY DEF Init, ListedIsHeld, HeldIsListed, IsInjective, ToSet, Holding
<1>2. ASSUME TypeOK, Staged, CodecInv, ListedIsHeld, HeldIsListed, [Next]_vars
      PROVE  (ListedIsHeld /\ HeldIsListed)'
  <2> DEFINE list == gpVideoRMComponentList
  <2>0. list \in Seq(Component)
    BY <1>2 DEF TypeOK
  <2>1. CASE UNCHANGED vars
    BY <1>2, <2>1 DEF vars, rmVars, codecVars, threadVars, ListedIsHeld, HeldIsListed, Holding, SamePriority
  <2>2. ASSUME NEW c \in Component, Client(c) \/ Handler(c)
        PROVE  (ListedIsHeld /\ HeldIsListed)'
    <3>0. /\ groupPriority' = groupPriority
          /\ c \in DOMAIN pc /\ currentState \in [Component -> State]
          /\ pc \in [Component -> Labels]
      BY <1>2, <2>2 DEF Client, Handler, TypeOK, Labels
    <3>1. ASSUME UNCHANGED list, \A e \in Component : Holding(e)' <=> Holding(e)
          PROVE  (ListedIsHeld /\ HeldIsListed)'
      BY <1>2, <3>0, <3>1 DEF ListedIsHeld, HeldIsListed, SamePriority
    <3>2. ASSUME ToIdle(c), Enter(c, "load"), UNCHANGED codecVars
          PROVE  /\ ~Holding(c) /\ Holding(c)'
                 /\ \A e \in Component \ {c} : Holding(e)' <=> Holding(e)
      <4>1. pc[c] = "message" /\ pc'[c] = "load" /\ currentState[c] = "Loaded"
            /\ \A e \in Component \ {c} : pc'[e] = pc[e]
        BY <3>0, <3>2 DEF ToIdle, Receives, Enter, Goto
      <4>2. ~Holding(c)
        BY <1>2, <4>1 DEF CodecInv, Holding, Running
      <4>3. hMFCHandle' = hMFCHandle
        BY <3>2 DEF codecVars
      <4> QED BY <4>1, <4>2, <4>3 DEF Holding
    <3>3. CASE GetResource(c)
      <4>1. list' = Append(list, c) /\ ToIdle(c) /\ Enter(c, "load") /\ UNCHANGED codecVars
        BY <3>3 DEF GetResource
      <4>2. c \notin ToSet(list)
        BY <1>2, <3>2, <4>1 DEF ListedIsHeld
      <4>3. IsInjective(list') /\ ToSet(list') = ToSet(list) \union {c}
        BY <1>2, <2>0, <4>1, <4>2, Appended, AppendedInjective DEF ListedIsHeld
      <4> QED BY <1>2, <3>0, <3>2, <4>1, <4>3 DEF ListedIsHeld, HeldIsListed, SamePriority
    <3>4. ASSUME NEW v \in Component, EvictAndGetResource(c, v)
          PROVE  (ListedIsHeld /\ HeldIsListed)'
      <4> DEFINE rest == RemoveFirst(list, v)
      <4>1. list' = Append(rest, c) /\ ToIdle(c) /\ Enter(c, "load") /\ UNCHANGED codecVars
        BY <3>4 DEF EvictAndGetResource
      <4>2. rest \in Seq(Component) /\ IsInjective(rest) /\ ToSet(rest) = ToSet(list) \ {v}
        BY <1>2, <2>0, MaybeRemoved DEF ListedIsHeld
      <4> HIDE DEF rest
      <4>3. c \notin ToSet(rest)
        BY <1>2, <3>2, <4>1, <4>2 DEF ListedIsHeld
      <4>4. IsInjective(list') /\ ToSet(list') = ToSet(rest) \union {c}
        BY <4>1, <4>2, <4>3, Appended, AppendedInjective
      <4>5. ListedIsHeld'
        BY <1>2, <3>2, <4>1, <4>2, <4>4 DEF ListedIsHeld
      <4>6. ~SamePriority
        <5>1. PICK i \in DOMAIN list : groupPriority[list[i]] > groupPriority[c]
          BY <3>4 DEF EvictAndGetResource, Victims
        <5>2. list[i] \in Component
          BY <2>0, <5>1, LenProperties, ElementOfSeq
        <5>3. groupPriority \in [Component -> Nat]
          BY <1>2, OmxLifecycleAssumption DEF TypeOK
        <5> QED BY <5>1, <5>2, <5>3 DEF SamePriority
      <4> QED BY <3>0, <4>5, <4>6 DEF HeldIsListed, SamePriority
    <3>5. ASSUME NEW k, ReleaseResource(c, k), NEW label \in {"terminate", "invalidate"},
                 Receives(c, k), Enter(c, label), UNCHANGED codecVars
          PROVE  (ListedIsHeld /\ HeldIsListed)'
      <4>1. IsInjective(list') /\ ToSet(list') = ToSet(list) \ {c}
        BY <1>2, <3>5, ReleasedList DEF ListedIsHeld
      <4>2. pc'[c] = label /\ \A e \in Component \ {c} : pc'[e] = pc[e]
        BY <3>0, <3>5 DEF Enter, Goto
      <4>3. hMFCHandle' = hMFCHandle
        BY <3>5 DEF codecVars
      <4>4. ~Holding(c)' /\ \A e \in Component \ {c} : Holding(e)' <=> Holding(e)
        BY <4>2, <4>3 DEF Holding
      <4> QED BY <1>2, <3>0, <4>1, <4>4 DEF ListedIsHeld, HeldIsListed, SamePriority
    <3>6. CASE ReleaseForLoaded(c)
      BY <3>5, <3>6 DEF ReleaseForLoaded
    <3>7. CASE ReleaseForInvalid(c) /\ currentState[c] \in Running
      BY <3>5, <3>7 DEF ReleaseForInvalid, Running
    <3>8. CASE ReleaseForInvalid(c) /\ currentState[c] \notin Running
      <4>1. UNCHANGED list /\ pc[c] = "message" /\ pc' = [pc EXCEPT ![c] = "invalidate"]
            /\ hMFCHandle' = hMFCHandle
        BY <3>8 DEF ReleaseForInvalid, Running, rmVars, codecVars, Receives, Enter, Goto
      <4>2. ~Holding(c) /\ ~Holding(c)'
        BY <1>2, <3>0, <3>8, <4>1 DEF CodecInv, Holding
      <4>3. \A e \in Component \ {c} : Holding(e)' <=> Holding(e)
        BY <3>0, <4>1 DEF Holding
      <4> QED BY <3>1, <4>1, <4>2, <4>3
    <3> QED BY <1>2, <2>2, <3>1, <3>3, <3>4, <3>6, <3>7, <3>8, HoldingSteps
  <2> QED BY <1>2, <2>1, <2>2 DEF Next
<1> QED BY <1>1, <1>2, TypeCorrect, StagedHolds, CodecInvHolds, PTL DEF Spec

LEMMA EntryCount ==
  ASSUME TypeOK, IsInjective(gpVideoRMComponentList), NEW c \in Component
  PROVE  Cardinality(Entries(c)) = IF c \in ToSet(gpVideoRMComponentList) THEN 1 ELSE 0
<1>1. CASE c \notin ToSet(gpVideoRMComponentList)
  <2>1. Entries(c) = {}
    BY <1>1 DEF Entries, ToSet
  <2> QED BY <1>1, <2>1, FS_EmptySet
<1>2. CASE c \in ToSet(gpVideoRMComponentList)
  <2>1. PICK i \in DOMAIN gpVideoRMComponentList : gpVideoRMComponentList[i] = c
    BY <1>2 DEF ToSet
  <2>2. Entries(c) = {i}
    BY <2>1 DEF Entries, IsInjective
  <2> QED BY <1>2, <2>2, FS_Singleton
<1> QED BY <1>1, <1>2

(* Among components of equal priority, and when no initialisation fails, the list
   has exactly one entry for each component that holds the resource and none for
   the others, for any number of components and any clients. *)
THEOREM HoldersListedOnce == Spec => []HolderListedOnce
<1>1. CASE InitFails
  <2>1. HolderListedOnce
    BY <1>1 DEF HolderListedOnce
  <2> QED BY <2>1, PTL
<1>2. CASE ~InitFails
  <2>1. TypeOK /\ ListedIsHeld /\ HeldIsListed => HolderListedOnce
    <3> SUFFICES ASSUME TypeOK, ListedIsHeld, HeldIsListed, SamePriority, NEW c \in Component
                 PROVE  Cardinality(Entries(c)) = IF Holding(c) THEN 1 ELSE 0
      BY Zenon DEF HolderListedOnce, SamePriority
    <3> QED BY EntryCount DEF ListedIsHeld, HeldIsListed
  <2>2. Spec => [](ListedIsHeld /\ HeldIsListed)
    BY <1>2, ListedAndHeld
  <2> QED BY <2>1, <2>2, TypeCorrect, PTL
<1> QED BY <1>1, <1>2

(* When no initialisation fails, a component that is Loaded with nothing in
   progress has no entry, no open codec and no process thread, whatever
   priorities and preemptions there are. *)
THEOREM LoadedIsReleased ==
  ASSUME ~InitFails
  PROVE  Spec => []LoadedHoldsNothing
<1>1. TypeOK /\ CodecInv /\ ListedIsHeld => LoadedHoldsNothing
  <2> SUFFICES ASSUME TypeOK, CodecInv, ListedIsHeld, NEW c \in Component,
                      currentState[c] = "Loaded", pc[c] = "message"
               PROVE  Entries(c) = {} /\ ~hMFCHandle[c] /\ ~hBufferProcess[c]
    BY Zenon DEF LoadedHoldsNothing
  <2>1. ~hMFCHandle[c] /\ ~hBufferProcess[c]
    BY DEF CodecInv, Running
  <2>2. ~Holding(c)
    BY <2>1 DEF Holding
  <2> QED BY <2>1, <2>2 DEF ListedIsHeld, Entries, ToSet
<1> QED BY <1>1, TypeCorrect, CodecInvHolds, ListedAndHeld, PTL

-----------------------------------------------------------------------------
(* Nobody who waits for resources is forgotten. *)

Wait == StateSet("WaitForResources")
ToldIdle(q) == StateSet("Idle") \in ToSet(q)

(* The request to wait is the oldest command of its queue and is not yet being
   processed, and a Loaded component has been sent nothing else. *)
AskedToWait(c) ==
  \A i \in 1 .. Len(messageQ[c]) : messageQ[c][i] = Wait =>
    /\ i = 1 /\ pc[c] = "message"
    /\ currentState[c] = "Loaded" => Len(messageQ[c]) = 1

(* Who is in the waiting list waits, or has become Invalid since; it has at most
   its client's command to process, and that is not to become Idle. *)
InWaitingList(c) ==
  c \in ToSet(gpVideoRMWaitingList) =>
    /\ currentState[c] \in {"WaitForResources", "Invalid"}
    /\ currentState[c] = "WaitForResources"
         => Len(messageQ[c]) <= 1 /\ ~ToldIdle(messageQ[c])

WaitInv ==
  /\ IsInjective(gpVideoRMWaitingList)
  /\ \A c \in Component :
       /\ AskedToWait(c) /\ InWaitingList(c)
       /\ currentState[c] = "WaitForResources"
          => c \in ToSet(gpVideoRMWaitingList) \/ ToldIdle(messageQ[c])

(* The first element of a sequence without repetitions does not come again. *)
LEMMA FirstOfInjective ==
  ASSUME NEW S, NEW s \in Seq(S), s # <<>>, IsInjective(s)
  PROVE  IsInjective(Tail(s)) /\ ToSet(Tail(s)) = ToSet(s) \ {Head(s)}
<1>1. /\ Tail(s) \in Seq(S) /\ Len(Tail(s)) = Len(s) - 1
      /\ \A i \in 1 .. Len(Tail(s)) : Tail(s)[i] = s[i + 1]
  BY HeadTailProperties, Zenon
<1>2. /\ Len(s) \in Nat /\ Len(s) > 0 /\ Head(s) = s[1]
      /\ DOMAIN s = 1 .. Len(s) /\ DOMAIN Tail(s) = 1 .. Len(s) - 1
  BY <1>1, LenProperties, EmptySeq
<1>3. IsInjective(Tail(s))
  BY <1>1, <1>2 DEF IsInjective
<1>4. Head(s) \notin ToSet(Tail(s))
  BY <1>1, <1>2 DEF IsInjective, ToSet
<1> QED BY <1>3, <1>4, FirstTaken

(* What is in a queue from which a command was taken ... *)
Took(c, k) ==
  /\ pc[c] = "message" /\ Len(messageQ[c]) > 0 /\ messageQ[c][1] = k
  /\ Len(messageQ'[c]) = Len(messageQ[c]) - 1
  /\ \A i \in 1 .. Len(messageQ'[c]) : messageQ'[c][i] = messageQ[c][i + 1]
(* ... and in one to which a command was sent, unless it was full. *)
Gained(d, m) ==
  \/ messageQ'[d] = messageQ[d] /\ ~Queueable(messageQ[d])
  \/ /\ Len(messageQ'[d]) = Len(messageQ[d]) + 1
     /\ \A i \in 1 .. Len(messageQ[d]) : messageQ'[d][i] = messageQ[d][i]
     /\ messageQ'[d][Len(messageQ[d]) + 1] = m

LEMMA TypedQueues ==
  ASSUME QueuesTyped(messageQ), NEW c \in Component
  PROVE  /\ messageQ[c] \in Seq(AllCommands) /\ Len(messageQ[c]) \in Nat
         /\ DOMAIN messageQ[c] = 1 .. Len(messageQ[c])
BY LenProperties DEF QueuesTyped

LEMMA TookOne ==
  ASSUME QueuesTyped(messageQ), NEW c \in Component, NEW k, Received(c, k)
  PROVE  Took(c, k) /\ \A e \in Component \ {c} : messageQ'[e] = messageQ[e]
<1>1. /\ messageQ[c] \in Seq(AllCommands) /\ messageQ[c] # <<>> /\ k = Head(messageQ[c])
      /\ pc[c] = "message"
  BY DEF QueuesTyped, Received, Receives
<1>2. /\ Len(Tail(messageQ[c])) = Len(messageQ[c]) - 1
      /\ \A i \in 1 .. Len(Tail(messageQ[c])) : Tail(messageQ[c])[i] = messageQ[c][i + 1]
  BY <1>1, HeadTailProperties, Zenon
<1>3. Len(messageQ[c]) > 0 /\ Head(messageQ[c]) = messageQ[c][1]
  BY <1>1, EmptySeq, LenProperties
<1>4. messageQ'[c] = Tail(messageQ[c]) /\ \A e \in Component \ {c} : messageQ'[e] = messageQ[e]
  BY DEF QueuesTyped, Received
<1> QED BY <1>1, <1>2, <1>3, <1>4 DEF Took

LEMMA TookAndGave ==
  ASSUME QueuesTyped(messageQ), NEW c \in Component, NEW k, NEW d \in Component \ {c},
         NEW m \in AllCommands, ReceivedSending(c, k, d, m)
  PROVE  /\ Took(c, k) /\ Gained(d, m)
         /\ \A e \in Component \ {c, d} : messageQ'[e] = messageQ[e]
<1>1. /\ messageQ[c] \in Seq(AllCommands) /\ messageQ[c] # <<>> /\ k = Head(messageQ[c])
      /\ pc[c] = "message"
  BY DEF QueuesTyped, ReceivedSending, Receives
<1>2. /\ Len(Tail(messageQ[c])) = Len(messageQ[c]) - 1
      /\ \A i \in 1 .. Len(Tail(messageQ[c])) : Tail(messageQ[c])[i] = messageQ[c][i + 1]
  BY <1>1, HeadTailProperties, Zenon
<1>3. Len(messageQ[c]) > 0 /\ Head(messageQ[c]) = messageQ[c][1]
  BY <1>1, EmptySeq, LenProperties
<1>4. /\ messageQ'[c] = Tail(messageQ[c])
      /\ messageQ'[d] = IF Queueable(messageQ[d]) THEN Append(messageQ[d], m) ELSE messageQ[d]
      /\ \A e \in Component \ {c, d} : messageQ'[e] = messageQ[e]
  BY DEF QueuesTyped, ReceivedSending
<1>5. Gained(d, m)
  <2>1. messageQ[d] \in Seq(AllCommands)
    BY DEF QueuesTyped
  <2>2. /\ Len(Append(messageQ[d], m)) = Len(messageQ[d]) + 1
        /\ \A i \in 1 .. Len(messageQ[d]) : Append(messageQ[d], m)[i] = messageQ[d][i]
        /\ Append(messageQ[d], m)[Len(messageQ[d]) + 1] = m
    BY <2>1, AppendProperties
  <2> QED BY <1>4, <2>2 DEF Gained
<1> QED BY <1>1, <1>2, <1>3, <1>4, <1>5 DEF Took

(* The part of WaitInv about one component. *)
Waiter(c) ==
  /\ AskedToWait(c) /\ InWaitingList(c)
  /\ currentState[c] = "WaitForResources"
     => c \in ToSet(gpVideoRMWaitingList) \/ ToldIdle(messageQ[c])

SameMembers == ToSet(gpVideoRMWaitingList') = ToSet(gpVideoRMWaitingList)
SameAt(e) == pc'[e] = pc[e] /\ currentState'[e] = currentState[e]

LEMMA NextQueues ==
  ASSUME TypeOK', NEW c \in Component
  PROVE  /\ messageQ'[c] \in Seq(AllCommands) /\ Len(messageQ'[c]) \in Nat
         /\ DOMAIN messageQ'[c] = 1 .. Len(messageQ'[c])
<1>1. messageQ'[c] \in Seq(AllCommands)
  BY DEF TypeOK
<1> QED BY <1>1, LenProperties

(* Steps that leave a component where it is. *)
LEMMA WaiterKept ==
  ASSUME NEW e \in Component, Waiter(e), SameAt(e), messageQ'[e] = messageQ[e],
         e \in ToSet(gpVideoRMWaitingList') <=> e \in ToSet(gpVideoRMWaitingList)
  PROVE  Waiter(e)'
BY DEF Waiter, SameAt, AskedToWait, InWaitingList, ToldIdle

(* A component takes a command that leaves its state and the waiting list. *)
LEMMA WaiterProcesses ==
  ASSUME TypeOK, TypeOK', NEW c \in Component, Waiter(c), NEW k, Took(c, k),
         currentState'[c] = currentState[c],
         c \in ToSet(gpVideoRMWaitingList') <=> c \in ToSet(gpVideoRMWaitingList),
         currentState[c] = "WaitForResources" => k # StateSet("Idle")
  PROVE  Waiter(c)'
<1> USE TypeParts, TypedQueues, NextQueues
<1>1. AskedToWait(c)'
  BY DEF Waiter, AskedToWait, Took
<1>2. ToldIdle(messageQ'[c]) => ToldIdle(messageQ[c])
  <2> SUFFICES ASSUME NEW i \in 1 .. Len(messageQ'[c]), messageQ'[c][i] = StateSet("Idle")
               PROVE  \E j \in 1 .. Len(messageQ[c]) : messageQ[c][j] = StateSet("Idle")
    BY DEF ToldIdle, ToSet
  <2>1. i + 1 \in 1 .. Len(messageQ[c]) /\ messageQ[c][i + 1] = messageQ'[c][i]
    BY DEF Took
  <2> QED BY <2>1
<1>3. k # StateSet("Idle") /\ ToldIdle(messageQ[c]) => ToldIdle(messageQ'[c])
  <2> SUFFICES ASSUME k # StateSet("Idle"), NEW i \in 1 .. Len(messageQ[c]),
                      messageQ[c][i] = StateSet("Idle")
               PROVE  \E j \in 1 .. Len(messageQ'[c]) : messageQ'[c][j] = StateSet("Idle")
    BY DEF ToldIdle, ToSet
  <2>1. i - 1 \in 1 .. Len(messageQ'[c]) /\ messageQ'[c][i - 1] = messageQ[c][i]
    BY DEF Took
  <2> QED BY <2>1
<1>4. Len(messageQ'[c]) <= Len(messageQ[c])
  BY DEF Took
<1>5. InWaitingList(c)'
  BY <1>2, <1>4 DEF Waiter, InWaitingList
<1> QED BY <1>1, <1>3, <1>5 DEF Waiter

(* It takes a command, or goes on with one, and does not wait afterwards. *)
LEMMA WaiterLeaves ==
  ASSUME TypeOK, TypeOK', NEW c \in Component, Waiter(c),
         \/ \E k : Took(c, k)
         \/ pc[c] # "message" /\ messageQ'[c] = messageQ[c],
         currentState'[c] # "WaitForResources",
         c \in ToSet(gpVideoRMWaitingList') => currentState'[c] = "Invalid"
  PROVE  Waiter(c)'
<1> USE TypeParts, TypedQueues, NextQueues
<1>1. ASSUME NEW k, Took(c, k) PROVE AskedToWait(c)'
  BY <1>1 DEF Waiter, AskedToWait, Took
<1>2. ASSUME pc[c] # "message", messageQ'[c] = messageQ[c] PROVE AskedToWait(c)'
  BY <1>2 DEF Waiter, AskedToWait
<1> QED BY <1>1, <1>2 DEF Waiter, InWaitingList

(* A component is sent a command that has nothing to do with waiting, or is
   taken from the list and told to become Idle. *)
LEMMA WaiterTold ==
  ASSUME TypeOK, TypeOK', NEW d \in Component, Waiter(d), SameAt(d), NEW m, Gained(d, m),
         \/ /\ m = StateSet("Loaded") /\ currentState[d] = "Idle"
            /\ d \in ToSet(gpVideoRMWaitingList') <=> d \in ToSet(gpVideoRMWaitingList)
         \/ /\ m = StateSet("Idle") /\ currentState[d] = "WaitForResources"
            /\ Queueable(messageQ[d]) /\ d \notin ToSet(gpVideoRMWaitingList')
  PROVE  Waiter(d)'
<1> USE TypeParts, TypedQueues, NextQueues
<1>1. StateSet("Loaded") # Wait /\ StateSet("Idle") # Wait
  BY DEF Wait, StateSet
<1>2. m # Wait /\ currentState'[d] = currentState[d] /\ currentState[d] # "Loaded"
  BY <1>1 DEF SameAt
<1>3. AskedToWait(d)'
  BY <1>2 DEF Waiter, AskedToWait, Gained, SameAt
<1>4. CASE currentState[d] = "Idle"
  BY <1>2, <1>3, <1>4 DEF Waiter, InWaitingList
<1>5. CASE currentState[d] = "WaitForResources"
  <2>1. d \notin ToSet(gpVideoRMWaitingList') /\ m = StateSet("Idle") /\ Queueable(messageQ[d])
    BY <1>5
  <2>2. ToldIdle(messageQ'[d])
    BY <2>1 DEF Gained, ToldIdle, ToSet
  <2> QED BY <1>3, <2>1, <2>2 DEF Waiter, InWaitingList
<1> QED BY <1>4, <1>5

(* With clients that await each outcome, and room for two commands in a queue. *)
LEMMA ClientWaitStep ==
  ASSUME TypeOK, TypeOK', WaitInv, SerialClient, NEW c \in Component, Client(c)
  PROVE  WaitInv'
<1> USE TypeParts, TypedQueues, NextQueues
<1>1. /\ UNCHANGED <<gpVideoRMWaitingList, currentState, pc>>
  BY DEF Client, SendCommand, UseBuffer, AllocateBuffer, BufferAssigned, FreeBuffer, rmVars, threadVars
<1>2. ASSUME NEW e \in Component, messageQ'[e] = messageQ[e] PROVE Waiter(e)'
  BY <1>1, <1>2, WaiterKept DEF WaitInv, Waiter, SameAt
<1>3. ASSUME NEW k \in Commands, SendCommand(c, k), messageQ' = [messageQ EXCEPT ![c] = Append(@, k)]
      PROVE  WaitInv'
  <2>1. k \in AllCommands /\ messageQ[c] = <<>> /\ pc[c] = "message"
        /\ (currentState[c] = "WaitForResources" => k # StateSet("Idle"))
    BY <1>3, OmxLifecycleAssumption DEF SendCommand, HandlerIdle, SkipsTheWait
  <2>2. /\ Len(messageQ'[c]) = 1 /\ messageQ'[c][1] = k
        /\ \A e \in Component \ {c} : messageQ'[e] = messageQ[e]
    <3>1. messageQ'[c] = Append(messageQ[c], k) /\ Len(messageQ[c]) = 0
      BY <1>3, <2>1, EmptySeq DEF QueuesTyped
    <3>2. Len(Append(messageQ[c], k)) = 1 /\ Append(messageQ[c], k)[1] = k
      BY <2>1, <3>1, AppendProperties
    <3>3. \A e \in Component \ {c} : messageQ'[e] = messageQ[e]
      BY <1>3 DEF QueuesTyped
    <3> QED BY <3>1, <3>2, <3>3
  <2>3. AskedToWait(c)'
    BY <1>1, <2>1, <2>2 DEF AskedToWait
  <2>4. ToldIdle(messageQ'[c]) => k = StateSet("Idle")
    BY <2>2 DEF ToldIdle, ToSet
  <2>5. ~ToldIdle(messageQ[c])
    BY <2>1, EmptySeq DEF ToldIdle, ToSet
  <2>6. Waiter(c)'
    BY <1>1, <2>1, <2>2, <2>3, <2>4, <2>5 DEF WaitInv, Waiter, InWaitingList
  <2>7. \A e \in Component \ {c} : Waiter(e)'
    BY <1>2, <2>2
  <2> QED BY <1>1, <2>6, <2>7 DEF WaitInv, Waiter
<1>4. CASE UNCHANGED messageQ
  BY <1>1, <1>2, <1>4 DEF WaitInv, Waiter
<1>5. UNCHANGED messageQ \/ \E k \in Commands :
        SendCommand(c, k) /\ messageQ' = [messageQ EXCEPT ![c] = Append(@, k)]
  BY DEF Client, SendCommand, UseBuffer, AllocateBuffer, BufferAssigned, FreeBuffer
<1> QED BY <1>3, <1>4, <1>5

(* Every step of a handler is one of these, as far as waiting is concerned. *)
LEMMA HandlerWaitStep ==
  ASSUME TypeOK, TypeOK', Staged, WaitInv, SerialClient, MAX_QUEUE_ELEMENTS > 2,
         NEW c \in Component, Handler(c)
  PROVE  WaitInv'
<1> USE TypeParts, TypedQueues, NextQueues
<1> DEFINE waiting == gpVideoRMWaitingList
<1>a. /\ waiting \in Seq(Component) /\ IsInjective(waiting)
      /\ \A e \in Component : Waiter(e)
      /\ pc \in [Component -> Labels] /\ currentState \in [Component -> State]
      /\ messageQ \in [Component -> Seq(AllCommands)]
  BY DEF WaitInv, Waiter, ListsTyped, ThreadsTyped, StatesTyped, QueuesTyped
<1>b. \A e \in Component \ {c} : SameAt(e)
  BY <1>a DEF SameAt, Handler, StateSetPlain, StateSetRefused, EnableReceived, DisableReceived, StartAt,
       WaitForResources, StopWaiting, GetResource, EvictAndGetResource, GetResourceRefused, LoadPort,
       NextPort, PortDone, Enter, Goto, InitDone, InitFailed,
       ReleaseForLoaded, Terminate, UnloadPort, ReleaseForInvalid, Invalidate,
       EnablePort, EnableWait, DisablePort, DisableWait, threadVars
<1>c. \A e \in Component : currentState[e] # "Invalid" /\ e \in ToSet(waiting)
                           => currentState[e] = "WaitForResources"
  BY <1>a DEF Waiter, InWaitingList
<1>d. StateSet("Idle") \in AllCommands /\ StateSet("Loaded") \in AllCommands
      /\ StateSet("Idle") # Wait /\ StateSet("Loaded") # StateSet("Idle") /\ StateSet("Invalid") # StateSet("Idle")
  BY IdleAndLoadedAreCommands DEF StateSet, Wait
<1>e. ASSUME IsInjective(waiting'), \A e \in Component : Waiter(e)' PROVE WaitInv'
  BY <1>e DEF WaitInv, Waiter
(* Nobody else is concerned. *)
<1>f. ASSUME SameMembers \/ \A e \in Component \ {c} : e \in ToSet(waiting') <=> e \in ToSet(waiting),
             \A e \in Component \ {c} : messageQ'[e] = messageQ[e]
      PROVE  \A e \in Component \ {c} : Waiter(e)'
  BY <1>a, <1>b, <1>f, WaiterKept DEF SameMembers
(* A command is taken and leaves the state. *)
<1>1. ASSUME NEW k, Received(c, k), UNCHANGED waiting, currentState'[c] = currentState[c],
             currentState[c] = "WaitForResources" => k # StateSet("Idle")
      PROVE  WaitInv'
  <2>1. Took(c, k) /\ \A e \in Component \ {c} : messageQ'[e] = messageQ[e]
    BY <1>1, TookOne
  <2>2. Waiter(c)'
    BY <1>a, <1>1, <2>1, WaiterProcesses
  <2> QED BY <1>a, <1>e, <1>f, <1>1, <2>1, <2>2
(* The component does not wait, before and after the step. *)
<1>2. ASSUME UNCHANGED waiting, c \notin ToSet(waiting) \/ currentState'[c] = "Invalid",
             currentState'[c] # "WaitForResources",
             (\E k : Received(c, k)) \/ (pc[c] # "message" /\ UNCHANGED messageQ)
      PROVE  WaitInv'
  <2>1. \/ \E k : Took(c, k)
        \/ pc[c] # "message" /\ messageQ'[c] = messageQ[c]
    BY <1>2, TookOne
  <2>2. \A e \in Component \ {c} : messageQ'[e] = messageQ[e]
    BY <1>2, TookOne
  <2>3. Waiter(c)'
    BY <1>a, <1>2, <2>1, WaiterLeaves
  <2> QED BY <1>a, <1>e, <1>f, <1>2, <2>2, <2>3
(* It goes on with a command. *)
<1>3. ASSUME UNCHANGED <<waiting, currentState, messageQ>>, pc[c] # "message" PROVE WaitInv'
  <2>1. Waiter(c)'
    BY <1>a, <1>3 DEF Waiter, AskedToWait, InWaitingList
  <2> QED BY <1>a, <1>e, <1>f, <1>3, <2>1
<1>4. ASSUME NEW k \in AllCommands, StateSetPlain(c, k) PROVE WaitInv'
  <2>1. /\ Received(c, k) /\ k.type = "StateSet" /\ UNCHANGED waiting
        /\ currentState'[c] \notin {"WaitForResources", "Loaded"}
        /\ currentState[c] \notin {"Invalid", "Loaded"}
        /\ currentState[c] = "WaitForResources" => k.param = "Idle"
    BY <1>4, <1>a DEF StateSetPlain, PlainTransition, rmVars
  <2>2. Took(c, k) BY <2>1, TookOne
  <2>3. currentState[c] = "WaitForResources" => k = StateSet("Idle")
    BY <2>1 DEF AllCommands, StateSet, PortEnable, PortDisable
  <2>4. currentState[c] = "WaitForResources" => ToldIdle(messageQ[c])
    BY <2>2, <2>3 DEF Took, ToldIdle, ToSet
  <2>5. c \notin ToSet(waiting)
    BY <1>a, <2>1, <2>4 DEF Waiter, InWaitingList
  <2> QED BY <1>2, <2>1, <2>5
<1>5. ASSUME NEW k \in AllCommands,
             \/ StateSetRefused(c, k) \/ EnableReceived(c, k) \/ DisableReceived(c, k)
      PROVE  WaitInv'
  <2>1. /\ Received(c, k) /\ UNCHANGED <<waiting, currentState>>
        /\ currentState[c] = "WaitForResources" => k # StateSet("Idle")
    BY <1>5 DEF StateSetRefused, PlainTransition, EnableReceived, DisableReceived, StateSet, rmVars
  <2> QED BY <1>1, <2>1
<1>6. CASE WaitForResources(c)
  <2>1. /\ Received(c, Wait) /\ currentState[c] = "Loaded" /\ waiting' = Append(waiting, c)
        /\ currentState'[c] = "WaitForResources"
    BY <1>6, <1>a DEF WaitForResources, Wait
  <2>2. Took(c, Wait) /\ \A e \in Component \ {c} : messageQ'[e] = messageQ[e]
    BY <2>1, TookOne
  <2>3. Len(messageQ'[c]) = 0
    BY <1>a, <2>1, <2>2 DEF Waiter, AskedToWait, Took
  <2>4. c \notin ToSet(waiting)
    BY <1>c, <2>1
  <2>5. IsInjective(waiting') /\ ToSet(waiting') = ToSet(waiting) \union {c}
    BY <1>a, <2>1, <2>4, Appended, AppendedInjective
  <2>6. Waiter(c)'
    BY <2>1, <2>3, <2>5 DEF Waiter, AskedToWait, InWaitingList, ToldIdle, ToSet
  <2> QED BY <1>e, <1>f, <2>2, <2>5, <2>6
<1>7. CASE StopWaiting(c)
  <2>1. /\ Received(c, StateSet("Loaded")) /\ waiting' = RemoveFirst(waiting, c)
        /\ currentState'[c] = "Loaded"
    BY <1>7, <1>a DEF StopWaiting
  <2>2. Took(c, StateSet("Loaded")) /\ \A e \in Component \ {c} : messageQ'[e] = messageQ[e]
    BY <2>1, TookOne
  <2>3. IsInjective(waiting') /\ ToSet(waiting') = ToSet(waiting) \ {c}
    BY <1>a, <2>1, MaybeRemoved
  <2>4. Waiter(c)'
    BY <1>a, <2>1, <2>2, <2>3, WaiterLeaves
  <2> QED BY <1>e, <1>f, <2>2, <2>3, <2>4
<1>8. CASE GetResource(c) \/ GetResourceRefused(c)
  <2>1. /\ Received(c, StateSet("Idle")) /\ UNCHANGED <<waiting, currentState>>
        /\ currentState[c] = "Loaded"
    BY <1>8 DEF GetResource, GetResourceRefused, ToIdle, rmVars
  <2> QED BY <1>1, <2>1
<1>9. ASSUME NEW v \in Component, EvictAndGetResource(c, v) PROVE WaitInv'
  <2>1. UNCHANGED <<waiting, currentState>> /\ currentState[c] = "Loaded"
    BY <1>9 DEF EvictAndGetResource, ToIdle
  <2>2. CASE currentState[v] # "Idle"
    BY <1>1, <1>9, <2>1, <2>2 DEF EvictAndGetResource
  <2>3. CASE currentState[v] = "Idle"
    <3>1. v # c /\ ReceivedSending(c, StateSet("Idle"), v, StateSet("Loaded"))
      BY <1>9, <2>1, <2>3 DEF EvictAndGetResource
    <3>2. /\ Took(c, StateSet("Idle")) /\ Gained(v, StateSet("Loaded"))
          /\ \A e \in Component \ {c, v} : messageQ'[e] = messageQ[e]
      BY <3>1, <1>d, TookAndGave
    <3>3. Waiter(c)'
      BY <1>a, <2>1, <3>2, WaiterProcesses
    <3>4. Waiter(v)'
      BY <1>a, <1>b, <2>1, <2>3, <3>1, <3>2, WaiterTold
    <3>5. \A e \in Component \ {c, v} : Waiter(e)'
      BY <1>a, <1>b, <2>1, <3>2, WaiterKept
    <3> QED BY <1>a, <1>e, <2>1, <3>3, <3>4, <3>5
  <2> QED BY <2>2, <2>3
<1>10. ASSUME NEW k, k \in {StateSet("Loaded"), StateSet("Invalid")}, ReleaseResource(c, k),
              UNCHANGED currentState, currentState[c] \in Running
       PROVE  WaitInv'
  <2>1. c \notin ToSet(waiting)
    BY <1>10, <1>a DEF Waiter, InWaitingList, Running
  <2>2. CASE UNCHANGED waiting /\ Received(c, k)
    BY <1>1, <1>10, <2>2 DEF Running
  <2>w. PICK w : w = Head(waiting)
    OBVIOUS
  <2>3. ASSUME waiting # <<>>, waiting' = Tail(waiting)
        PROVE  /\ w \in Component /\ w \in ToSet(waiting) /\ w # c
               /\ IsInjective(waiting') /\ ToSet(waiting') = ToSet(waiting) \ {w}
    BY <1>a, <2>1, <2>3, <2>w, FirstTaken, FirstOfInjective
  <2>4. ASSUME waiting # <<>>, waiting' = Tail(waiting), currentState[w] = "Invalid", Received(c, k)
        PROVE  WaitInv'
    <3>1. Took(c, k) /\ \A e \in Component \ {c} : messageQ'[e] = messageQ[e]
      BY <2>4, TookOne
    <3>2. \A e \in Component \ {w} : e \in ToSet(waiting') <=> e \in ToSet(waiting)
      BY <2>3, <2>4
    <3>3. Waiter(c)'
      BY <1>a, <1>10, <2>3, <2>4, <3>1, <3>2, WaiterProcesses DEF Running
    <3>4. Waiter(w)'
      BY <1>a, <1>b, <2>3, <2>4, <3>1 DEF Waiter, AskedToWait, InWaitingList, SameAt
    <3>5. \A e \in Component \ {c, w} : Waiter(e)'
      BY <1>a, <1>b, <3>1, <3>2, WaiterKept
    <3> QED BY <1>e, <2>3, <2>4, <3>3, <3>4, <3>5
  <2>5. ASSUME waiting # <<>>, waiting' = Tail(waiting), currentState[w] # "Invalid",
               ReceivedSending(c, k, w, StateSet("Idle"))
        PROVE  WaitInv'
    <3>1. /\ w \in Component \ {c} /\ currentState[w] = "WaitForResources"
          /\ \A e \in Component \ {w} : e \in ToSet(waiting') <=> e \in ToSet(waiting)
          /\ w \notin ToSet(waiting') /\ IsInjective(waiting')
      BY <1>c, <2>3, <2>5
    <3>2. /\ Took(c, k) /\ Gained(w, StateSet("Idle"))
          /\ \A e \in Component \ {c, w} : messageQ'[e] = messageQ[e]
      BY <1>d, <2>5, <3>1, TookAndGave
    <3>3. Len(messageQ[w]) <= 1
      BY <1>a, <2>3, <2>5, <3>1 DEF Waiter, InWaitingList
    <3>4. Queueable(messageQ[w])
      BY <3>1, <3>3, OmxLifecycleAssumption DEF Queueable
    <3>5. Waiter(c)'
      BY <1>a, <1>10, <3>1, <3>2, WaiterProcesses DEF Running
    <3>6. Waiter(w)'
      BY <1>a, <1>b, <3>1, <3>2, <3>4, WaiterTold
    <3>7. \A e \in Component \ {c, w} : Waiter(e)'
      BY <1>a, <1>b, <3>1, <3>2, WaiterKept
    <3> QED BY <1>e, <3>1, <3>5, <3>6, <3>7
  <2>6. \/ UNCHANGED waiting /\ Received(c, k)
        \/ /\ waiting # <<>> /\ waiting' = Tail(waiting)
           /\ \/ currentState[w] = "Invalid" /\ Received(c, k)
              \/ currentState[w] # "Invalid" /\ ReceivedSending(c, k, w, StateSet("Idle"))
    BY <1>10, <2>w DEF ReleaseResource
  <2> QED BY <2>2, <2>4, <2>5, <2>6
<1>11. CASE ReleaseForLoaded(c)
  BY <1>10, <1>11 DEF ReleaseForLoaded, Running
<1>12. CASE ReleaseForInvalid(c) /\ currentState[c] \in Running
  BY <1>10, <1>12 DEF ReleaseForInvalid, Running
<1>13. CASE ReleaseForInvalid(c) /\ currentState[c] \notin Running
  <2>1. Received(c, StateSet("Invalid")) /\ UNCHANGED <<waiting, currentState>>
    BY <1>13 DEF ReleaseForInvalid, Running, rmVars
  <2> QED BY <1>1, <1>d, <2>1
<1>14. CASE LoadPort(c) \/ InitFailed(c) \/ Terminate(c)
            \/ EnablePort(c) \/ EnableWait(c) \/ DisablePort(c) \/ DisableWait(c)
  BY <1>3, <1>14 DEF LoadPort, InitFailed, Terminate, EnablePort, EnableWait, DisablePort,
                     DisableWait, rmVars
<1>15. CASE InitDone(c) \/ UnloadPort(c)
  <2>1. /\ currentState[c] \in {"Loaded", "Idle"} /\ pc[c] # "message"
        /\ UNCHANGED <<waiting, messageQ>>
        /\ currentState'[c] \in {currentState[c], "Loaded", "Idle"}
    BY <1>15, <1>a DEF InitDone, UnloadPort, Staged, rmVars
  <2>2. c \notin ToSet(waiting)
    BY <1>c, <2>1
  <2> QED BY <1>2, <2>1, <2>2
<1>16. CASE Invalidate(c)
  <2>1. /\ currentState'[c] = "Invalid" /\ pc[c] # "message" /\ UNCHANGED <<waiting, messageQ>>
    BY <1>16, <1>a DEF Invalidate, rmVars
  <2> QED BY <1>2, <2>1
<1> QED BY <1>4, <1>5, <1>6, <1>7, <1>8, <1>9, <1>11, <1>12, <1>13, <1>14, <1>15, <1>16 DEF Handler

(* A client awaits each command's outcome and a queue takes two commands: then
   a component that waits for resources is in the waiting list, once, or has
   been told to become Idle, for any number of components, whatever fails. *)
THEOREM NobodyForgotten ==
  ASSUME SerialClient, MAX_QUEUE_ELEMENTS > 2
  PROVE  Spec => []NoWaiterForgotten
<1>1. Init => WaitInv
  <2> SUFFICES ASSUME Init PROVE WaitInv
    OBVIOUS
  <2>1. gpVideoRMWaitingList = <<>> /\ \A c \in Component : messageQ[c] = <<>> /\ currentState[c] = "Loaded"
    BY DEF Init
  <2>2. IsInjective(gpVideoRMWaitingList) /\ ToSet(gpVideoRMWaitingList) = {}
    BY <2>1 DEF IsInjective, ToSet
  <2> QED BY <2>1, <2>2 DEF WaitInv, AskedToWait, InWaitingList
<1>2. ASSUME TypeOK, TypeOK', Staged, WaitInv, [Next]_vars PROVE WaitInv'
  <2>1. CASE UNCHANGED vars
    BY <1>2, <2>1 DEF vars, rmVars, threadVars, WaitInv, AskedToWait, InWaitingList
  <2>2. ASSUME NEW c \in Component, Client(c) \/ Handler(c) PROVE WaitInv'
    BY <1>2, <2>2, ClientWaitStep, HandlerWaitStep
  <2> QED BY <1>2, <2>1, <2>2 DEF Next
<1>3. TypeOK /\ WaitInv => NoWaiterForgotten
  <2> SUFFICES ASSUME TypeOK, WaitInv, NEW c \in Component
               PROVE  /\ Cardinality({i \in DOMAIN gpVideoRMWaitingList :
                                        gpVideoRMWaitingList[i] = c}) <= 1
                      /\ currentState[c] = "WaitForResources" =>
                           \/ c \in ToSet(gpVideoRMWaitingList)
                           \/ StateSet("Idle") \in ToSet(messageQ[c])
    BY DEF NoWaiterForgotten
  <2> DEFINE at == {i \in DOMAIN gpVideoRMWaitingList : gpVideoRMWaitingList[i] = c}
  <2>1. at = {} \/ \E i : at = {i}
    BY DEF WaitInv, IsInjective
  <2>2. Cardinality(at) = 0 \/ Cardinality(at) = 1
    BY <2>1, FS_EmptySet, FS_Singleton
  <2> QED BY <2>2 DEF WaitInv, ToldIdle
<1> QED BY <1>1, <1>2, <1>3, TypeCorrect, StagedHolds, PTL DEF Spec

-----------------------------------------------------------------------------
(* The buffers of a port and the tokens of its semaphores. *)

(* The command at the head of the queue. *)
Queued(c, k) == pc[c] = "message" /\ messageQ[c] # <<>> /\ Head(messageQ[c]) = k
(* The port's turn in the command that the handler processes is not over. *)
ToCome(c, p, labels) == pc[c] \in labels /\ p \in Target(nPortIndex[c]) /\ p >= port[c]

(* The client supplies the port's buffers for an enabling, or for the way to
   Idle, and the handler has not yet taken the token. *)
AsksEnable(c, p) ==
  \E n \in Port \union {ALL_PORT_INDEX} : Queued(c, PortEnable(n)) /\ p \in Target(n)
Enables(c, p) ==
  /\ currentState[c] \in Running
  /\ AsksEnable(c, p) \/ ToCome(c, p, {"enable", "enable_wait"})
Incoming(c, p) ==
  \/ Enables(c, p)
  \/ /\ currentState[c] = "Loaded" /\ bEnabled[c][p]
     /\ \/ Queued(c, StateSet("Idle"))
        \/ pc[c] = "load" /\ p >= port[c]

(* The client frees them. *)
AsksDisable(c, p) ==
  \E n \in Port \union {ALL_PORT_INDEX} : Queued(c, PortDisable(n)) /\ p \in Target(n)
Outgoing(c, p) ==
  /\ currentState[c] \in Running /\ bEnabled[c][p]
  /\ \/ currentState[c] = "Idle" /\ Queued(c, StateSet("Loaded"))
     \/ pc[c] = "terminate"
     \/ pc[c] = "unload" /\ p >= port[c]
     \/ AsksDisable(c, p)
     \/ ToCome(c, p, {"disable", "disable_wait", "spin", "stuck"})

(* The port has all its buffers and the handler knows it. *)
Full(c, p) ==
  /\ bEnabled[c][p] /\ ~Incoming(c, p) /\ ~Outgoing(c, p)
  /\ \/ currentState[c] \in Running /\ pc[c] # "unload"
     \/ pc[c] \in {"load", "init"}

(* The ports a command is done with are enabled or disabled, those to come are not. *)
Switched(c, p) ==
  /\ Enables(c, p) => (bEnabled[c][p] <=> pc[c] = "enable_wait" /\ p = port[c])
  /\ p \in Target(nPortIndex[c]) /\ p < port[c] =>
       /\ pc[c] \in {"enable", "enable_wait"} => bEnabled[c][p]
       /\ pc[c] \in {"disable", "disable_wait", "spin", "stuck"} => ~bEnabled[c][p]

PortInv(c, p) ==
  LET a == assignedBufferNum[c][p]  n == nBufferCountActual IN
  /\ Switched(c, p)
  /\ Incoming(c, p) => /\ unloadedResource[c][p] = 0
                       /\ loadedResource[c][p] = IF a = n THEN 1 ELSE 0
                       /\ bPopulated[c][p] <=> a = n
  /\ Outgoing(c, p) => /\ loadedResource[c][p] = 0
                       /\ unloadedResource[c][p] = IF a = 0 THEN 1 ELSE 0
                       /\ a = 0 => ~bPopulated[c][p]
                       /\ pc[c] = "disable_wait" /\ p = port[c] => ~bPopulated[c][p]
  /\ Full(c, p) => /\ a = n /\ bPopulated[c][p]
                   /\ loadedResource[c][p] = 0 /\ unloadedResource[c][p] = 0
  /\ ~Incoming(c, p) /\ ~Outgoing(c, p) /\ ~Full(c, p) /\ currentState[c] # "Invalid"
     => /\ a = 0 /\ ~bPopulated[c][p]
        /\ loadedResource[c][p] = 0 /\ unloadedResource[c][p] = 0
  /\ currentState[c] = "Invalid"
     => loadedResource[c][p] = 0 /\ (unloadedResource[c][p] > 0 => a = 0)

(* At most one command is under way, and nobody but the client sends any. *)
OneCommand(c) ==
  /\ Len(messageQ[c]) <= 1
  /\ pc[c] # "message" => messageQ[c] = <<>>
  /\ currentState[c] = "Invalid" => HandlerIdle(c)
  /\ pc[c] \in {"enable_wait", "disable_wait"} => currentState[c] \in Running
  /\ pc[c] = "terminate" => port[c] = 0
  /\ pc[c] \in {"enable", "enable_wait", "disable", "disable_wait", "spin", "stuck"}
     => port[c] \in Target(nPortIndex[c])

PopulationInv ==
  /\ gpVideoRMWaitingList = <<>>
  /\ \A c \in Component : OneCommand(c) /\ \A p \in Port : PortInv(c, p)

(* A list without repetitions of some of the components, but not of this one, is
   shorter than there are components. *)
LEMMA RoomForAll ==
  ASSUME IsFiniteSet(Component), NEW s \in Seq(Component), IsInjective(s),
         NEW c \in Component, c \notin ToSet(s)
  PROVE  Len(s) < Cardinality(Component)
<1>1. Len(s) \in Nat /\ DOMAIN s = 1 .. Len(s) /\ \A i \in 1 .. Len(s) : s[i] \in Component
  BY LenProperties, ElementOfSeq
<1>2. ExistsBijection(1 .. Len(s), ToSet(s))
  <2> DEFINE f == [i \in 1 .. Len(s) |-> s[i]]
  <2>1. f \in Bijection(1 .. Len(s), ToSet(s))
    BY <1>1 DEF Bijection, Injection, Surjection, IsInjective, ToSet
  <2> QED BY <2>1 DEF ExistsBijection
<1>3. Cardinality(ToSet(s)) = Len(s)
  BY <1>1, <1>2, FS_CountingElements
<1>4. ToSet(s) \subseteq Component \ {c}
  BY <1>1 DEF ToSet
<1>5. IsFiniteSet(Component \ {c}) /\ Cardinality(Component \ {c}) = Cardinality(Component) - 1
  BY FS_RemoveElement
<1>6. Cardinality(ToSet(s)) <= Cardinality(Component \ {c})
  BY <1>4, <1>5, FS_Subset
<1>7. Cardinality(Component) \in Nat
  BY FS_CardinalityType
<1> QED BY <1>1, <1>3, <1>5, <1>6, <1>7

(* Clients that await each outcome and do not ask to wait; initialisations that
   succeed; and an entry of the resource manager's list for every component. *)
Undisturbed ==
  /\ SerialClient /\ ~InitFails /\ StateSet("WaitForResources") \notin Commands
  /\ IsFiniteSet(Component) /\ Cardinality(Component) <= MAX_RESOURCE_VIDEO

LEMMA AlwaysRoom ==
  ASSUME Undisturbed, TypeOK, CodecInv, ListedIsHeld, NEW c \in Component, ToIdle(c)
  PROVE  ListHasRoom
<1>1. ~Holding(c)
  BY DEF ToIdle, Receives, CodecInv, Holding, Running
<1>2. Len(gpVideoRMComponentList) < Cardinality(Component)
  BY <1>1, RoomForAll DEF Undisturbed, TypeOK, ListedIsHeld
<1>3. Len(gpVideoRMComponentList) \in Nat /\ Cardinality(Component) \in Nat
      /\ MAX_RESOURCE_VIDEO \in Nat /\ Cardinality(Component) <= MAX_RESOURCE_VIDEO
  BY LenProperties, FS_CardinalityType, OmxLifecycleAssumption DEF TypeOK, Undisturbed
<1> QED BY <1>2, <1>3 DEF ListHasRoom

(* A component that another one's step leaves alone. *)
Untouched(e) ==
  /\ messageQ'[e] = messageQ[e] /\ currentState'[e] = currentState[e]
  /\ pc'[e] = pc[e] /\ port'[e] = port[e] /\ nPortIndex'[e] = nPortIndex[e]
  /\ bEnabled'[e] = bEnabled[e] /\ bPopulated'[e] = bPopulated[e]
  /\ assignedBufferNum'[e] = assignedBufferNum[e]
  /\ loadedResource'[e] = loadedResource[e] /\ unloadedResource'[e] = unloadedResource[e]

Population(c) == OneCommand(c) /\ \A p \in Port : PortInv(c, p)

LEMMA UntouchedKept ==
  ASSUME NEW e \in Component, Population(e), Untouched(e)
  PROVE  Population(e)'
<1>1. OneCommand(e)'
  BY DEF Population, Untouched, OneCommand, HandlerIdle
<1>2. ASSUME NEW p \in Port PROVE PortInv(e, p)'
  <2>1. /\ AsksEnable(e, p)' <=> AsksEnable(e, p)
        /\ AsksDisable(e, p)' <=> AsksDisable(e, p)
        /\ Queued(e, StateSet("Idle"))' <=> Queued(e, StateSet("Idle"))
        /\ Queued(e, StateSet("Loaded"))' <=> Queued(e, StateSet("Loaded"))
    BY DEF Untouched, AsksEnable, AsksDisable, Queued
  <2> QED BY <2>1 DEF Population, Untouched, PortInv, Switched, Enables, Incoming, Outgoing, Full, ToCome
<1> QED BY <1>1, <1>2 DEF Population

(* What a handler's step takes and sends, when nobody waits and there is room. *)
LEMMA NothingSent ==
  ASSUME Undisturbed, TypeOK, CodecInv, ListedIsHeld, NeverWaits, gpVideoRMWaitingList = <<>>,
         NEW c \in Component, Client(c) \/ Handler(c)
  PROVE  /\ \A v \in Component : ~EvictAndGetResource(c, v)
         /\ ~GetResourceRefused(c) /\ ~WaitForResources(c) /\ ~StopWaiting(c) /\ ~InitFailed(c)
         /\ \A k : ReleaseResource(c, k) => Received(c, k)
         /\ gpVideoRMWaitingList' = <<>>
<1>1. /\ \A v \in Component : ~EvictAndGetResource(c, v)
      /\ ~GetResourceRefused(c)
  BY AlwaysRoom DEF EvictAndGetResource, GetResourceRefused
<1>2. ~WaitForResources(c)
  BY ReceivedOne, TypeParts DEF WaitForResources, NeverWaits
<1>3. ~StopWaiting(c) /\ ~InitFailed(c)
  BY DEF StopWaiting, NeverWaits, InitFailed, Undisturbed
<1>4. \A k : ReleaseResource(c, k) => Received(c, k) /\ gpVideoRMWaitingList' = <<>>
  BY DEF ReleaseResource
<1>5. CASE ReleaseForLoaded(c) \/ ReleaseForInvalid(c)
  BY <1>1, <1>2, <1>3, <1>4, <1>5 DEF ReleaseForLoaded, ReleaseForInvalid, rmVars
<1>6. CASE ~(ReleaseForLoaded(c) \/ ReleaseForInvalid(c))
  <2>1. UNCHANGED gpVideoRMWaitingList
    BY <1>1, <1>2, <1>3, <1>6
       DEF Client, SendCommand, UseBuffer, AllocateBuffer, BufferAssigned, FreeBuffer,
           Handler, StateSetPlain, StateSetRefused, EnableReceived, DisableReceived, GetResource,
           LoadPort, InitDone, Terminate, UnloadPort, Invalidate, EnablePort, EnableWait,
           DisablePort, DisableWait, rmVars
  <2> QED BY <1>1, <1>2, <1>3, <1>4, <2>1
<1> QED BY <1>5, <1>6

(* The command that is taken is the only one. *)
LEMMA OnlyOneTaken ==
  ASSUME TypeOK, NEW c \in Component, NEW k, Received(c, k), OneCommand(c)
  PROVE  /\ messageQ'[c] = <<>> /\ Queued(c, k) /\ pc[c] = "message"
         /\ currentState[c] # "Invalid" /\ k \in AllCommands
         /\ \A e \in Component \ {c} : messageQ'[e] = messageQ[e]
<1>1. /\ messageQ[c] \in Seq(AllCommands) /\ messageQ[c] # <<>> /\ k = Head(messageQ[c])
      /\ pc[c] = "message" /\ Len(messageQ[c]) <= 1
  BY DEF TypeOK, Received, Receives, OneCommand
<1>2. /\ Tail(messageQ[c]) \in Seq(AllCommands) /\ Len(messageQ[c]) \in Nat
      /\ Len(Tail(messageQ[c])) = Len(messageQ[c]) - 1 /\ k \in AllCommands
  BY <1>1, FirstTaken
<1>3. Tail(messageQ[c]) = <<>>
  <2>1. Len(Tail(messageQ[c])) <= 0 BY <1>1, <1>2
  <2> QED BY <1>2, <2>1, LenProperties, EmptySeq
<1>4. messageQ'[c] = Tail(messageQ[c]) /\ \A e \in Component \ {c} : messageQ'[e] = messageQ[e]
  BY DEF TypeOK, Received
<1> QED BY <1>1, <1>2, <1>3, <1>4 DEF Queued, OneCommand, HandlerIdle

(* What a step changes for one component is nothing to the others. *)
LEMMA OthersUntouched ==
  ASSUME Undisturbed, TypeOK, CodecInv, ListedIsHeld, NeverWaits, PopulationInv,
         NEW c \in Component, Client(c) \/ Handler(c), NEW e \in Component \ {c}
  PROVE  Untouched(e)
<1>1. /\ messageQ \in [Component -> Seq(AllCommands)] /\ currentState \in [Component -> State]
      /\ bEnabled \in [Component -> [Port -> BOOLEAN]]
      /\ bPopulated \in [Component -> [Port -> BOOLEAN]]
      /\ assignedBufferNum \in [Component -> [Port -> 0 .. nBufferCountActual]]
      /\ loadedResource \in [Component -> [Port -> Nat]]
      /\ unloadedResource \in [Component -> [Port -> Nat]]
      /\ pc \in [Component -> Labels] /\ port \in [Component -> Port]
      /\ nPortIndex \in [Component -> Port \union {ALL_PORT_INDEX}]
  BY DEF TypeOK, PerPort, Labels
<1>2. CASE Client(c)
  <2>1. ASSUME NEW k \in Commands, SendCommand(c, k) PROVE Untouched(e)
    BY <1>1, <2>1 DEF SendCommand, portVars, threadVars, Untouched
  <2>2. ASSUME NEW p \in Port, BufferAssigned(c, p) PROVE Untouched(e)
    BY <1>1, <2>2 DEF BufferAssigned, threadVars, Untouched
  <2>3. ASSUME NEW p \in Port, FreeBuffer(c, p) PROVE Untouched(e)
    BY <1>1, <2>3 DEF FreeBuffer, threadVars, Untouched
  <2> QED BY <1>2, <2>1, <2>2, <2>3 DEF Client, UseBuffer, AllocateBuffer
<1>3. CASE Handler(c)
  <2>0. /\ \A v \in Component : ~EvictAndGetResource(c, v)
        /\ ~GetResourceRefused(c) /\ ~WaitForResources(c) /\ ~StopWaiting(c) /\ ~InitFailed(c)
        /\ \A k : ReleaseResource(c, k) => Received(c, k)
    BY <1>3, NothingSent DEF PopulationInv
  <2>a. ASSUME NEW k, Received(c, k) PROVE messageQ'[e] = messageQ[e]
    BY <2>a, OnlyOneTaken DEF PopulationInv
  <2>1. ASSUME NEW k \in AllCommands,
               \/ StateSetPlain(c, k) \/ StateSetRefused(c, k)
               \/ EnableReceived(c, k) \/ DisableReceived(c, k)
        PROVE  Untouched(e)
    <3>1. messageQ'[e] = messageQ[e]
      BY <2>1, <2>a DEF StateSetPlain, StateSetRefused, EnableReceived, DisableReceived
    <3> QED BY <1>1, <2>1, <3>1
         DEF StateSetPlain, StateSetRefused, EnableReceived, DisableReceived, StartAt, Goto,
             portVars, threadVars, Untouched
  <2>2. CASE GetResource(c) \/ ReleaseForLoaded(c) \/ ReleaseForInvalid(c)
    <3>1. messageQ'[e] = messageQ[e]
      BY <2>2, <2>0, <2>a DEF GetResource, ReleaseForLoaded, ReleaseForInvalid
    <3> QED BY <1>1, <2>2, <3>1
         DEF GetResource, ReleaseForLoaded, ReleaseForInvalid, Enter, Goto, portVars, Untouched
  <2>3. CASE LoadPort(c) \/ UnloadPort(c)
    BY <1>1, <2>3 DEF LoadPort, UnloadPort, NextPort, Goto, Untouched
  <2>4. CASE InitDone(c) \/ Terminate(c) \/ Invalidate(c)
    BY <1>1, <2>4 DEF InitDone, Terminate, Invalidate, Goto, portVars, Untouched
  <2>b. ASSUME NEW label, PortDone(c, label) \/ (Goto(c, label) /\ UNCHANGED port)
        PROVE  pc'[e] = pc[e] /\ port'[e] = port[e]
    BY <1>1, <2>b DEF PortDone, NextPort, Goto
  <2>5. CASE EnablePort(c) \/ EnableWait(c)
    <3>1. \E label : PortDone(c, label) \/ (Goto(c, label) /\ UNCHANGED port)
      BY <2>5, Zenon DEF EnablePort, EnableWait
    <3>2. pc'[e] = pc[e] /\ port'[e] = port[e]
      BY <2>b, <3>1
    <3> QED BY <1>1, <2>5, <3>2 DEF EnablePort, EnableWait, Untouched
  <2>6. CASE DisablePort(c) \/ DisableWait(c)
    <3>1. \E label : PortDone(c, label) \/ (Goto(c, label) /\ UNCHANGED port)
      BY <2>6 DEF DisablePort, DisableWait
    <3>2. pc'[e] = pc[e] /\ port'[e] = port[e]
      BY <2>b, <3>1
    <3> QED BY <1>1, <2>6, <3>2 DEF DisablePort, DisableWait, Untouched
  <2> QED BY <1>3, <2>0, <2>1, <2>2, <2>3, <2>4, <2>5, <2>6 DEF Handler
<1> QED BY <1>2, <1>3

(* What is queued. *)
LEMMA NothingQueued ==
  ASSUME NEW c, NEW p, messageQ[c] = <<>> \/ pc[c] # "message"
  PROVE  ~AsksEnable(c, p) /\ ~AsksDisable(c, p) /\ \A k : ~Queued(c, k)
BY DEF AsksEnable, AsksDisable, Queued

LEMMA NothingQueuedNext ==
  ASSUME NEW c, NEW p, messageQ'[c] = <<>> \/ pc'[c] # "message"
  PROVE  ~AsksEnable(c, p)' /\ ~AsksDisable(c, p)' /\ \A k : ~Queued(c, k)'
BY DEF AsksEnable, AsksDisable, Queued

LEMMA QueuedIs ==
  ASSUME NEW c \in Component, NEW p \in Port, NEW k \in AllCommands, Queued(c, k)
  PROVE  /\ AsksEnable(c, p) <=> k.type = "PortEnable" /\ p \in Target(k.param)
         /\ AsksDisable(c, p) <=> k.type = "PortDisable" /\ p \in Target(k.param)
         /\ \A m : Queued(c, m) <=> m = k
<1>1. \A m : Queued(c, m) <=> m = k
  BY DEF Queued
<1>2. /\ k.type = "PortEnable" <=> \E n \in Port \union {ALL_PORT_INDEX} : k = PortEnable(n)
      /\ k.type = "PortDisable" <=> \E n \in Port \union {ALL_PORT_INDEX} : k = PortDisable(n)
      /\ \A n : PortEnable(n).param = n /\ PortDisable(n).param = n
  BY DEF AllCommands, StateSet, PortEnable, PortDisable
<1> QED BY <1>1, <1>2 DEF AsksEnable, AsksDisable

LEMMA QueuedIsNext ==
  ASSUME NEW c \in Component, NEW p \in Port, NEW k \in AllCommands, Queued(c, k)'
  PROVE  /\ AsksEnable(c, p)' <=> k.type = "PortEnable" /\ p \in Target(k.param)
         /\ AsksDisable(c, p)' <=> k.type = "PortDisable" /\ p \in Target(k.param)
         /\ \A m : Queued(c, m)' <=> m = k
<1>1. \A m : Queued(c, m)' <=> m = k
  BY DEF Queued
<1>2. /\ k.type = "PortEnable" <=> \E n \in Port \union {ALL_PORT_INDEX} : k = PortEnable(n)
      /\ k.type = "PortDisable" <=> \E n \in Port \union {ALL_PORT_INDEX} : k = PortDisable(n)
      /\ \A n : PortEnable(n).param = n /\ PortDisable(n).param = n
  BY DEF AllCommands, StateSet, PortEnable, PortDisable
<1> QED BY <1>1, <1>2 DEF AsksEnable, AsksDisable

PortTyped(c, p) ==
  /\ bEnabled[c][p] \in BOOLEAN /\ bPopulated[c][p] \in BOOLEAN
  /\ assignedBufferNum[c][p] \in 0 .. nBufferCountActual
  /\ loadedResource[c][p] \in Nat /\ unloadedResource[c][p] \in Nat
  /\ p \in Nat /\ port[c] \in Nat /\ nBufferCountActual \in Nat \ {0}
  /\ nPortIndex[c] \in Port \union {ALL_PORT_INDEX} /\ port[c] \in Port
  /\ pc[c] \in Labels /\ currentState[c] \in State

LEMMA TypedPort ==
  ASSUME TypeOK, NEW c \in Component, NEW p \in Port
  PROVE  PortTyped(c, p)
<1>1. /\ bEnabled[c][p] \in BOOLEAN /\ bPopulated[c][p] \in BOOLEAN
      /\ assignedBufferNum[c][p] \in 0 .. nBufferCountActual
      /\ loadedResource[c][p] \in Nat /\ unloadedResource[c][p] \in Nat
  BY DEF TypeOK, PerPort
<1>2. /\ port[c] \in Port /\ nPortIndex[c] \in Port \union {ALL_PORT_INDEX}
      /\ pc[c] \in Labels /\ currentState[c] \in State
  BY DEF TypeOK, Labels
<1>3. Port \subseteq Nat /\ nBufferCountActual \in Nat \ {0}
  BY OmxLifecycleAssumption DEF Port
<1> QED BY <1>1, <1>2, <1>3 DEF PortTyped

(* Whom the client supplies with buffers, and whose it frees. *)
LEMMA SuppliesWhatIsIncoming ==
  ASSUME TypeOK, NeverWaits, Staged, NEW c \in Component, Population(c), NEW p \in Port,
         Supplying(c, p), assignedBufferNum[c][p] < nBufferCountActual
  PROVE  Incoming(c, p)
<1>1. PortTyped(c, p) /\ PortInv(c, p) /\ OneCommand(c) /\ currentState[c] # "WaitForResources"
  BY TypedPort DEF Population, NeverWaits
<1>2. CASE pc[c] = "message"
  <2>1. messageQ[c] # <<>> /\ Outstanding(c) = Head(messageQ[c]) /\ Queued(c, Outstanding(c))
    BY <1>2 DEF Supplying, HandlerIdle, Outstanding, Queued
  <2>2. Outstanding(c) \in AllCommands
    BY <2>1, FirstTaken DEF TypeOK
  <2>3. CASE Outstanding(c) = StateSet("Idle") /\ currentState[c] = "Loaded" /\ bEnabled[c][p]
    BY <2>1, <2>3 DEF Incoming
  <2>4. CASE /\ Outstanding(c).type = "PortEnable" /\ p \in Target(Outstanding(c).param)
             /\ currentState[c] \notin {"Loaded", "WaitForResources"}
    <3>1. currentState[c] \in Running
      BY <1>1, <2>1, <2>4 DEF OneCommand, HandlerIdle, PortTyped, State, Running
    <3>2. AsksEnable(c, p)
      BY <2>1, <2>2, <2>4, QueuedIs
    <3> QED BY <3>1, <3>2 DEF Incoming, Enables
  <2> QED BY <2>3, <2>4 DEF Supplying
<1>3. CASE pc[c] # "message"
  <2>1. currentState[c] \in Running \union {"Loaded"}
    BY <1>1, <1>3 DEF OneCommand, HandlerIdle, PortTyped, State, Running
  <2>2. CASE pc[c] \in {"load", "init"}
    <3>1. Outstanding(c) = StateSet("Idle") /\ currentState[c] = "Loaded" /\ bEnabled[c][p]
      BY <2>2 DEF Outstanding, Supplying, StateSet, Staged
    <3>2. ~AsksEnable(c, p) /\ ~AsksDisable(c, p) /\ \A k : ~Queued(c, k)
      BY <1>3, NothingQueued
    <3> QED BY <1>1, <2>2, <3>1, <3>2
         DEF PortInv, Incoming, Outgoing, Full, Enables, ToCome, Running, PortTyped
  <2>3. CASE pc[c] \in {"enable", "enable_wait"}
    <3>1. /\ p \in Target(nPortIndex[c]) /\ currentState[c] \in Running
      BY <2>1, <2>3 DEF Outstanding, Supplying, StateSet, PortEnable, Running
    <3>2. ~AsksEnable(c, p) /\ ~AsksDisable(c, p) /\ \A k : ~Queued(c, k)
      BY <1>3, NothingQueued
    <3> QED BY <1>1, <2>3, <3>1, <3>2
         DEF PortInv, Switched, Incoming, Outgoing, Full, Enables, ToCome, Running, PortTyped
  <2>4. CASE pc[c] \notin {"load", "init", "enable", "enable_wait"}
    BY <1>3, <2>4 DEF Outstanding, Supplying, StateSet, PortDisable
  <2> QED BY <2>2, <2>3, <2>4
<1> QED BY <1>2, <1>3

LEMMA FreesWhatIsOutgoing ==
  ASSUME TypeOK, NeverWaits, Staged, NEW c \in Component, Population(c), NEW p \in Port,
         Clearing(c, p), assignedBufferNum[c][p] > 0
  PROVE  Outgoing(c, p) \/ (currentState[c] = "Invalid" /\ HandlerIdle(c))
<1>1. PortTyped(c, p) /\ PortInv(c, p) /\ OneCommand(c) /\ currentState[c] # "WaitForResources"
  BY TypedPort DEF Population, NeverWaits
<1>2. CASE HandlerIdle(c)
  <2>1. ~AsksEnable(c, p) /\ ~AsksDisable(c, p) /\ (\A k : ~Queued(c, k)) /\ pc[c] = "message"
    BY <1>2, NothingQueued DEF HandlerIdle
  <2>2. currentState[c] \in {"Loaded", "Invalid"}
    BY <1>2 DEF Clearing
  <2> QED BY <1>1, <1>2, <2>1, <2>2
       DEF PortInv, Incoming, Outgoing, Full, Enables, ToCome, Running, PortTyped
<1>3. CASE pc[c] = "message" /\ ~HandlerIdle(c)
  <2>1. messageQ[c] # <<>> /\ Outstanding(c) = Head(messageQ[c]) /\ Queued(c, Outstanding(c))
        /\ currentState[c] \in Running \union {"Loaded"}
    BY <1>1, <1>3 DEF HandlerIdle, Outstanding, Queued, OneCommand, PortTyped, State, Running
  <2>2. Outstanding(c) \in AllCommands
    BY <2>1, FirstTaken DEF TypeOK
  <2>3. /\ AsksEnable(c, p) <=> Outstanding(c).type = "PortEnable" /\ p \in Target(Outstanding(c).param)
        /\ AsksDisable(c, p) <=> Outstanding(c).type = "PortDisable" /\ p \in Target(Outstanding(c).param)
        /\ \A m : Queued(c, m) <=> m = Outstanding(c)
    BY <2>1, <2>2, QueuedIs
  <2>4. CASE Outstanding(c) = StateSet("Loaded") /\ currentState[c] = "Idle"
    BY <1>1, <1>3, <2>1, <2>3, <2>4
       DEF PortInv, Incoming, Outgoing, Full, Enables, ToCome, Running, PortTyped, StateSet
  <2>5. CASE Outstanding(c).type = "PortDisable" /\ p \in Target(Outstanding(c).param)
    BY <1>1, <1>3, <2>1, <2>3, <2>5
       DEF PortInv, Incoming, Outgoing, Full, Enables, ToCome, Running, PortTyped, StateSet
  <2> QED BY <1>3, <2>4, <2>5 DEF Clearing
<1>4. CASE pc[c] # "message"
  <2>1. currentState[c] \in Running \union {"Loaded"} /\ ~HandlerIdle(c)
    BY <1>1, <1>4 DEF OneCommand, HandlerIdle, PortTyped, State, Running
  <2>2. ~AsksEnable(c, p) /\ ~AsksDisable(c, p) /\ \A k : ~Queued(c, k)
    BY <1>4, NothingQueued
  <2>3. CASE pc[c] \in {"terminate", "unload"}
    BY <1>1, <2>1, <2>2, <2>3
       DEF Staged, PortInv, Incoming, Outgoing, Full, Enables, ToCome, Running, PortTyped
  <2>4. CASE pc[c] \in {"disable", "disable_wait", "spin", "stuck"}
    <3>1. p \in Target(nPortIndex[c])
      BY <2>1, <2>4 DEF Outstanding, Clearing, StateSet, PortDisable
    <3> QED BY <1>1, <2>1, <2>2, <2>4, <3>1
         DEF PortInv, Switched, Incoming, Outgoing, Full, Enables, ToCome, Running, PortTyped
  <2>5. CASE pc[c] \notin {"terminate", "unload", "disable", "disable_wait", "spin", "stuck"}
    <3>1. Outstanding(c) \in {StateSet("Idle"), StateSet("Invalid"), PortEnable(nPortIndex[c])}
      BY <1>1, <1>4, <2>5 DEF Outstanding, PortTyped, Labels
    <3> QED BY <2>1, <3>1 DEF Clearing, StateSet, PortEnable
  <2> QED BY <2>3, <2>4, <2>5
<1> QED BY <1>2, <1>3, <1>4

(* A port is not both supplied and cleared. *)
LEMMA NotBothWays ==
  ASSUME NEW c, NEW p PROVE ~(Incoming(c, p) /\ Outgoing(c, p))
<1>1. \A n, m : PortEnable(n) # PortDisable(m) /\ PortEnable(n) # StateSet(m)
  BY DEF PortEnable, PortDisable, StateSet
<1>2. ~(AsksEnable(c, p) /\ AsksDisable(c, p))
  BY <1>1 DEF AsksEnable, AsksDisable, Queued
<1>3. ~(AsksEnable(c, p) /\ Queued(c, StateSet("Loaded")))
  BY <1>1 DEF AsksEnable, Queued
<1>4. AsksEnable(c, p) \/ AsksDisable(c, p) \/ Queued(c, StateSet("Loaded")) => pc[c] = "message"
  BY DEF AsksEnable, AsksDisable, Queued
<1> QED BY <1>2, <1>3, <1>4 DEF Incoming, Outgoing, Enables, ToCome, Running

(* The client's steps. *)
LEMMA ClientPopulates ==
  ASSUME Undisturbed, TypeOK, NeverWaits, Staged, NEW c \in Component, Population(c), Client(c)
  PROVE  Population(c)'
<1>0. /\ bPopulated \in [Component -> [Port -> BOOLEAN]]
      /\ assignedBufferNum \in [Component -> [Port -> 0 .. nBufferCountActual]]
      /\ loadedResource \in [Component -> [Port -> Nat]]
      /\ unloadedResource \in [Component -> [Port -> Nat]]
  BY DEF TypeOK, PerPort
<1>1. /\ currentState' = currentState /\ pc' = pc /\ port' = port /\ nPortIndex' = nPortIndex
      /\ bEnabled' = bEnabled
  BY DEF Client, SendCommand, UseBuffer, AllocateBuffer, BufferAssigned, FreeBuffer,
         portVars, threadVars
<1>2. ASSUME NEW q \in Port, Supplying(c, q), BufferAssigned(c, q) PROVE Population(c)'
  <2>1. messageQ' = messageQ /\ unloadedResource' = unloadedResource
    BY <1>2 DEF BufferAssigned
  <2>2. OneCommand(c)'
    BY <1>1, <2>1 DEF Population, OneCommand, HandlerIdle
  <2>3. ASSUME NEW p \in Port PROVE PortInv(c, p)'
    <3>1. /\ AsksEnable(c, p)' <=> AsksEnable(c, p)
          /\ AsksDisable(c, p)' <=> AsksDisable(c, p)
          /\ \A k : Queued(c, k)' <=> Queued(c, k)
      BY <1>1, <2>1 DEF AsksEnable, AsksDisable, Queued
    <3>2. PortTyped(c, p) /\ PortInv(c, p)
      BY TypedPort DEF Population
    <3>3. CASE p # q
      <4>1. /\ assignedBufferNum'[c][p] = assignedBufferNum[c][p]
            /\ bPopulated'[c][p] = bPopulated[c][p]
            /\ loadedResource'[c][p] = loadedResource[c][p]
        BY <1>2, <3>3, <1>0 DEF BufferAssigned
      <4> QED BY <1>1, <2>1, <3>1, <3>2, <4>1
           DEF PortInv, Switched, Incoming, Outgoing, Full, Enables, ToCome
    <3>4. CASE p = q
      <4> DEFINE last == assignedBufferNum[c][p] + 1 = nBufferCountActual
      <4>1. /\ assignedBufferNum[c][p] < nBufferCountActual
            /\ assignedBufferNum'[c][p] = assignedBufferNum[c][p] + 1
        BY <1>2, <3>4, <1>0 DEF BufferAssigned
      <4>2. /\ bPopulated'[c][p] <=> last \/ bPopulated[c][p]
            /\ loadedResource'[c][p] = IF last THEN loadedResource[c][p] + 1 ELSE loadedResource[c][p]
        <5>1. /\ last => /\ bPopulated' = [bPopulated EXCEPT ![c][p] = TRUE]
                         /\ loadedResource' = [loadedResource EXCEPT ![c][p] = @ + 1]
              /\ ~last => UNCHANGED <<bPopulated, loadedResource>>
          BY <1>2, <3>4 DEF BufferAssigned
        <5>2. CASE last
          BY <1>0, <5>1, <5>2
        <5>3. CASE ~last
          BY <5>1, <5>3
        <5> QED BY <5>2, <5>3
      <4>3. Incoming(c, p)
        BY <1>2, <3>4, <4>1, SuppliesWhatIsIncoming
      <4>4. /\ Incoming(c, p)' /\ ~Outgoing(c, p)' /\ ~Full(c, p)' /\ Switched(c, p)'
            /\ currentState'[c] # "Invalid"
        <5>1. /\ Incoming(c, p)' <=> Incoming(c, p)
              /\ Outgoing(c, p)' <=> Outgoing(c, p)
              /\ Switched(c, p)'
          BY <1>1, <2>1, <3>1, <3>2, Zenon
             DEF PortInv, Switched, Incoming, Outgoing, Enables, ToCome, PortTyped
        <5> QED BY <1>1, <4>3, <5>1, NotBothWays DEF Incoming, Enables, Full, Running
      <4>5. /\ unloadedResource'[c][p] = 0
            /\ loadedResource'[c][p] = IF assignedBufferNum'[c][p] = nBufferCountActual THEN 1 ELSE 0
            /\ bPopulated'[c][p] <=> assignedBufferNum'[c][p] = nBufferCountActual
        BY <2>1, <3>2, <4>1, <4>2, <4>3 DEF PortInv, PortTyped
      <4> QED BY <4>4, <4>5 DEF PortInv
    <3> QED BY <3>3, <3>4
  <2> QED BY <2>2, <2>3 DEF Population
<1>3. ASSUME NEW q \in Port, Clearing(c, q), FreeBuffer(c, q) PROVE Population(c)'
  <2>1. messageQ' = messageQ /\ loadedResource' = loadedResource
    BY <1>3 DEF FreeBuffer
  <2>2. OneCommand(c)'
    BY <1>1, <2>1 DEF Population, OneCommand, HandlerIdle
  <2>3. ASSUME NEW p \in Port PROVE PortInv(c, p)'
    <3>1. /\ AsksEnable(c, p)' <=> AsksEnable(c, p)
          /\ AsksDisable(c, p)' <=> AsksDisable(c, p)
          /\ \A k : Queued(c, k)' <=> Queued(c, k)
      BY <1>1, <2>1 DEF AsksEnable, AsksDisable, Queued
    <3>2. PortTyped(c, p) /\ PortInv(c, p)
      BY TypedPort DEF Population
    <3>3. CASE p # q
      <4>1. /\ assignedBufferNum'[c][p] = assignedBufferNum[c][p]
            /\ bPopulated'[c][p] = bPopulated[c][p]
            /\ unloadedResource'[c][p] = unloadedResource[c][p]
        BY <1>3, <3>3, <1>0 DEF FreeBuffer
      <4> QED BY <1>1, <2>1, <3>1, <3>2, <4>1
           DEF PortInv, Switched, Incoming, Outgoing, Full, Enables, ToCome
    <3>4. CASE p = q
      <4>1. /\ assignedBufferNum[c][p] > 0
            /\ assignedBufferNum'[c][p] = assignedBufferNum[c][p] - 1
        BY <1>3, <3>4, <1>0 DEF FreeBuffer
      <4>2. /\ bPopulated'[c][p] <=> assignedBufferNum[c][p] # 1 /\ bPopulated[c][p]
            /\ unloadedResource'[c][p] = IF assignedBufferNum[c][p] = 1
                                         THEN unloadedResource[c][p] + 1 ELSE unloadedResource[c][p]
        <5> DEFINE last == assignedBufferNum[c][p] = 1
        <5>1. /\ last => /\ bPopulated' = [bPopulated EXCEPT ![c][p] = FALSE]
                         /\ unloadedResource' = [unloadedResource EXCEPT ![c][p] = @ + 1]
              /\ ~last => UNCHANGED <<bPopulated, unloadedResource>>
          BY <1>3, <3>4 DEF FreeBuffer
        <5>2. CASE last
          BY <1>0, <5>1, <5>2
        <5>3. CASE ~last
          BY <5>1, <5>3
        <5> QED BY <5>2, <5>3
      <4>3. Outgoing(c, p) \/ (currentState[c] = "Invalid" /\ HandlerIdle(c))
        BY <1>3, <3>4, <4>1, FreesWhatIsOutgoing
      <4>4. /\ Incoming(c, p)' <=> Incoming(c, p)
            /\ Outgoing(c, p)' <=> Outgoing(c, p)
            /\ Full(c, p)' <=> Full(c, p)
            /\ Switched(c, p)'
        BY <1>1, <2>1, <3>1, <3>2, Zenon
           DEF PortInv, Switched, Incoming, Outgoing, Full, Enables, ToCome, PortTyped
      <4>5. currentState[c] = "Invalid" => ~Incoming(c, p) /\ ~Outgoing(c, p)
        BY DEF Incoming, Outgoing, Enables, Running
      <4>6. currentState[c] = "Invalid" /\ HandlerIdle(c) => ~Full(c, p)
        BY DEF Full, HandlerIdle, Running
      <4>7. ~(Incoming(c, p) /\ Outgoing(c, p))
        BY NotBothWays
      <4> QED BY <1>1, <2>1, <3>2, <4>1, <4>2, <4>3, <4>4, <4>5, <4>6, <4>7 DEF PortInv, PortTyped, Full
    <3> QED BY <3>3, <3>4
  <2> QED BY <2>2, <2>3 DEF Population
<1>4. ASSUME NEW k \in Commands, SendCommand(c, k) PROVE Population(c)'
  <2>1. /\ messageQ[c] = <<>> /\ pc[c] = "message" /\ currentState[c] # "Invalid"
        /\ currentState[c] # "WaitForResources" /\ k \in AllCommands
        /\ bPopulated' = bPopulated /\ assignedBufferNum' = assignedBufferNum
        /\ loadedResource' = loadedResource /\ unloadedResource' = unloadedResource
    BY <1>4, OmxLifecycleAssumption
       DEF SendCommand, HandlerIdle, Undisturbed, portVars, NeverWaits
  <2>2. CASE messageQ' = messageQ
    <3>1. Untouched(c)
      BY <1>1, <2>1, <2>2 DEF Untouched
    <3> QED BY <3>1, UntouchedKept
  <2>3. CASE ~CommandRefused(c, k) /\ messageQ' = [messageQ EXCEPT ![c] = Append(@, k)]
    <3>1. messageQ'[c] = Append(<<>>, k)
      BY <2>1, <2>3 DEF TypeOK
    <3>2. Len(messageQ'[c]) = 1 /\ messageQ'[c] # <<>> /\ Head(messageQ'[c]) = k
      BY <3>1
    <3>3. Queued(c, k)'
      BY <1>1, <2>1, <3>2 DEF Queued
    <3>4. OneCommand(c)'
      BY <1>1, <2>1, <3>2 DEF OneCommand
    <3>5. ASSUME NEW p \in Port PROVE PortInv(c, p)'
      <4>1. /\ AsksEnable(c, p)' <=> k.type = "PortEnable" /\ p \in Target(k.param)
            /\ AsksDisable(c, p)' <=> k.type = "PortDisable" /\ p \in Target(k.param)
            /\ \A m : Queued(c, m)' <=> m = k
        BY <2>1, <3>3, QueuedIsNext
      <4>2. ~AsksEnable(c, p) /\ ~AsksDisable(c, p) /\ \A m : ~Queued(c, m)
        BY <2>1, NothingQueued
      <4>3. PortTyped(c, p) /\ PortInv(c, p)
        BY TypedPort DEF Population
      <4>4. k.type = "PortEnable" /\ p \in Target(k.param) => ~bEnabled[c][p]
        BY <2>3, <4>3 DEF CommandRefused, Enabling, PortTyped
      <4>5. currentState[c] \in Running \union {"Loaded"}
        BY <2>1, <4>3 DEF PortTyped, State, Running
      <4>6. k = StateSet("Idle") \/ k = StateSet("Loaded") => k.type = "StateSet"
        BY DEF StateSet
      <4>7. StateSet("Idle") # StateSet("Loaded")
        BY DEF StateSet
      <4> QED BY <1>1, <2>1, <4>1, <4>2, <4>3, <4>4, <4>5, <4>6, <4>7
           DEF PortInv, Switched, Incoming, Outgoing, Full, Enables, ToCome, Running, PortTyped
    <3> QED BY <3>4, <3>5 DEF Population
  <2>4. \/ messageQ' = messageQ
        \/ ~CommandRefused(c, k) /\ messageQ' = [messageQ EXCEPT ![c] = Append(@, k)]
    BY <1>4, Zenon DEF SendCommand
  <2> QED BY <2>2, <2>3, <2>4
<1>5. \/ \E k \in Commands : SendCommand(c, k)
      \/ \E q \in Port : Supplying(c, q) /\ BufferAssigned(c, q)
      \/ \E q \in Port : Clearing(c, q) /\ FreeBuffer(c, q)
  <2>1. SerialClient /\ \A q : FreeBuffer(c, q) => Clearing(c, q)
    BY Zenon DEF Undisturbed, FreeBuffer
  <2> QED BY <2>1, Zenon DEF Client, UseBuffer, AllocateBuffer
<1> QED BY <1>2, <1>3, <1>4, <1>5

(* The handler's steps, one after the other. *)
LEMMA HandlerPopulates ==
  ASSUME Undisturbed, TypeOK, TypeOK', CodecInv, ListedIsHeld, NeverWaits, Staged,
         gpVideoRMWaitingList = <<>>, NEW c \in Component, Population(c), Handler(c), NEW p \in Port
  PROVE  OneCommand(c)' /\ PortInv(c, p)'
<1> DEFINE Goal == OneCommand(c)' /\ PortInv(c, p)'
<1>0. /\ currentState \in [Component -> State]
      /\ bEnabled \in [Component -> [Port -> BOOLEAN]]
      /\ bPopulated \in [Component -> [Port -> BOOLEAN]]
      /\ assignedBufferNum \in [Component -> [Port -> 0 .. nBufferCountActual]]
      /\ loadedResource \in [Component -> [Port -> Nat]]
      /\ unloadedResource \in [Component -> [Port -> Nat]]
      /\ pc \in [Component -> Labels] /\ port \in [Component -> Port]
      /\ nPortIndex \in [Component -> Port \union {ALL_PORT_INDEX}]
  BY DEF TypeOK, PerPort, Labels
<1>a. /\ PortTyped(c, p) /\ PortInv(c, p) /\ OneCommand(c)
      /\ currentState[c] # "WaitForResources" /\ nPorts \in Nat /\ Port = 0 .. nPorts - 1
      /\ pc[c] \in {"load", "init"} => currentState[c] = "Loaded"
      /\ pc[c] \in {"terminate", "unload"} => currentState[c] = "Idle"
  BY TypedPort, OmxLifecycleAssumption DEF Population, NeverWaits, Staged, Port
<1>b. ASSUME messageQ'[c] = <<>> \/ pc'[c] # "message"
      PROVE  ~AsksEnable(c, p)' /\ ~AsksDisable(c, p)' /\ \A k : ~Queued(c, k)'
  BY <1>b, NothingQueuedNext
<1>c. ASSUME pc[c] # "message"
      PROVE  /\ ~AsksEnable(c, p) /\ ~AsksDisable(c, p) /\ (\A k : ~Queued(c, k))
             /\ messageQ[c] = <<>>
  BY <1>a, <1>c, NothingQueued DEF OneCommand
<1>d. ASSUME NEW k, Received(c, k)
      PROVE  /\ messageQ'[c] = <<>> /\ pc[c] = "message" /\ currentState[c] # "Invalid"
             /\ k \in AllCommands
             /\ AsksEnable(c, p) <=> k.type = "PortEnable" /\ p \in Target(k.param)
             /\ AsksDisable(c, p) <=> k.type = "PortDisable" /\ p \in Target(k.param)
             /\ \A m : Queued(c, m) <=> m = k
             /\ ~AsksEnable(c, p)' /\ ~AsksDisable(c, p)' /\ \A m : ~Queued(c, m)'
  <2>1. /\ messageQ'[c] = <<>> /\ Queued(c, k) /\ pc[c] = "message"
        /\ currentState[c] # "Invalid" /\ k \in AllCommands
    BY <1>a, <1>d, OnlyOneTaken
  <2> QED BY <1>b, <2>1, QueuedIs
(* Steps that touch neither the port nor its part in a command. *)
<1>e. ASSUME UNCHANGED portVars
      PROVE  /\ bEnabled'[c][p] = bEnabled[c][p] /\ bPopulated'[c][p] = bPopulated[c][p]
             /\ assignedBufferNum'[c][p] = assignedBufferNum[c][p]
             /\ loadedResource'[c][p] = loadedResource[c][p]
             /\ unloadedResource'[c][p] = unloadedResource[c][p]
  BY <1>e DEF portVars
<1>f. /\ \A s : StateSet(s).type = "StateSet" /\ StateSet(s).param = s
      /\ StateSet("Idle") # StateSet("Loaded")
      /\ "StateSet" # "PortEnable" /\ "StateSet" # "PortDisable" /\ "PortEnable" # "PortDisable"
  BY DEF StateSet

<1>1. ASSUME NEW k \in AllCommands, StateSetPlain(c, k) PROVE Goal
  <2>1. /\ currentState[c] \in Running /\ currentState'[c] \in Running /\ k.type = "StateSet"
        /\ k.param # "Loaded" /\ pc'[c] = pc[c] /\ port'[c] = port[c] /\ nPortIndex'[c] = nPortIndex[c]
    BY <1>0, <1>a, <1>1 DEF StateSetPlain, PlainTransition, Running, threadVars
  <2>2. Received(c, k)
    BY <1>1 DEF StateSetPlain
  <2>3. /\ messageQ'[c] = <<>> /\ pc[c] = "message" /\ currentState[c] # "Invalid"
        /\ k \in AllCommands
        /\ AsksEnable(c, p) <=> k.type = "PortEnable" /\ p \in Target(k.param)
        /\ AsksDisable(c, p) <=> k.type = "PortDisable" /\ p \in Target(k.param)
        /\ \A m : Queued(c, m) <=> m = k
        /\ ~AsksEnable(c, p)' /\ ~AsksDisable(c, p)' /\ \A m : ~Queued(c, m)'
    BY <1>d, <2>2
  <2>4. /\ bEnabled'[c][p] = bEnabled[c][p] /\ bPopulated'[c][p] = bPopulated[c][p]
        /\ assignedBufferNum'[c][p] = assignedBufferNum[c][p]
        /\ loadedResource'[c][p] = loadedResource[c][p]
        /\ unloadedResource'[c][p] = unloadedResource[c][p]
    BY <1>e, <1>1 DEF StateSetPlain
  <2> QED BY <1>a, <1>f, <2>1, <2>3, <2>4
       DEF PortInv, Switched, Incoming, Outgoing, Full, Enables, ToCome, Running, PortTyped, Labels, State, OneCommand, HandlerIdle
<1>2. ASSUME NEW k \in AllCommands, StateSetRefused(c, k) PROVE Goal
  <2>1. /\ currentState'[c] = currentState[c] /\ k.type = "StateSet"
        /\ currentState[c] = "Loaded" => k.param # "Idle"
        /\ currentState[c] = "Idle" => k.param # "Loaded"
        /\ pc'[c] = pc[c] /\ port'[c] = port[c] /\ nPortIndex'[c] = nPortIndex[c]
    BY <1>0, <1>a, <1>2 DEF StateSetRefused, StagedTransition, threadVars
  <2>2. Received(c, k)
    BY <1>2 DEF StateSetRefused
  <2>3. /\ messageQ'[c] = <<>> /\ pc[c] = "message" /\ currentState[c] # "Invalid"
        /\ k \in AllCommands
        /\ AsksEnable(c, p) <=> k.type = "PortEnable" /\ p \in Target(k.param)
        /\ AsksDisable(c, p) <=> k.type = "PortDisable" /\ p \in Target(k.param)
        /\ \A m : Queued(c, m) <=> m = k
        /\ ~AsksEnable(c, p)' /\ ~AsksDisable(c, p)' /\ \A m : ~Queued(c, m)'
    BY <1>d, <2>2
  <2>4. /\ bEnabled'[c][p] = bEnabled[c][p] /\ bPopulated'[c][p] = bPopulated[c][p]
        /\ assignedBufferNum'[c][p] = assignedBufferNum[c][p]
        /\ loadedResource'[c][p] = loadedResource[c][p]
        /\ unloadedResource'[c][p] = unloadedResource[c][p]
    BY <1>e, <1>2 DEF StateSetRefused
  <2> QED BY <1>a, <1>f, <2>1, <2>3, <2>4
       DEF PortInv, Switched, Incoming, Outgoing, Full, Enables, ToCome, Running, PortTyped, Labels, State, OneCommand, HandlerIdle
<1>3. ASSUME NEW k \in AllCommands, EnableReceived(c, k) PROVE Goal
  <2>1. /\ currentState'[c] = currentState[c] /\ k.type = "PortEnable"
        /\ pc'[c] = "enable" /\ nPortIndex'[c] = k.param
        /\ port'[c] = IF k.param = ALL_PORT_INDEX THEN 0 ELSE k.param
    BY <1>0, <1>a, <1>3 DEF EnableReceived, StartAt, Goto
  <2>2. Received(c, k)
    BY <1>3 DEF EnableReceived
  <2>3. /\ messageQ'[c] = <<>> /\ pc[c] = "message" /\ currentState[c] # "Invalid"
        /\ k \in AllCommands
        /\ AsksEnable(c, p) <=> k.type = "PortEnable" /\ p \in Target(k.param)
        /\ AsksDisable(c, p) <=> k.type = "PortDisable" /\ p \in Target(k.param)
        /\ \A m : Queued(c, m) <=> m = k
        /\ ~AsksEnable(c, p)' /\ ~AsksDisable(c, p)' /\ \A m : ~Queued(c, m)'
    BY <1>d, <2>2
  <2>4. /\ bEnabled'[c][p] = bEnabled[c][p] /\ bPopulated'[c][p] = bPopulated[c][p]
        /\ assignedBufferNum'[c][p] = assignedBufferNum[c][p]
        /\ loadedResource'[c][p] = loadedResource[c][p]
        /\ unloadedResource'[c][p] = unloadedResource[c][p]
    BY <1>e, <1>3 DEF EnableReceived
  <2> QED BY <1>a, <1>f, <2>1, <2>3, <2>4, CommandParts
       DEF PortInv, Switched, Incoming, Outgoing, Full, Enables, ToCome, Running, PortTyped, Labels, State, OneCommand, HandlerIdle, Target, ALL_PORT_INDEX
<1>4. ASSUME NEW k \in AllCommands, DisableReceived(c, k) PROVE Goal
  <2>1. /\ currentState'[c] = currentState[c] /\ k.type = "PortDisable"
        /\ pc'[c] \in {"disable", "spin", "stuck"} /\ nPortIndex'[c] = k.param
        /\ port'[c] = IF k.param = ALL_PORT_INDEX THEN 0 ELSE k.param
    BY <1>0, <1>a, <1>4 DEF DisableReceived, StartAt, Goto
  <2>2. Received(c, k)
    BY <1>4 DEF DisableReceived
  <2>3. /\ messageQ'[c] = <<>> /\ pc[c] = "message" /\ currentState[c] # "Invalid"
        /\ k \in AllCommands
        /\ AsksEnable(c, p) <=> k.type = "PortEnable" /\ p \in Target(k.param)
        /\ AsksDisable(c, p) <=> k.type = "PortDisable" /\ p \in Target(k.param)
        /\ \A m : Queued(c, m) <=> m = k
        /\ ~AsksEnable(c, p)' /\ ~AsksDisable(c, p)' /\ \A m : ~Queued(c, m)'
    BY <1>d, <2>2
  <2>4. /\ bEnabled'[c][p] = bEnabled[c][p] /\ bPopulated'[c][p] = bPopulated[c][p]
        /\ assignedBufferNum'[c][p] = assignedBufferNum[c][p]
        /\ loadedResource'[c][p] = loadedResource[c][p]
        /\ unloadedResource'[c][p] = unloadedResource[c][p]
    BY <1>e, <1>4 DEF DisableReceived
  <2> QED BY <1>a, <1>f, <2>1, <2>3, <2>4, CommandParts
       DEF PortInv, Switched, Incoming, Outgoing, Full, Enables, ToCome, Running, PortTyped, Labels, State, OneCommand, HandlerIdle, Target, ALL_PORT_INDEX
<1>5. ASSUME GetResource(c) PROVE Goal
  <2>1. /\ currentState'[c] = currentState[c] /\ currentState[c] = "Loaded"
        /\ pc'[c] = "load" /\ port'[c] = 0 /\ nPortIndex'[c] = nPortIndex[c]
    BY <1>0, <1>a, <1>5 DEF GetResource, ToIdle, Enter, Goto
  <2>2. Received(c, StateSet("Idle"))
    BY <1>5 DEF GetResource
  <2>3. /\ messageQ'[c] = <<>> /\ pc[c] = "message" /\ currentState[c] # "Invalid"
        /\ StateSet("Idle") \in AllCommands
        /\ AsksEnable(c, p) <=> StateSet("Idle").type = "PortEnable" /\ p \in Target(StateSet("Idle").param)
        /\ AsksDisable(c, p) <=> StateSet("Idle").type = "PortDisable" /\ p \in Target(StateSet("Idle").param)
        /\ \A m : Queued(c, m) <=> m = StateSet("Idle")
        /\ ~AsksEnable(c, p)' /\ ~AsksDisable(c, p)' /\ \A m : ~Queued(c, m)'
    BY <1>d, <2>2
  <2>4. /\ bEnabled'[c][p] = bEnabled[c][p] /\ bPopulated'[c][p] = bPopulated[c][p]
        /\ assignedBufferNum'[c][p] = assignedBufferNum[c][p]
        /\ loadedResource'[c][p] = loadedResource[c][p]
        /\ unloadedResource'[c][p] = unloadedResource[c][p]
    BY <1>e, <1>5 DEF GetResource
  <2> QED BY <1>a, <1>f, <2>1, <2>3, <2>4
       DEF PortInv, Switched, Incoming, Outgoing, Full, Enables, ToCome, Running, PortTyped, Labels, State, OneCommand, HandlerIdle
<1>6. ASSUME ReleaseForLoaded(c) PROVE Goal
  <2>1. /\ currentState'[c] = currentState[c] /\ currentState[c] = "Idle"
        /\ pc'[c] = "terminate" /\ port'[c] = 0 /\ nPortIndex'[c] = nPortIndex[c]
    BY <1>0, <1>a, <1>6 DEF ReleaseForLoaded, Enter, Goto
  <2>2. Received(c, StateSet("Loaded"))
    BY <1>6 DEF ReleaseForLoaded, ReleaseResource
  <2>3. /\ messageQ'[c] = <<>> /\ pc[c] = "message" /\ currentState[c] # "Invalid"
        /\ StateSet("Loaded") \in AllCommands
        /\ AsksEnable(c, p) <=> StateSet("Loaded").type = "PortEnable" /\ p \in Target(StateSet("Loaded").param)
        /\ AsksDisable(c, p) <=> StateSet("Loaded").type = "PortDisable" /\ p \in Target(StateSet("Loaded").param)
        /\ \A m : Queued(c, m) <=> m = StateSet("Loaded")
        /\ ~AsksEnable(c, p)' /\ ~AsksDisable(c, p)' /\ \A m : ~Queued(c, m)'
    BY <1>d, <2>2
  <2>4. /\ bEnabled'[c][p] = bEnabled[c][p] /\ bPopulated'[c][p] = bPopulated[c][p]
        /\ assignedBufferNum'[c][p] = assignedBufferNum[c][p]
        /\ loadedResource'[c][p] = loadedResource[c][p]
        /\ unloadedResource'[c][p] = unloadedResource[c][p]
    BY <1>e, <1>6 DEF ReleaseForLoaded
  <2> QED BY <1>a, <1>f, <2>1, <2>3, <2>4
       DEF PortInv, Switched, Incoming, Outgoing, Full, Enables, ToCome, Running, PortTyped, Labels, State, OneCommand, HandlerIdle
<1>7. ASSUME ReleaseForInvalid(c) PROVE Goal
  <2>1. /\ currentState'[c] = currentState[c]
        /\ pc'[c] = "invalidate" /\ port'[c] = 0 /\ nPortIndex'[c] = nPortIndex[c]
    BY <1>0, <1>a, <1>7 DEF ReleaseForInvalid, Enter, Goto
  <2>2. StateSet("Invalid") # StateSet("Idle") /\ StateSet("Invalid") # StateSet("Loaded")
    BY <1>0, <1>a, <1>7 DEF StateSet
  <2>3. Received(c, StateSet("Invalid"))
    BY <1>7 DEF ReleaseForInvalid, ReleaseResource
  <2>4. /\ messageQ'[c] = <<>> /\ pc[c] = "message" /\ currentState[c] # "Invalid"
        /\ StateSet("Invalid") \in AllCommands
        /\ AsksEnable(c, p) <=> StateSet("Invalid").type = "PortEnable" /\ p \in Target(StateSet("Invalid").param)
        /\ AsksDisable(c, p) <=> StateSet("Invalid").type = "PortDisable" /\ p \in Target(StateSet("Invalid").param)
        /\ \A m : Queued(c, m) <=> m = StateSet("Invalid")
        /\ ~AsksEnable(c, p)' /\ ~AsksDisable(c, p)' /\ \A m : ~Queued(c, m)'
    BY <1>d, <2>3
  <2>5. /\ bEnabled'[c][p] = bEnabled[c][p] /\ bPopulated'[c][p] = bPopulated[c][p]
        /\ assignedBufferNum'[c][p] = assignedBufferNum[c][p]
        /\ loadedResource'[c][p] = loadedResource[c][p]
        /\ unloadedResource'[c][p] = unloadedResource[c][p]
    BY <1>e, <1>7 DEF ReleaseForInvalid
  <2> QED BY <1>a, <1>f, <2>1, <2>2, <2>4, <2>5
       DEF PortInv, Switched, Incoming, Outgoing, Full, Enables, ToCome, Running, PortTyped, Labels, State, OneCommand, HandlerIdle
<1>8. ASSUME Invalidate(c) PROVE Goal
  <2>1. /\ currentState'[c] = "Invalid" /\ pc[c] = "invalidate"
        /\ pc'[c] = "message" /\ port'[c] = port[c] /\ nPortIndex'[c] = nPortIndex[c]
    BY <1>0, <1>a, <1>8 DEF Invalidate, Goto
  <2>2. /\ ~AsksEnable(c, p) /\ ~AsksDisable(c, p) /\ (\A k : ~Queued(c, k))
        /\ messageQ[c] = <<>> /\ messageQ'[c] = <<>> /\ pc[c] # "message"
        /\ ~AsksEnable(c, p)' /\ ~AsksDisable(c, p)' /\ \A k : ~Queued(c, k)'
    BY <1>8, <1>b, <1>c DEF Invalidate
  <2>3. /\ bEnabled'[c][p] = bEnabled[c][p] /\ bPopulated'[c][p] = bPopulated[c][p]
        /\ assignedBufferNum'[c][p] = assignedBufferNum[c][p]
        /\ loadedResource'[c][p] = loadedResource[c][p]
        /\ unloadedResource'[c][p] = unloadedResource[c][p]
    BY <1>e, <1>8 DEF Invalidate
  <2> QED BY <1>a, <1>f, <2>1, <2>2, <2>3
       DEF PortInv, Switched, Incoming, Outgoing, Full, Enables, ToCome, Running, PortTyped, Labels, State, OneCommand, HandlerIdle
<1>9. ASSUME InitDone(c) PROVE Goal
  <2>1. /\ currentState'[c] = "Idle" /\ pc[c] = "init"
        /\ pc'[c] = "message" /\ port'[c] = port[c] /\ nPortIndex'[c] = nPortIndex[c]
    BY <1>0, <1>a, <1>9 DEF InitDone, Goto
  <2>2. /\ ~AsksEnable(c, p) /\ ~AsksDisable(c, p) /\ (\A k : ~Queued(c, k))
        /\ messageQ[c] = <<>> /\ messageQ'[c] = <<>> /\ pc[c] # "message"
        /\ ~AsksEnable(c, p)' /\ ~AsksDisable(c, p)' /\ \A k : ~Queued(c, k)'
    BY <1>9, <1>b, <1>c DEF InitDone
  <2>3. /\ bEnabled'[c][p] = bEnabled[c][p] /\ bPopulated'[c][p] = bPopulated[c][p]
        /\ assignedBufferNum'[c][p] = assignedBufferNum[c][p]
        /\ loadedResource'[c][p] = loadedResource[c][p]
        /\ unloadedResource'[c][p] = unloadedResource[c][p]
    BY <1>e, <1>9 DEF InitDone
  <2> QED BY <1>a, <1>f, <2>1, <2>2, <2>3
       DEF PortInv, Switched, Incoming, Outgoing, Full, Enables, ToCome, Running, PortTyped, Labels, State, OneCommand, HandlerIdle
<1>10. ASSUME Terminate(c) PROVE Goal
  <2>1. /\ currentState'[c] = currentState[c] /\ pc[c] = "terminate"
        /\ pc'[c] = "unload" /\ port'[c] = port[c] /\ nPortIndex'[c] = nPortIndex[c]
    BY <1>0, <1>a, <1>10 DEF Terminate, Goto
  <2>2. /\ ~AsksEnable(c, p) /\ ~AsksDisable(c, p) /\ (\A k : ~Queued(c, k))
        /\ messageQ[c] = <<>> /\ messageQ'[c] = <<>> /\ pc[c] # "message"
        /\ ~AsksEnable(c, p)' /\ ~AsksDisable(c, p)' /\ \A k : ~Queued(c, k)'
    BY <1>10, <1>b, <1>c DEF Terminate
  <2>3. /\ bEnabled'[c][p] = bEnabled[c][p] /\ bPopulated'[c][p] = bPopulated[c][p]
        /\ assignedBufferNum'[c][p] = assignedBufferNum[c][p]
        /\ loadedResource'[c][p] = loadedResource[c][p]
        /\ unloadedResource'[c][p] = unloadedResource[c][p]
    BY <1>e, <1>10 DEF Terminate
  <2> QED BY <1>a, <1>f, <2>1, <2>2, <2>3
       DEF PortInv, Switched, Incoming, Outgoing, Full, Enables, ToCome, Running, PortTyped, Labels, State, OneCommand, HandlerIdle
<1>11. ASSUME LoadPort(c) PROVE Goal
  <2>1. /\ currentState'[c] = currentState[c] /\ pc[c] = "load" /\ nPortIndex'[c] = nPortIndex[c]
        /\ IF port[c] + 1 < nPorts THEN pc'[c] = "load" /\ port'[c] = port[c] + 1
           ELSE pc'[c] = "init" /\ port'[c] = port[c]
    BY <1>0, <1>a, <1>11 DEF LoadPort, NextPort, Goto
  <2>2. /\ bEnabled'[c][p] = bEnabled[c][p] /\ assignedBufferNum'[c][p] = assignedBufferNum[c][p]
        /\ unloadedResource'[c][p] = unloadedResource[c][p]
    BY <1>0, <1>a, <1>11 DEF LoadPort
  <2>3. /\ p = port[c] /\ bEnabled[c][p] => /\ loadedResource[c][p] > 0 /\ bPopulated'[c][p]
                                              /\ loadedResource'[c][p] = loadedResource[c][p] - 1
        /\ ~(p = port[c] /\ bEnabled[c][p]) => /\ bPopulated'[c][p] <=> bPopulated[c][p]
                                               /\ loadedResource'[c][p] = loadedResource[c][p]
    BY <1>0, <1>a, <1>11 DEF LoadPort, WaitFor
  <2>4. /\ ~AsksEnable(c, p) /\ ~AsksDisable(c, p) /\ (\A k : ~Queued(c, k))
        /\ messageQ[c] = <<>> /\ messageQ'[c] = <<>> /\ pc[c] # "message"
        /\ ~AsksEnable(c, p)' /\ ~AsksDisable(c, p)' /\ \A k : ~Queued(c, k)'
    BY <1>11, <1>b, <1>c DEF LoadPort
  <2> QED BY <1>a, <1>f, <2>1, <2>2, <2>3, <2>4
       DEF PortInv, Switched, Incoming, Outgoing, Full, Enables, ToCome, Running, PortTyped, Labels, State, OneCommand, HandlerIdle
<1>12. ASSUME UnloadPort(c) PROVE Goal
  <2>1. /\ pc[c] = "unload" /\ nPortIndex'[c] = nPortIndex[c]
        /\ currentState'[c] = IF port[c] + 1 = nPorts THEN "Loaded" ELSE currentState[c]
        /\ IF port[c] + 1 < nPorts THEN pc'[c] = "unload" /\ port'[c] = port[c] + 1
           ELSE pc'[c] = "message" /\ port'[c] = port[c]
    BY <1>0, <1>a, <1>12 DEF UnloadPort, NextPort, Goto
  <2>2. /\ bEnabled'[c][p] = bEnabled[c][p] /\ assignedBufferNum'[c][p] = assignedBufferNum[c][p]
        /\ loadedResource'[c][p] = loadedResource[c][p]
    BY <1>0, <1>a, <1>12 DEF UnloadPort
  <2>3. /\ p = port[c] /\ bEnabled[c][p] => /\ unloadedResource[c][p] > 0 /\ ~bPopulated'[c][p]
                                              /\ unloadedResource'[c][p] = unloadedResource[c][p] - 1
        /\ ~(p = port[c] /\ bEnabled[c][p]) => /\ bPopulated'[c][p] <=> bPopulated[c][p]
                                               /\ unloadedResource'[c][p] = unloadedResource[c][p]
    <3>1. CASE bEnabled[c][port[c]]
      <4>1. /\ unloadedResource[c][port[c]] > 0
            /\ unloadedResource' = [unloadedResource EXCEPT ![c][port[c]] = @ - 1]
            /\ bPopulated' = [bPopulated EXCEPT ![c][port[c]] = FALSE]
        BY <1>12, <3>1 DEF UnloadPort, WaitFor
      <4>2. CASE p = port[c]
        BY <1>0, <4>1, <4>2, <3>1
      <4>3. CASE p # port[c]
        BY <1>0, <1>a, <4>1, <4>3 DEF PortTyped
      <4> QED BY <4>2, <4>3
    <3>2. CASE ~bEnabled[c][port[c]]
      <4>1. UNCHANGED <<unloadedResource, bPopulated>>
        BY <1>12, <3>2 DEF UnloadPort
      <4> QED BY <3>2, <4>1
    <3> QED BY <3>1, <3>2
  <2>4. /\ ~AsksEnable(c, p) /\ ~AsksDisable(c, p) /\ (\A k : ~Queued(c, k))
        /\ messageQ[c] = <<>> /\ messageQ'[c] = <<>> /\ pc[c] # "message"
        /\ ~AsksEnable(c, p)' /\ ~AsksDisable(c, p)' /\ \A k : ~Queued(c, k)'
    BY <1>12, <1>b, <1>c DEF UnloadPort
  <2> QED BY <1>a, <1>f, <2>1, <2>2, <2>3, <2>4
       DEF PortInv, Switched, Incoming, Outgoing, Full, Enables, ToCome, Running, PortTyped, Labels, State, OneCommand, HandlerIdle
<1>13. ASSUME EnablePort(c) PROVE Goal
  <2>1. /\ pc[c] = "enable"
        /\ nPortIndex'[c] = nPortIndex[c] /\ currentState'[c] = currentState[c]
        /\ currentState[c] = "Loaded" => IF nPortIndex[c] = ALL_PORT_INDEX /\ port[c] + 1 < nPorts
                                         THEN pc'[c] = "enable" /\ port'[c] = port[c] + 1
                                         ELSE pc'[c] = "message" /\ port'[c] = port[c]
        /\ currentState[c] # "Loaded" => pc'[c] = "enable_wait" /\ port'[c] = port[c]
    BY <1>0, <1>a, <1>13 DEF EnablePort, PortDone, NextPort, Goto
  <2>2. /\ bEnabled'[c][p] <=> p = port[c] \/ bEnabled[c][p]
        /\ bPopulated'[c][p] = bPopulated[c][p] /\ assignedBufferNum'[c][p] = assignedBufferNum[c][p]
        /\ loadedResource'[c][p] = loadedResource[c][p] /\ unloadedResource'[c][p] = unloadedResource[c][p]
    BY <1>0, <1>a, <1>13 DEF EnablePort
  <2>3. /\ ~AsksEnable(c, p) /\ ~AsksDisable(c, p) /\ (\A k : ~Queued(c, k))
        /\ messageQ[c] = <<>> /\ messageQ'[c] = <<>> /\ pc[c] # "message"
        /\ ~AsksEnable(c, p)' /\ ~AsksDisable(c, p)' /\ \A k : ~Queued(c, k)'
    BY <1>13, <1>b, <1>c DEF EnablePort
  <2> QED BY <1>a, <1>f, <2>1, <2>2, <2>3
       DEF PortInv, Switched, Incoming, Outgoing, Full, Enables, ToCome, Running, PortTyped, Labels, State, OneCommand, HandlerIdle, Target, ALL_PORT_INDEX
<1>14. ASSUME EnableWait(c) PROVE Goal
  <2>1. /\ pc[c] = "enable_wait"
        /\ nPortIndex'[c] = nPortIndex[c] /\ currentState'[c] = currentState[c]
        /\ IF nPortIndex[c] = ALL_PORT_INDEX /\ port[c] + 1 < nPorts
           THEN pc'[c] = "enable" /\ port'[c] = port[c] + 1
           ELSE pc'[c] = "message" /\ port'[c] = port[c]
    BY <1>0, <1>a, <1>14 DEF EnableWait, PortDone, NextPort, Goto
  <2>2. /\ bEnabled'[c][p] = bEnabled[c][p] /\ assignedBufferNum'[c][p] = assignedBufferNum[c][p]
        /\ unloadedResource'[c][p] = unloadedResource[c][p]
        /\ bPopulated'[c][p] <=> p = port[c] \/ bPopulated[c][p]
        /\ p = port[c] => loadedResource[c][p] > 0 /\ loadedResource'[c][p] = loadedResource[c][p] - 1
        /\ p # port[c] => loadedResource'[c][p] = loadedResource[c][p]
    BY <1>0, <1>a, <1>14 DEF EnableWait, WaitFor
  <2>3. /\ ~AsksEnable(c, p) /\ ~AsksDisable(c, p) /\ (\A k : ~Queued(c, k))
        /\ messageQ[c] = <<>> /\ messageQ'[c] = <<>> /\ pc[c] # "message"
        /\ ~AsksEnable(c, p)' /\ ~AsksDisable(c, p)' /\ \A k : ~Queued(c, k)'
    BY <1>14, <1>b, <1>c DEF EnableWait
  <2>4. /\ currentState[c] \in Running /\ port[c] \in Target(nPortIndex[c])
        /\ p \in Target(nPortIndex[c]) <=> nPortIndex[c] = ALL_PORT_INDEX \/ p = port[c]
        /\ port'[c] \in Target(nPortIndex[c])
    BY <1>a, <2>1 DEF OneCommand, Target, PortTyped, ALL_PORT_INDEX
  <2>5. OneCommand(c)'
    BY <1>a, <2>1, <2>3, <2>4 DEF OneCommand, HandlerIdle, PortTyped, Running
  <2>6. /\ Enables(c, p) <=> p \in Target(nPortIndex[c]) /\ p >= port[c]
        /\ Incoming(c, p) <=> Enables(c, p)
        /\ Enables(c, p)' <=> pc'[c] = "enable" /\ p \in Target(nPortIndex[c]) /\ p >= port'[c]
        /\ Incoming(c, p)' <=> Enables(c, p)'
        /\ ~Outgoing(c, p) /\ ~Outgoing(c, p)'
    BY <1>a, <2>1, <2>3, <2>4 DEF Enables, Incoming, Outgoing, ToCome, Running
  <2>7. /\ Enables(c, p)' <=> Enables(c, p) /\ p # port[c]
        /\ p = port[c] => Enables(c, p)
        /\ Full(c, p) <=> bEnabled[c][p] /\ ~Enables(c, p)
        /\ Full(c, p)' <=> bEnabled[c][p] /\ ~Enables(c, p)'
    <3>1. Enables(c, p)' <=> Enables(c, p) /\ p # port[c]
      BY <1>a, <2>1, <2>4, <2>6 DEF PortTyped
    <3>2. p = port[c] => Enables(c, p)
      BY <1>a, <2>4, <2>6 DEF PortTyped
    <3>3. Full(c, p) <=> bEnabled[c][p] /\ ~Enables(c, p)
      BY <2>1, <2>4, <2>6 DEF Full
    <3>4. Full(c, p)' <=> bEnabled[c][p] /\ ~Enables(c, p)'
      BY <2>1, <2>2, <2>4, <2>6 DEF Full
    <3> QED BY <3>1, <3>2, <3>3, <3>4
  <2>8. Switched(c, p)'
    BY <1>a, <2>1, <2>2, <2>4, <2>6, <2>7 DEF PortInv, Switched, PortTyped
  <2>9. CASE p = port[c]
    BY <1>a, <2>1, <2>2, <2>4, <2>5, <2>6, <2>7, <2>8, <2>9 DEF PortInv, Switched, PortTyped, Running
  <2>10. CASE p # port[c]
    BY <1>a, <2>1, <2>2, <2>4, <2>5, <2>6, <2>7, <2>8, <2>10 DEF PortInv, PortTyped, Running
  <2> QED BY <2>9, <2>10
<1>15. ASSUME DisablePort(c) PROVE Goal
  <2>1. /\ pc[c] = "disable"
        /\ nPortIndex'[c] = nPortIndex[c] /\ currentState'[c] = currentState[c]
        /\ assignedBufferNum'[c][p] = assignedBufferNum[c][p] /\ loadedResource'[c][p] = loadedResource[c][p]
        /\ unloadedResource'[c][p] = unloadedResource[c][p]
    BY <1>0, <1>a, <1>15 DEF DisablePort
  <2>2. bEnabled[c][port[c]] /\ currentState[c] # "Loaded" =>
          /\ pc'[c] = "disable_wait" /\ port'[c] = port[c] /\ bEnabled'[c][p] = bEnabled[c][p]
          /\ bPopulated'[c][p] <=> p # port[c] /\ bPopulated[c][p]
    BY <1>0, <1>a, <1>15 DEF DisablePort, Goto
  <2>3. ~(bEnabled[c][port[c]] /\ currentState[c] # "Loaded") =>
          /\ bPopulated'[c][p] = bPopulated[c][p]
          /\ bEnabled'[c][p] <=> p # port[c] /\ bEnabled[c][p]
          /\ IF nPortIndex[c] = ALL_PORT_INDEX /\ port[c] + 1 < nPorts
             THEN pc'[c] = "disable" /\ port'[c] = port[c] + 1
             ELSE pc'[c] = "message" /\ port'[c] = port[c]
    BY <1>0, <1>a, <1>15 DEF DisablePort, PortDone, NextPort, Goto
  <2>4. /\ ~AsksEnable(c, p) /\ ~AsksDisable(c, p) /\ (\A k : ~Queued(c, k))
        /\ messageQ[c] = <<>> /\ messageQ'[c] = <<>> /\ pc[c] # "message"
        /\ ~AsksEnable(c, p)' /\ ~AsksDisable(c, p)' /\ \A k : ~Queued(c, k)'
    BY <1>15, <1>b, <1>c DEF DisablePort
  <2>5. /\ port[c] \in Target(nPortIndex[c])
        /\ p \in Target(nPortIndex[c]) <=> nPortIndex[c] = ALL_PORT_INDEX \/ p = port[c]
        /\ port'[c] \in Target(nPortIndex[c])
        /\ currentState[c] \in Running \union {"Loaded"}
    BY <1>a, <2>1, <2>2, <2>3
       DEF OneCommand, HandlerIdle, Target, PortTyped, State, Running, ALL_PORT_INDEX
  <2>6. OneCommand(c)'
    BY <1>a, <2>1, <2>2, <2>3, <2>4, <2>5 DEF OneCommand, HandlerIdle, PortTyped, Running
  <2>7. /\ Outgoing(c, p) <=> /\ currentState[c] \in Running /\ bEnabled[c][p]
                              /\ p \in Target(nPortIndex[c]) /\ p >= port[c]
        /\ Outgoing(c, p)' <=> /\ currentState[c] \in Running /\ bEnabled'[c][p]
                               /\ pc'[c] \in {"disable", "disable_wait"}
                               /\ p \in Target(nPortIndex[c]) /\ p >= port'[c]
        /\ ~Incoming(c, p) /\ ~Incoming(c, p)' /\ ~Enables(c, p)'
    BY <1>a, <2>1, <2>2, <2>3, <2>4, <2>5 DEF Enables, Incoming, Outgoing, ToCome, Running
  <2>8. /\ Outgoing(c, p)' <=> Outgoing(c, p)
        /\ Full(c, p) <=> bEnabled[c][p] /\ ~Outgoing(c, p) /\ currentState[c] \in Running
        /\ Full(c, p)' <=> bEnabled'[c][p] /\ ~Outgoing(c, p)' /\ currentState[c] \in Running
    <3>1. CASE bEnabled[c][port[c]] /\ currentState[c] # "Loaded"
      BY <1>a, <2>1, <2>2, <2>5, <2>7, <3>1 DEF Full, PortTyped
    <3>2. CASE ~(bEnabled[c][port[c]] /\ currentState[c] # "Loaded")
      BY <1>a, <2>1, <2>3, <2>5, <2>7, <3>2 DEF Full, PortTyped, Running
    <3> QED BY <3>1, <3>2
  <2>9. Switched(c, p)'
    BY <1>a, <2>1, <2>2, <2>3, <2>5, <2>7 DEF PortInv, Switched, PortTyped
  <2>10. CASE bEnabled[c][port[c]] /\ currentState[c] # "Loaded"
    BY <1>a, <2>1, <2>2, <2>5, <2>6, <2>7, <2>8, <2>9, <2>10 DEF PortInv, PortTyped, Running
  <2>11. CASE ~(bEnabled[c][port[c]] /\ currentState[c] # "Loaded")
    BY <1>a, <2>1, <2>3, <2>5, <2>6, <2>7, <2>8, <2>9, <2>11 DEF PortInv, PortTyped, Running
  <2> QED BY <2>10, <2>11
<1>16. ASSUME DisableWait(c) PROVE Goal
  <2>1. /\ pc[c] = "disable_wait"
        /\ nPortIndex'[c] = nPortIndex[c] /\ currentState'[c] = currentState[c]
        /\ IF nPortIndex[c] = ALL_PORT_INDEX /\ port[c] + 1 < nPorts
           THEN pc'[c] = "disable" /\ port'[c] = port[c] + 1
           ELSE pc'[c] = "message" /\ port'[c] = port[c]
    BY <1>0, <1>a, <1>16 DEF DisableWait, PortDone, NextPort, Goto
  <2>2. /\ bEnabled'[c][p] <=> p # port[c] /\ bEnabled[c][p]
        /\ assignedBufferNum'[c][p] = assignedBufferNum[c][p]
        /\ loadedResource'[c][p] = loadedResource[c][p] /\ bPopulated'[c][p] = bPopulated[c][p]
        /\ p = port[c] => unloadedResource[c][p] > 0 /\ unloadedResource'[c][p] = unloadedResource[c][p] - 1
        /\ p # port[c] => unloadedResource'[c][p] = unloadedResource[c][p]
    BY <1>0, <1>a, <1>16 DEF DisableWait, WaitFor
  <2>3. /\ ~AsksEnable(c, p) /\ ~AsksDisable(c, p) /\ (\A k : ~Queued(c, k))
        /\ messageQ[c] = <<>> /\ messageQ'[c] = <<>> /\ pc[c] # "message"
        /\ ~AsksEnable(c, p)' /\ ~AsksDisable(c, p)' /\ \A k : ~Queued(c, k)'
    BY <1>16, <1>b, <1>c DEF DisableWait
  <2>4. /\ currentState[c] \in Running /\ port[c] \in Target(nPortIndex[c])
        /\ p \in Target(nPortIndex[c]) <=> nPortIndex[c] = ALL_PORT_INDEX \/ p = port[c]
        /\ port'[c] \in Target(nPortIndex[c])
    BY <1>a, <2>1 DEF OneCommand, Target, PortTyped, ALL_PORT_INDEX
  <2>5. OneCommand(c)'
    BY <1>a, <2>1, <2>3, <2>4 DEF OneCommand, HandlerIdle, PortTyped, Running
  <2>6. /\ Outgoing(c, p) <=> bEnabled[c][p] /\ p \in Target(nPortIndex[c]) /\ p >= port[c]
        /\ Outgoing(c, p)' <=> /\ bEnabled'[c][p] /\ pc'[c] = "disable"
                               /\ p \in Target(nPortIndex[c]) /\ p >= port'[c]
        /\ ~Incoming(c, p) /\ ~Incoming(c, p)' /\ ~Enables(c, p)'
    BY <1>a, <2>1, <2>3, <2>4 DEF Enables, Incoming, Outgoing, ToCome, Running
  <2>7. /\ Outgoing(c, p)' <=> Outgoing(c, p) /\ p # port[c]
        /\ Full(c, p) <=> bEnabled[c][p] /\ ~Outgoing(c, p)
        /\ Full(c, p)' <=> bEnabled'[c][p] /\ ~Outgoing(c, p)'
    <3>1. Outgoing(c, p)' <=> Outgoing(c, p) /\ p # port[c]
      BY <1>a, <2>1, <2>2, <2>4, <2>6 DEF PortTyped
    <3>2. Full(c, p) <=> bEnabled[c][p] /\ ~Outgoing(c, p)
      BY <2>1, <2>4, <2>6 DEF Full
    <3>3. Full(c, p)' <=> bEnabled'[c][p] /\ ~Outgoing(c, p)'
      BY <2>1, <2>4, <2>6 DEF Full
    <3> QED BY <3>1, <3>2, <3>3
  <2>8. Switched(c, p)'
    BY <1>a, <2>1, <2>2, <2>4, <2>6, <2>7 DEF PortInv, Switched, PortTyped
  <2>9. CASE p = port[c]
    BY <1>a, <2>1, <2>2, <2>4, <2>5, <2>6, <2>7, <2>8, <2>9 DEF PortInv, Switched, PortTyped, Running
  <2>10. CASE p # port[c]
    BY <1>a, <2>1, <2>2, <2>4, <2>5, <2>6, <2>7, <2>8, <2>10 DEF PortInv, PortTyped, Running
  <2> QED BY <2>9, <2>10
<1>g. \A v \in Component : ~EvictAndGetResource(c, v)
  BY NothingSent
<1>h. ~GetResourceRefused(c) /\ ~WaitForResources(c) /\ ~StopWaiting(c) /\ ~InitFailed(c)
  BY NothingSent
<1> QED BY <1>g, <1>h, <1>1, <1>2, <1>3, <1>4, <1>5, <1>6, <1>7, <1>8, <1>9, <1>10, <1>11,
       <1>12, <1>13, <1>14, <1>15, <1>16, Zenon DEF Handler

(* When no client asks a component to become Invalid, none does. *)
NeverInvalid == \A c \in Component :
  currentState[c] # "Invalid" /\ pc[c] # "invalidate" /\ StateSet("Invalid") \notin ToSet(messageQ[c])

LEMMA NobodyInvalid ==
  ASSUME StateSet("Invalid") \notin Commands
  PROVE  Spec => []NeverInvalid
<1>1. Init => NeverInvalid
  BY DEF Init, NeverInvalid, ToSet
<1>2. ASSUME TypeOK, NeverInvalid, [Next]_vars PROVE NeverInvalid'
  <2>1. CASE UNCHANGED vars
    BY <1>2, <2>1 DEF vars, threadVars, NeverInvalid
  <2>2. ASSUME NEW c \in Component, Client(c) \/ Handler(c) PROVE NeverInvalid'
    <3>1. \A e \in Component : StateSet("Invalid") \notin ToSet(messageQ'[e])
      <4>1. StateSet("Invalid") \notin {StateSet("Idle"), StateSet("Loaded")}
        BY DEF StateSet
      <4> QED BY <1>2, <2>2, <4>1, QueueGains DEF NeverInvalid
    <3>2. ~ReleaseForInvalid(c)
      BY <1>2, FirstTaken, TypeParts DEF ReleaseForInvalid, Receives, NeverInvalid, TypeOK
    <3>3. ~Invalidate(c)
      BY <1>2 DEF Invalidate, NeverInvalid
    <3>4. /\ UNCHANGED currentState
             \/ \E s : s # "Invalid" /\ currentState' = [currentState EXCEPT ![c] = s]
          /\ UNCHANGED pc \/ \E l : l # "invalidate" /\ pc' = [pc EXCEPT ![c] = l]
      <4>1. CASE Client(c)
        BY <4>1 DEF Client, SendCommand, UseBuffer, AllocateBuffer, BufferAssigned, FreeBuffer, threadVars
      <4>2. CASE \E k \in AllCommands : StateSetPlain(c, k)
        BY <4>2 DEF StateSetPlain, PlainTransition, threadVars
      <4>3. CASE Handler(c) /\ ~(\E k \in AllCommands : StateSetPlain(c, k))
        <5>1. UNCHANGED currentState
              \/ \E s : s # "Invalid" /\ currentState' = [currentState EXCEPT ![c] = s]
          BY <3>2, <3>3, <4>3 DEF Handler, StateSetRefused, EnableReceived, DisableReceived, WaitForResources,
             StopWaiting, GetResource, EvictAndGetResource, GetResourceRefused, LoadPort, InitDone,
             InitFailed, ReleaseForLoaded, Terminate, UnloadPort,
             EnablePort, EnableWait, DisablePort, DisableWait
        <5>2. UNCHANGED pc \/ \E l : l # "invalidate" /\ pc' = [pc EXCEPT ![c] = l]
          BY <3>2, <3>3, <4>3 DEF Handler, StateSetRefused, EnableReceived, DisableReceived, WaitForResources,
             StopWaiting, GetResource, EvictAndGetResource, GetResourceRefused, LoadPort, InitDone,
             InitFailed, ReleaseForLoaded, Terminate, UnloadPort, threadVars, Goto, Enter, StartAt, NextPort, PortDone,
             EnablePort, EnableWait, DisablePort, DisableWait
        <5> QED BY <5>1, <5>2
      <4> QED BY <2>2, <4>1, <4>2, <4>3
    <3>5. \A e \in Component : currentState'[e] # "Invalid" /\ pc'[e] # "invalidate"
      BY <1>2, <3>4 DEF NeverInvalid, TypeOK
    <3> QED BY <3>1, <3>5 DEF NeverInvalid
  <2> QED BY <1>2, <2>1, <2>2 DEF Next
<1> QED BY <1>1, <1>2, TypeCorrect, PTL DEF Spec

(* The buffers and tokens of every port are what its command says. *)
LEMMA PopulationHolds ==
  ASSUME Undisturbed
  PROVE  Spec => []PopulationInv
<1>1. Init => PopulationInv
  <2> SUFFICES ASSUME Init PROVE PopulationInv
    OBVIOUS
  <2>1. gpVideoRMWaitingList = <<>>
    BY DEF Init
  <2>2. ASSUME NEW c \in Component, NEW p \in Port PROVE OneCommand(c) /\ PortInv(c, p)
    <3>1. /\ messageQ[c] = <<>> /\ currentState[c] = "Loaded"
          /\ pc[c] = "message" /\ bEnabled[c][p] /\ ~bPopulated[c][p]
          /\ assignedBufferNum[c][p] = 0 /\ loadedResource[c][p] = 0 /\ unloadedResource[c][p] = 0
      BY <2>2 DEF Init
    <3>2. ~AsksEnable(c, p) /\ ~AsksDisable(c, p) /\ (\A k : ~Queued(c, k)) /\ Len(messageQ[c]) = 0
      BY <3>1, NothingQueued
    <3>3. OneCommand(c)
      BY <3>1, <3>2 DEF OneCommand
    <3>4. PortInv(c, p)
      BY <3>1, <3>2 DEF PortInv, Switched, Incoming, Outgoing, Full, Enables, ToCome, Running
    <3> QED BY <3>3, <3>4
  <2>3. 0 \in Port
    BY OmxLifecycleAssumption DEF Port
  <2> QED BY <2>1, <2>2, <2>3 DEF PopulationInv
<1>2. ASSUME TypeOK, TypeOK', CodecInv, ListedIsHeld, NeverWaits, Staged, PopulationInv, [Next]_vars
      PROVE  PopulationInv'
  <2>0. \A e \in Component : Population(e)
    BY <1>2 DEF PopulationInv, Population
  <2>1. CASE UNCHANGED vars
    <3>1. \A e \in Component : Untouched(e)
      BY <2>1 DEF vars, threadVars, portVars, Untouched
    <3>2. \A e \in Component : Population(e)'
      BY <2>0, <3>1, UntouchedKept
    <3> QED BY <1>2, <2>1, <3>2 DEF vars, rmVars, PopulationInv, Population
  <2>2. ASSUME NEW c \in Component, Client(c) \/ Handler(c) PROVE PopulationInv'
    <3>1. gpVideoRMWaitingList = <<>>
      BY <1>2 DEF PopulationInv
    <3>2. gpVideoRMWaitingList' = <<>>
      BY <1>2, <2>2, <3>1, NothingSent
    <3>3. ASSUME NEW e \in Component \ {c} PROVE Population(e)'
      BY <1>2, <2>0, <2>2, OthersUntouched, UntouchedKept
    <3>4. Population(c)'
      <4>1. CASE Client(c)
        BY <1>2, <2>0, <4>1, ClientPopulates
      <4>2. CASE Handler(c)
        <5>1. \A p \in Port : OneCommand(c)' /\ PortInv(c, p)'
          BY <1>2, <2>0, <3>1, <4>2, HandlerPopulates
        <5>2. 0 \in Port
          BY OmxLifecycleAssumption DEF Port
        <5> QED BY <5>1, <5>2 DEF Population
      <4> QED BY <2>2, <4>1, <4>2
    <3> QED BY <3>2, <3>3, <3>4 DEF PopulationInv, Population
  <2> QED BY <1>2, <2>1, <2>2 DEF Next
<1>3. ~InitFails /\ StateSet("WaitForResources") \notin Commands
  BY DEF Undisturbed
<1>4. Spec => []CodecInv
  BY <1>3, CodecInvHolds
<1>5. Spec => [](ListedIsHeld /\ HeldIsListed)
  BY <1>3, ListedAndHeld
<1>6. Spec => []NeverWaits
  BY <1>3, NobodyWaits
<1> QED BY <1>1, <1>2, <1>4, <1>5, <1>6, TypeCorrect, StagedHolds, PTL DEF Spec

(* A client that awaits each outcome and does not ask to wait, an entry of the
   resource manager's list for every component, and initialisations that
   succeed: then what a semaphore of a port says is so when the handler takes
   it, for any number of ports and buffers and also after the component has
   become Invalid.  A transition to Idle that is refused or fails leaves the
   port's buffers behind, and a token that the client's freeing makes stale. *)
THEOREM TokensStayFresh ==
  ASSUME Undisturbed
  PROVE  Spec => []TokensFresh
<1>1. TypeOK /\ PopulationInv => TokensFresh
  <2> SUFFICES ASSUME TypeOK, PopulationInv, NEW c \in Component, NEW p \in Port
               PROVE  /\ loadedResource[c][p] > 0 => assignedBufferNum[c][p] = nBufferCountActual
                      /\ unloadedResource[c][p] > 0 => assignedBufferNum[c][p] = 0
    BY DEF TokensFresh
  <2>1. PortTyped(c, p) /\ PortInv(c, p) /\ ~(Incoming(c, p) /\ Outgoing(c, p))
    BY TypedPort, NotBothWays DEF PopulationInv
  <2> QED BY <2>1 DEF PortInv, PortTyped
<1> QED BY <1>1, PopulationHolds, TypeCorrect, PTL

(* Under the same conditions, and when no client sends a component to Invalid,
   which leaves bPopulated as it is: whenever no command is under way a port is
   populated if and only if it is enabled and the component runs, a populated
   port has all its buffers, and an unpopulated one has none. *)
THEOREM PopulationIsAll ==
  ASSUME Undisturbed, StateSet("Invalid") \notin Commands
  PROVE  Spec => []PopulatedMeansAll
<1>1. ASSUME TypeOK, PopulationInv, NeverWaits, NeverInvalid PROVE PopulatedMeansAll
  <2> SUFFICES ASSUME NEW c \in Component, NEW p \in Port, HandlerIdle(c)
               PROVE  /\ bPopulated[c][p] <=> bEnabled[c][p] /\ currentState[c] \in Running
                      /\ bPopulated[c][p] => assignedBufferNum[c][p] = nBufferCountActual
                      /\ ~bPopulated[c][p] => assignedBufferNum[c][p] = 0
    BY DEF PopulatedMeansAll, Running
  <2>1. PortTyped(c, p) /\ PortInv(c, p) /\ messageQ[c] = <<>> /\ pc[c] = "message"
        /\ currentState[c] \in Running \union {"Loaded"}
    BY <1>1, TypedPort
       DEF PopulationInv, NeverWaits, NeverInvalid, HandlerIdle, PortTyped, State, Running
  <2>2. ~AsksEnable(c, p) /\ ~AsksDisable(c, p) /\ \A k : ~Queued(c, k)
    BY <2>1, NothingQueued
  <2>3. ~Incoming(c, p) /\ ~Outgoing(c, p) /\ (Full(c, p) <=> bEnabled[c][p] /\ currentState[c] \in Running)
    BY <2>1, <2>2 DEF Incoming, Outgoing, Full, Enables, ToCome
  <2>4. currentState[c] # "Invalid"
    BY <1>1 DEF NeverInvalid
  <2> QED BY <2>1, <2>3, <2>4 DEF PortInv, PortTyped
<1>2. StateSet("WaitForResources") \notin Commands
  BY DEF Undisturbed
<1>3. Spec => []NeverWaits
  BY <1>2, NobodyWaits
<1> QED BY <1>1, <1>3, PopulationHolds, NobodyInvalid, TypeCorrect, PTL

-----------------------------------------------------------------------------
(* Preemption: what taking an entry away and adding one do to the number of a
   component's entries, which may be several when initialisations fail. *)

Places(s, e) == {i \in DOMAIN s : s[i] = e}

LEMMA PlacesCounted ==
  ASSUME NEW S, NEW s \in Seq(S), NEW e
  PROVE  IsFiniteSet(Places(s, e)) /\ Cardinality(Places(s, e)) \in Nat
<1>1. DOMAIN s = 1 .. Len(s) /\ Len(s) \in Int /\ 1 \in Int
  BY LenProperties
<1>2. IsFiniteSet(DOMAIN s)
  BY <1>1, FS_Interval
<1>3. Places(s, e) \in SUBSET (DOMAIN s)
  BY DEF Places
<1>4. IsFiniteSet(Places(s, e))
  BY <1>2, <1>3, FS_Subset
<1> QED BY <1>4, FS_CardinalityType

LEMMA PlacesAppended ==
  ASSUME NEW S, NEW s \in Seq(S), NEW e \in S, NEW d
  PROVE  Cardinality(Places(Append(s, e), d)) =
           IF d = e THEN Cardinality(Places(s, d)) + 1 ELSE Cardinality(Places(s, d))
<1>1. /\ \A i \in 1 .. Len(s) : Append(s, e)[i] = s[i]
      /\ Append(s, e)[Len(s) + 1] = e /\ Len(s) \in Nat
      /\ DOMAIN s = 1 .. Len(s) /\ DOMAIN Append(s, e) = 1 .. Len(s) + 1
  BY AppendProperties, LenProperties
<1>2. CASE d = e
  <2>1. Places(Append(s, e), d) = Places(s, d) \union {Len(s) + 1} /\ Len(s) + 1 \notin Places(s, d)
    BY <1>1, <1>2 DEF Places
  <2>2. IsFiniteSet(Places(s, d))
    BY PlacesCounted
  <2> QED BY <1>2, <2>1, <2>2, FS_AddElement
<1>3. CASE d # e
  <2>1. Places(Append(s, e), d) = Places(s, d)
    BY <1>1, <1>3 DEF Places
  <2> QED BY <1>3, <2>1
<1> QED BY <1>2, <1>3

(* Removing the first of one element's entries takes none of another's. *)
LEMMA PlacesRemoved ==
  ASSUME NEW S, NEW s \in Seq(S), NEW e, NEW d, d # e
  PROVE  Cardinality(Places(s, d)) <= Cardinality(Places(RemoveFirst(s, e), d))
<1>1. Len(s) \in Nat /\ DOMAIN s = 1 .. Len(s)
  BY LenProperties
<1>2. CASE e \notin ToSet(s)
  <2>1. RemoveFirst(s, e) = s
    BY <1>1, <1>2 DEF RemoveFirst, ToSet
  <2>2. Cardinality(Places(s, d)) \in Nat
    BY PlacesCounted
  <2> QED BY <2>1, <2>2
<1>3. CASE e \in ToSet(s)
  <2> DEFINE r == RemoveFirst(s, e)
  <2>1. r \in Seq(S) /\ Len(r) = Len(s) - 1
    BY <1>3, FirstRemoved
  <2>2. PICK k \in 1 .. Len(s) :
          s[k] = e /\ \A j \in 1 .. Len(s) - 1 : r[j] = IF j < k THEN s[j] ELSE s[j + 1]
    BY <1>3, FirstRemoved
  <2> HIDE DEF r
  <2>3. DOMAIN r = 1 .. Len(s) - 1 /\ IsFiniteSet(Places(r, d))
    BY <2>1, LenProperties, PlacesCounted
  <2> DEFINE moved == [i \in Places(s, d) |-> IF i < k THEN i ELSE i - 1]
  <2>4. ASSUME NEW i \in Places(s, d) PROVE moved[i] \in Places(r, d)
    <3>1. i \in 1 .. Len(s) /\ s[i] = d /\ i # k
      BY <1>1, <2>2 DEF Places
    <3>2. CASE i < k
      BY <1>1, <2>2, <2>3, <3>1, <3>2 DEF Places
    <3>3. CASE i > k
      <4>1. i - 1 \in 1 .. Len(s) - 1 /\ ~(i - 1 < k) /\ i - 1 + 1 = i
        BY <1>1, <3>1, <3>3
      <4>2. r[i - 1] = d
        BY <2>2, <3>1, <4>1
      <4>3. moved[i] = i - 1
        BY <3>1, <3>3
      <4> QED BY <2>3, <4>1, <4>2, <4>3 DEF Places
    <3> QED BY <1>1, <3>1, <3>2, <3>3
  <2>5. ASSUME NEW i \in Places(s, d), NEW j \in Places(s, d), moved[i] = moved[j] PROVE i = j
    <3>1. i \in 1 .. Len(s) /\ j \in 1 .. Len(s) /\ i # k /\ j # k
      BY <1>1, <2>2 DEF Places
    <3> QED BY <1>1, <2>5, <3>1
  <2>6. moved \in [Places(s, d) -> Places(r, d)]
    BY <2>4
  <2>7. moved \in Injection(Places(s, d), Places(r, d))
    <3>1. DOMAIN moved = Places(s, d)
      OBVIOUS
    <3> HIDE DEF moved
    <3> QED BY <2>5, <2>6, <3>1 DEF Injection, IsInjective
  <2> HIDE DEF moved
  <2>8. Cardinality(Places(s, d)) <= Cardinality(Places(r, d))
    BY <2>3, <2>7, FS_Injection
  <2> QED BY <2>8 DEF r
<1> QED BY <1>2, <1>3

(* A victim has the lowest priority of all that have an entry, and a lower one
   than the component it gives way to. *)
LEMMA VictimIsLowest ==
  ASSUME TypeOK, NEW c \in Component, NEW v \in Victims(c)
  PROVE  /\ v \in ToSet(gpVideoRMComponentList) /\ v \in Component /\ v # c
         /\ groupPriority[c] < groupPriority[v]
         /\ \A e \in ToSet(gpVideoRMComponentList) : groupPriority[e] <= groupPriority[v]
<1> DEFINE s == gpVideoRMComponentList
<1>1. /\ \A i \in DOMAIN s : s[i] \in Component
      /\ \A d \in Component : groupPriority[d] \in Int
  <2>1. s \in Seq(Component) /\ groupPriority \in Priorities
    BY DEF TypeOK
  <2>2. DOMAIN s = 1 .. Len(s)
    BY <2>1, LenProperties
  <2> QED BY <2>1, <2>2, ElementOfSeq, OmxLifecycleAssumption
<1>2. PICK l \in DOMAIN s :
        /\ v = s[l] /\ groupPriority[s[l]] > groupPriority[c]
        /\ \A j \in DOMAIN s : groupPriority[s[j]] > groupPriority[c]
             => \/ groupPriority[s[j]] < groupPriority[s[l]]
                \/ groupPriority[s[j]] = groupPriority[s[l]] /\ l <= j
  BY DEF Victims
<1> HIDE DEF s
<1>3. ASSUME NEW i \in DOMAIN s PROVE groupPriority[s[i]] <= groupPriority[v]
  <2>1. groupPriority[s[i]] \in Int /\ groupPriority[s[l]] \in Int /\ groupPriority[c] \in Int
    BY <1>1, <1>2
  <2> QED BY <1>2, <2>1
<1>4. groupPriority[v] \in Int /\ groupPriority[c] \in Int /\ v \in Component
  BY <1>1, <1>2
<1> QED BY <1>2, <1>3, <1>4 DEF s, ToSet

(* A component loses an entry to another component's step only if that one has
   just got an entry for it, has the higher priority, and nobody in the list has
   a lower priority than the loser: for any number of components and entries,
   any priorities and any limit, whether or not initialisations fail. *)
THEOREM PriorityDecides == Spec => PreemptedByPriority
<1> DEFINE Fewer(c) == Cardinality(Entries(c)') < Cardinality(Entries(c))
           Outranked(c) == \E d \in Component \ {c} :
             /\ Cardinality(Entries(d)') > Cardinality(Entries(d))
             /\ groupPriority[d] < groupPriority[c]
             /\ \A e \in ToSet(gpVideoRMComponentList) : groupPriority[e] <= groupPriority[c]
<1>1. ASSUME TypeOK, TypeOK', [Next]_vars, NEW c \in Component, Fewer(c), pc'[c] = pc[c]
      PROVE  Outranked(c)
  <2> DEFINE s == gpVideoRMComponentList
  <2>1. s \in Seq(Component) /\ s' \in Seq(Component)
    BY <1>1 DEF TypeOK
  <2>2. \A d : Entries(d) = Places(s, d) /\ Entries(d)' = Places(s', d)
    BY DEF Entries, Places
  <2>3. \A d : Cardinality(Places(s, d)) \in Nat /\ Cardinality(Places(s', d)) \in Nat
    BY <2>1, PlacesCounted
  <2> HIDE DEF s
  <2>4. CASE UNCHANGED s
    BY <1>1, <2>2, <2>3, <2>4
  <2>5. ASSUME NEW h \in Component, GetResource(h) PROVE Outranked(c)
    <3>1. s' = Append(s, h)
      BY <2>5 DEF GetResource, s
    <3>2. Cardinality(Places(s', c)) >= Cardinality(Places(s, c))
      BY <2>1, <2>3, <3>1, PlacesAppended
    <3> QED BY <1>1, <2>2, <2>3, <3>2
  <2>6. ASSUME NEW h \in Component, NEW v \in Component, EvictAndGetResource(h, v) PROVE Outranked(c)
    <3> DEFINE r == RemoveFirst(s, v)
    <3>1. s' = Append(r, h) /\ v \in Victims(h)
      BY <2>6 DEF EvictAndGetResource, s
    <3>2. /\ v \in ToSet(s) /\ v # h /\ groupPriority[h] < groupPriority[v]
          /\ \A e \in ToSet(s) : groupPriority[e] <= groupPriority[v]
      BY <1>1, <3>1, VictimIsLowest DEF s
    <3>3. r \in Seq(Component)
      BY <2>1, MaybeRemoved
    <3>4. \A d : d # v => Cardinality(Places(s, d)) <= Cardinality(Places(r, d))
      BY <2>1, PlacesRemoved
    <3>5. \A d : Cardinality(Places(r, d)) \in Nat
      BY <3>3, PlacesCounted
    <3> HIDE DEF r
    <3>6. \A d : Cardinality(Places(s', d)) = IF d = h THEN Cardinality(Places(r, d)) + 1
                                              ELSE Cardinality(Places(r, d))
      BY <3>1, <3>3, PlacesAppended
    <3>7. c = v
      <4>1. ASSUME c # v PROVE FALSE
        <5>1. Cardinality(Places(s, c)) <= Cardinality(Places(s', c))
          BY <2>3, <3>4, <3>5, <3>6, <4>1
        <5> QED BY <1>1, <2>2, <2>3, <5>1
      <4> QED BY <4>1
    <3>8. Cardinality(Entries(h)') > Cardinality(Entries(h))
      BY <2>2, <2>3, <3>2, <3>4, <3>5, <3>6
    <3>9. h \in Component \ {c}
      BY <3>2, <3>7
    <3> QED BY <3>2, <3>7, <3>8, <3>9 DEF s
  <2>7. ASSUME NEW h \in Component, ReleaseForLoaded(h) \/ ReleaseForInvalid(h) PROVE Outranked(c)
    <3>1. s' = s \/ s' = RemoveFirst(s, h)
      BY <2>7 DEF ReleaseForLoaded, ReleaseForInvalid, ReleaseResource, rmVars, s
    <3>2. pc'[h] # pc[h]
      BY <1>1, <2>7 DEF ReleaseForLoaded, ReleaseForInvalid, Receives, Enter, Goto, TypeOK
    <3>3. c # h
      BY <1>1, <3>2
    <3>4. Cardinality(Places(s, c)) <= Cardinality(Places(s', c))
      BY <2>1, <2>3, <3>1, <3>3, PlacesRemoved
    <3> QED BY <1>1, <2>2, <2>3, <3>4
  <2>8. \/ UNCHANGED s
        \/ \E h \in Component : \/ GetResource(h)
                                \/ \E v \in Component : EvictAndGetResource(h, v)
                                \/ ReleaseForLoaded(h) \/ ReleaseForInvalid(h)
    <3>1. CASE UNCHANGED vars
      BY <3>1 DEF vars, rmVars, s
    <3>2. ASSUME NEW h \in Component, Client(h) \/ Handler(h)
          PROVE  \/ UNCHANGED s \/ GetResource(h)
                 \/ \E v \in Component : EvictAndGetResource(h, v)
                 \/ ReleaseForLoaded(h) \/ ReleaseForInvalid(h)
      BY <3>2, ListChanges DEF s
    <3> QED BY <1>1, <3>1, <3>2 DEF Next
  <2> QED BY <2>4, <2>5, <2>6, <2>7, <2>8
<1>2. TypeOK /\ TypeOK' /\ [Next]_vars
        => [\A c \in Component : Entries(c) # {} /\ Fewer(c) /\ pc'[c] = pc[c] => Outranked(c)]_vars
  BY <1>1
<1> QED BY <1>2, TypeCorrect, PTL DEF Spec, PreemptedByPriority
=============================================================================
