---------------------------- MODULE SensorsProofs ----------------------------
(***************************************************************************)
(* Proofs about the sensors HAL.  First the circular reader of             *)
(* InputEventReader.cpp, for every number of events: its offsets stay in   *)
(* range, and it implements the first-in first-out store of EventFifo.     *)
(* Then the poll loop of sensors.cpp, for any number of drivers, sizes of  *)
(* reader, room, reports, calls and failures: what it leaves unread and    *)
(* which pending events it can overlook when it goes to sleep.  Last the   *)
(* drivers that sensors share, against the sensors that are on.            *)
(***************************************************************************)
EXTENDS EventRing, SensorsPoll, SensorsActivate, SequenceTheorems, TLAPS

(* The write offset is the read offset plus what is stored, one lap less, or,
   when the buffer was emptied exactly at its end, one lap more. *)
HeadFollows ==
  \/ mHead = mCurr + available
  \/ mHead = mCurr + available - numEvents
  \/ mHead = numEvents /\ mCurr = 0 /\ available = 0

RingInv == RingTypeOK /\ HeadFollows

Cells == 0 .. 2 * numEvents - 1

-----------------------------------------------------------------------------
LEMMA RingInit == InputEventCircularReader => RingInv
  BY EventRingAssumption
     DEF InputEventCircularReader, RingInv, RingTypeOK, HeadFollows, available

(* The numbers of the ring, apart from its cells. *)
LEMMA RingNumbers ==
  ASSUME RingInv
  PROVE  /\ numEvents \in Nat \ {0} /\ mHead \in 0 .. numEvents
         /\ mCurr \in 0 .. numEvents - 1 /\ mFreeSpace \in 0 .. numEvents
         /\ available = numEvents - mFreeSpace
         /\ available \in 0 .. numEvents
  BY EventRingAssumption DEF RingInv, RingTypeOK, available

(* A batch of n events is a sequence of length n. *)
LEMMA BatchIsSeq ==
  ASSUME NEW n \in 1 .. numEvents, NEW es \in [1 .. n -> Events]
  PROVE  es \in Seq(Events) /\ Len(es) = n
<1>1. es \in Seq(Events)
  BY SeqDef
<1> QED BY <1>1, LenProperties

(* The offsets after a fill. *)
LEMMA FillOffsets ==
  ASSUME NEW n \in 1 .. numEvents, NEW es \in [1 .. n -> Events],
         RingInv, fill(es)
  PROVE  /\ n <= mFreeSpace
         /\ available' = available + n
         /\ mHead' \in 0 .. numEvents
         /\ HeadFollows'
         /\ \/ /\ mHead + n > numEvents
               /\ mBuffer' = Wrapped(AfterRead(es), mHead + n - numEvents)
               /\ mHead' = mHead + n - numEvents
            \/ /\ mHead + n <= numEvents
               /\ mBuffer' = AfterRead(es)
               /\ mHead' = mHead + n
<1>1. Len(es) = n
  BY BatchIsSeq
<1>2. \/ /\ mHead + n > numEvents
         /\ mBuffer' = Wrapped(AfterRead(es), mHead + n - numEvents)
         /\ mHead' = mHead + n - numEvents
      \/ /\ mHead + n <= numEvents
         /\ mBuffer' = AfterRead(es)
         /\ mHead' = mHead + n
  <2>1. \/ /\ mHead + Len(es) > numEvents
           /\ mBuffer' = Wrapped(AfterRead(es), mHead + Len(es) - numEvents)
           /\ mHead' = mHead + Len(es) - numEvents
        \/ /\ mHead + Len(es) <= numEvents
           /\ mBuffer' = AfterRead(es)
           /\ mHead' = mHead + Len(es)
    BY Zenon DEF fill
  <2> QED BY <1>1, <2>1, Zenon
<1>3. n <= mFreeSpace /\ mFreeSpace' = mFreeSpace - n /\ mCurr' = mCurr
  BY <1>1 DEF fill
<1>4. available' = available + n
  BY <1>3, EventRingAssumption DEF available, RingInv, RingTypeOK
<1>5. mHead' \in 0 .. numEvents
  BY <1>2, RingNumbers
<1>6. HeadFollows'
  <2> DEFINE wraps == mHead + n > numEvents /\ mHead' = mHead + n - numEvents
             fits == mHead + n <= numEvents /\ mHead' = mHead + n
  <2>0. /\ numEvents \in Nat /\ mHead \in Nat /\ mCurr \in Nat /\ available \in Nat
        /\ mCurr' = mCurr /\ available' = available + n /\ n \in Nat
        /\ available + n <= numEvents /\ mCurr < numEvents
        /\ wraps \/ fits
    BY <1>2, <1>3, <1>4, RingNumbers
  <2>1. CASE mHead = mCurr + available
    BY <2>0, <2>1 DEF HeadFollows
  <2>2. CASE mHead = mCurr + available - numEvents
    BY <2>0, <2>2 DEF HeadFollows
  <2>3. CASE mHead = numEvents /\ mCurr = 0 /\ available = 0
    BY <2>0, <2>3 DEF HeadFollows
  <2> QED BY <2>1, <2>2, <2>3 DEF RingInv, HeadFollows
<1> QED BY <1>2, <1>3, <1>4, <1>5, <1>6

(* What a cell holds after read() has stored the batch. *)
LEMMA StoredCell ==
  ASSUME NEW n \in 1 .. numEvents, NEW es \in [1 .. n -> Events],
         RingInv, NEW c \in Cells
  PROVE  AfterRead(es)[c] = IF c - mHead \in 0 .. n - 1
                         THEN es[c - mHead + 1] ELSE mBuffer[c]
  BY BatchIsSeq DEF AfterRead, RingInv, RingTypeOK, Cells

LEMMA StoredType ==
  ASSUME NEW n \in 1 .. numEvents, NEW es \in [1 .. n -> Events], RingInv
  PROVE  AfterRead(es) \in [Cells -> Events \union {Nothing}]
<1>1. DOMAIN mBuffer = Cells
  BY DEF RingInv, RingTypeOK, Cells
<1>2. ASSUME NEW c \in Cells PROVE AfterRead(es)[c] \in Events \union {Nothing}
  <2>1. mBuffer[c] \in Events \union {Nothing}
    BY DEF RingInv, RingTypeOK, Cells
  <2>2. ASSUME c - mHead \in 0 .. n - 1 PROVE es[c - mHead + 1] \in Events
    BY <2>2, EventRingAssumption DEF Cells, RingInv, RingTypeOK
  <2> QED BY <2>1, <2>2, StoredCell
<1> QED BY <1>1, <1>2 DEF AfterRead

(* Where an event lies when the batch fits before the end of the reader. *)
LEMMA BeforeEnd ==
  ASSUME RingInv, NEW n \in 1 .. numEvents, available + n <= numEvents,
         mHead + n <= numEvents, NEW k \in 0 .. available + n - 1
  PROVE  /\ k < available => At(k) - mHead \notin 0 .. n - 1
         /\ k >= available => /\ At(k) - mHead = k - available
                             /\ k - available \in 0 .. n - 1
<1>1. /\ numEvents \in Nat \ {0} /\ mHead \in 0 .. numEvents
      /\ mCurr \in 0 .. numEvents - 1 /\ available \in 0 .. numEvents
  BY RingNumbers
<1>2. k \in Nat
  BY <1>1
<1>3. CASE mHead = mCurr + available
  BY <1>1, <1>2, <1>3 DEF At
<1>4. CASE mHead = mCurr + available - numEvents
  BY <1>1, <1>2, <1>4 DEF At
<1>5. CASE mHead = numEvents /\ mCurr = 0 /\ available = 0
  BY <1>1, <1>2, <1>5
<1> QED BY <1>3, <1>4, <1>5 DEF RingInv, HeadFollows

(* An event stored before is not behind the head when the batch wraps. *)
LEMMA AheadOfHead ==
  ASSUME RingInv, NEW n \in 1 .. numEvents, available + n <= numEvents,
         mHead + n > numEvents, NEW k \in 0 .. available - 1
  PROVE  /\ At(k) >= mHead + n - numEvents
         /\ At(k) - mHead \notin 0 .. n - 1
<1>1. /\ numEvents \in Nat \ {0} /\ mHead \in 0 .. numEvents
      /\ mCurr \in 0 .. numEvents - 1 /\ available \in 0 .. numEvents
  BY RingNumbers
<1>2. k \in Nat
  BY <1>1
<1>3. CASE mHead = mCurr + available
  BY <1>1, <1>2, <1>3 DEF At
<1>4. CASE mHead = mCurr + available - numEvents
  BY <1>1, <1>2, <1>4 DEF At
<1>5. CASE mHead = numEvents /\ mCurr = 0 /\ available = 0
  BY <1>1, <1>2, <1>5
<1> QED BY <1>3, <1>4, <1>5 DEF RingInv, HeadFollows

(* Where the new events lie when the batch runs past the end of the reader. *)
LEMMA BehindHead ==
  ASSUME RingInv, NEW n \in 1 .. numEvents, available + n <= numEvents,
         mHead + n > numEvents,
         NEW k \in 0 .. available + n - 1, k >= available
  PROVE  /\ k - available \in 0 .. n - 1
         /\ At(k) < mHead + n - numEvents
              => (numEvents + At(k)) - mHead = k - available
         /\ At(k) >= mHead + n - numEvents => At(k) - mHead = k - available
<1>1. /\ numEvents \in Nat \ {0} /\ mHead \in 0 .. numEvents
      /\ mCurr \in 0 .. numEvents - 1 /\ available \in 0 .. numEvents
  BY EventRingAssumption DEF RingInv, RingTypeOK, available
<1>2. k - available \in 0 .. n - 1 /\ k \in Nat
  BY <1>1
<1>3. CASE mHead = mCurr + available
  BY <1>1, <1>2, <1>3 DEF At
<1>4. CASE mHead = mCurr + available - numEvents
  BY <1>1, <1>2, <1>4 DEF At
<1>5. CASE mHead = numEvents /\ mCurr = 0 /\ available = 0
  BY <1>1, <1>2, <1>5 DEF At
<1> QED BY <1>3, <1>4, <1>5 DEF RingInv, HeadFollows

(* The batch lands behind the stored events and moves none of them. *)
LEMMA FillCells ==
  ASSUME NEW n \in 1 .. numEvents, NEW es \in [1 .. n -> Events],
         RingInv, fill(es), NEW k \in 0 .. available + n - 1
  PROVE  mBuffer'[At(k)] = IF k < available THEN mBuffer[At(k)]
                           ELSE es[k - available + 1]
<1> DEFINE c == At(k)
<1>1. available \in 0 .. numEvents /\ available + n <= numEvents
  BY FillOffsets, RingNumbers
<1>2. c \in 0 .. numEvents - 1 /\ c \in Cells
  BY <1>1, EventRingAssumption DEF At, RingInv, RingTypeOK, Cells
<1>3. CASE mHead + n <= numEvents
  <2>1. mBuffer'[c] = AfterRead(es)[c]
    BY <1>3, FillOffsets, RingNumbers
  <2>2. CASE k < available
    <3>1. c - mHead \notin 0 .. n - 1
      BY <1>1, <1>3, <2>2, BeforeEnd
    <3> QED BY <1>2, <2>1, <2>2, <3>1, StoredCell
  <2>3. CASE k >= available
    <3>1. c - mHead = k - available /\ k - available \in 0 .. n - 1
      BY <1>1, <1>3, <2>3, BeforeEnd
    <3> QED BY <1>1, <1>2, <2>1, <2>3, <3>1, StoredCell
  <2> QED BY <1>1, <2>2, <2>3
<1>4. CASE mHead + n > numEvents
  <2> DEFINE s == mHead + n - numEvents
  <2>1. s \in 1 .. numEvents
    BY <1>4, RingNumbers
  <2>2. numEvents + c \in Cells
    BY <1>2, EventRingAssumption DEF Cells
  <2>3. mBuffer' = Wrapped(AfterRead(es), s)
    BY <1>4, FillOffsets, RingNumbers
  <2>4. DOMAIN AfterRead(es) = Cells
    BY DEF AfterRead, RingInv, RingTypeOK, Cells
  <2>5. mBuffer'[c] = IF c < s THEN AfterRead(es)[numEvents + c]
                      ELSE AfterRead(es)[c]
    BY <1>2, <2>3, <2>4 DEF Wrapped
  <2>6. CASE k < available
    <3>1. c >= s /\ c - mHead \notin 0 .. n - 1
      <4>1. k \in 0 .. available - 1
        BY <1>1, <2>6, RingNumbers
      <4> QED BY <1>1, <1>4, <4>1, AheadOfHead
    <3>2. mBuffer'[c] = AfterRead(es)[c]
      BY <1>2, <2>1, <2>5, <3>1
    <3> QED BY <1>2, <2>6, <3>1, <3>2, StoredCell
  <2>7. CASE k >= available
    <3>1. CASE c < s
      <4>1. (numEvents + c) - mHead = k - available /\ k - available \in 0 .. n - 1
        BY <1>1, <1>4, <2>7, <3>1, BehindHead
      <4>2. mBuffer'[c] = AfterRead(es)[numEvents + c]
        BY <2>5, <3>1
      <4>3. AfterRead(es)[numEvents + c] = es[(numEvents + c) - mHead + 1]
        <5>1. (numEvents + c) - mHead \in 0 .. n - 1
          BY <4>1
        <5> QED BY <2>2, <5>1, StoredCell
      <4>4. (numEvents + c) - mHead + 1 = k - available + 1
        BY <4>1
      <4> QED BY <1>1, <2>7, <4>2, <4>3, <4>4
    <3>2. CASE c >= s
      <4>1. c - mHead = k - available /\ k - available \in 0 .. n - 1
        BY <1>1, <1>4, <2>7, <3>2, BehindHead
      <4>2. mBuffer'[c] = AfterRead(es)[c]
        BY <1>2, <2>1, <2>5, <3>2
      <4>3. AfterRead(es)[c] = es[k - available + 1]
        BY <1>2, <4>1, StoredCell
      <4> QED BY <1>1, <2>7, <4>2, <4>3
    <3> QED BY <1>2, <2>1, <3>1, <3>2
  <2> QED BY <1>1, <2>6, <2>7
<1> QED BY <1>3, <1>4, EventRingAssumption DEF RingInv, RingTypeOK

LEMMA FillInv ==
  ASSUME NEW n \in 1 .. numEvents, NEW es \in [1 .. n -> Events],
         RingInv, fill(es)
  PROVE  RingInv'
<1>1. mFreeSpace' \in 0 .. numEvents /\ mCurr' = mCurr
  BY BatchIsSeq, EventRingAssumption DEF fill, RingInv, RingTypeOK
<1>2. mBuffer' \in [Cells -> Events \union {Nothing}]
  <2>1. CASE mHead + n <= numEvents
    <3>1. mBuffer' = AfterRead(es)
      BY <2>1, FillOffsets, RingNumbers
    <3> QED BY <3>1, StoredType
  <2>2. CASE mHead + n > numEvents
    <3> DEFINE s == mHead + n - numEvents
               b == AfterRead(es)
    <3>1. mBuffer' = Wrapped(b, s) /\ b \in [Cells -> Events \union {Nothing}]
      BY <2>2, FillOffsets, StoredType, RingNumbers
    <3>2. s \in 1 .. numEvents
      BY <2>2, RingNumbers
    <3> HIDE DEF s, b
    <3>3. ASSUME NEW c \in Cells, c < s PROVE numEvents + c \in Cells
      BY <3>2, <3>3, EventRingAssumption DEF Cells
    <3> QED BY <3>1, <3>2, <3>3 DEF Wrapped
  <2> QED BY <2>1, <2>2, EventRingAssumption DEF RingInv, RingTypeOK
<1> QED BY <1>1, <1>2, FillOffsets DEF RingInv, RingTypeOK, Cells

LEMMA NextEventInv == ASSUME RingInv, next PROVE RingInv'
<1>1. /\ available > 0 /\ mFreeSpace' = mFreeSpace + 1 /\ available' = available - 1
      /\ mHead' = mHead /\ mBuffer' = mBuffer
      /\ mCurr' = IF mCurr + 1 = numEvents THEN 0 ELSE mCurr + 1
  BY RingNumbers DEF next, available
<1>2. mCurr' \in 0 .. numEvents - 1 /\ mFreeSpace' \in 0 .. numEvents
  BY <1>1, RingNumbers
<1>3. HeadFollows'
  <2>1. CASE mHead = mCurr + available
    BY <1>1, <2>1, RingNumbers DEF HeadFollows
  <2>2. CASE mHead = mCurr + available - numEvents
    BY <1>1, <2>2, RingNumbers DEF HeadFollows
  <2> QED BY <1>1, <2>1, <2>2 DEF RingInv, HeadFollows
<1> QED BY <1>1, <1>2, <1>3 DEF RingInv, RingTypeOK

LEMMA StepInv == RingInv /\ [RingNext]_ringVars => RingInv'
<1> SUFFICES ASSUME RingInv, [RingNext]_ringVars PROVE RingInv'
  OBVIOUS
<1>1. ASSUME UNCHANGED <<mBuffer, mHead, mCurr, mFreeSpace>> PROVE RingInv'
  BY <1>1 DEF RingInv, RingTypeOK, HeadFollows, available
<1> QED BY <1>1, FillInv, NextEventInv
        DEF RingNext, ringVars, fillFails, fillFull, readEvent

(* For every size of the reader its offsets stay in range and read() never
   gets room beyond the allocation. *)
THEOREM ReaderInRange == RingSpec => []RingTypeOK
<1>1. RingInv => RingTypeOK
  BY DEF RingInv
<1> QED BY <1>1, RingInit, StepInv, PTL DEF RingSpec

-----------------------------------------------------------------------------
(* The refinement of EventFifo. *)

(* The mapping yields a sequence of as many events as are stored. *)
ItemsIsSeq ==
  /\ available \in 0 .. numEvents
  /\ Items \in Seq(Events \union {Nothing})
  /\ Len(Items) = available
  /\ \A k \in 1 .. available : Items[k] = mBuffer[At(k - 1)]

LEMMA ItemsSeq == RingInv => ItemsIsSeq
<1> SUFFICES ASSUME RingInv PROVE ItemsIsSeq
  OBVIOUS
<1>1. available \in 0 .. numEvents
  BY EventRingAssumption DEF available, RingInv, RingTypeOK
<1>2. ASSUME NEW k \in 1 .. available
      PROVE  mBuffer[At(k - 1)] \in Events \union {Nothing}
  BY <1>1, EventRingAssumption DEF At, RingInv, RingTypeOK
<1>3. Items \in [1 .. available -> Events \union {Nothing}]
  BY <1>2 DEF Items
<1>4. Items \in Seq(Events \union {Nothing})
  BY <1>1, <1>3, SeqDef
<1>5. Len(Items) = available
  BY <1>1, <1>3, <1>4, LenProperties
<1> QED BY <1>1, <1>4, <1>5 DEF Items, ItemsIsSeq

LEMMA ItemsSeqNext == RingInv' => ItemsIsSeq'
  BY ItemsSeq, PTL

(* A fill appends its batch. *)
LEMMA FillAppends ==
  ASSUME NEW n \in 1 .. numEvents, NEW es \in [1 .. n -> Events],
         RingInv, fill(es)
  PROVE  Items' = Items \o es
<1>1. RingInv'
  BY FillInv
<1>2. available' = available + n /\ available + n <= numEvents
  BY FillOffsets, RingNumbers
<1>3. es \in Seq(Events) /\ Len(es) = n
  BY BatchIsSeq
<1>4. Items \o es \in Seq(Events \union {Nothing}) /\ Len(Items \o es) = available + n
  <2>1. es \in Seq(Events \union {Nothing})
    BY SeqDef
  <2>2. Items \in Seq(Events \union {Nothing}) /\ Len(Items) = available
    BY ItemsSeq DEF ItemsIsSeq
  <2> QED BY <1>3, <2>1, <2>2, ConcatProperties
<1>5. ASSUME NEW k \in 1 .. available + n PROVE Items'[k] = (Items \o es)[k]
  <2>1. At(k - 1)' = At(k - 1)
    BY DEF fill, At
  <2>2. Items'[k] = mBuffer'[At(k - 1)]
    BY <1>1, <1>2, <2>1, ItemsSeqNext DEF ItemsIsSeq
  <2>3. k - 1 \in 0 .. available + n - 1
    BY ItemsSeq DEF ItemsIsSeq
  <2>4. CASE k <= available
    <3>1. available \in Nat /\ k - 1 < available /\ k \in 1 .. available
      BY <2>4, RingNumbers
    <3>2. mBuffer'[At(k - 1)] = mBuffer[At(k - 1)]
      BY <2>3, <3>1, FillCells
    <3>3. Items[k] = mBuffer[At(k - 1)] /\ Len(Items) = available
          /\ Items \in Seq(Events \union {Nothing})
      BY <3>1, ItemsSeq DEF ItemsIsSeq
    <3>4. es \in Seq(Events \union {Nothing})
      BY SeqDef
    <3>5. (Items \o es)[k] = Items[k]
      BY <1>3, <3>1, <3>3, <3>4, ConcatProperties
    <3> QED BY <2>2, <3>2, <3>3, <3>5
  <2>5. CASE k > available
    BY <1>3, <2>2, <2>3, <2>5, FillCells, ItemsSeq DEF ItemsIsSeq
  <2> QED BY <2>4, <2>5, ItemsSeq DEF ItemsIsSeq
<1> QED BY <1>1, <1>2, <1>4, <1>5, ItemsSeqNext, SeqEqual DEF ItemsIsSeq

(* A next takes the head. *)
LEMMA NextTakes ==
  ASSUME RingInv, next
  PROVE  Items # <<>> /\ Items' = Tail(Items)
<1>1. RingInv' /\ available > 0 /\ available' = available - 1
  BY NextEventInv, EventRingAssumption DEF next, available, RingInv, RingTypeOK
<1>2. Items # <<>>
  BY <1>1, ItemsSeq DEF ItemsIsSeq
<1>3. Tail(Items) \in Seq(Events \union {Nothing}) /\ Len(Tail(Items)) = available - 1
  BY <1>1, <1>2, ItemsSeq DEF ItemsIsSeq
<1>4. ASSUME NEW k \in 1 .. available - 1 PROVE Items'[k] = Tail(Items)[k]
  <2>1. At(k - 1)' = At(k)
    BY <1>1, ItemsSeq, EventRingAssumption DEF ItemsIsSeq, At, next, RingInv, RingTypeOK
  <2>2. Items'[k] = mBuffer[At(k)]
    BY <1>1, <2>1, ItemsSeqNext DEF ItemsIsSeq, next
  <2>3. Tail(Items)[k] = Items[k + 1]
    BY <1>1, <1>2, ItemsSeq DEF ItemsIsSeq
  <2> QED BY <1>1, <2>2, <2>3, ItemsSeq DEF ItemsIsSeq
<1> QED BY <1>1, <1>2, <1>3, <1>4, ItemsSeq, ItemsSeqNext, SeqEqual DEF ItemsIsSeq

LEMMA ItemsKept ==
  ASSUME UNCHANGED <<mBuffer, mHead, mCurr, mFreeSpace>>
  PROVE  Items' = Items
  BY DEF Items, At, available

LEMMA FifoStep == RingInv /\ [RingNext]_ringVars => [Fifo!Next]_(Fifo!fifoVars)
<1> SUFFICES ASSUME RingInv, [RingNext]_ringVars PROVE [Fifo!Next]_(Fifo!fifoVars)
  OBVIOUS
<1> USE DEF Fifo!Next, Fifo!fifoVars
<1>1. ASSUME NEW n \in 1 .. numEvents, NEW es \in [1 .. n -> Events], fill(es)
      PROVE  Fifo!Fill(es)
  <2>1. Len(Items) + Len(es) <= numEvents /\ es # <<>>
    BY <1>1, FillOffsets, BatchIsSeq, ItemsSeq, EventRingAssumption
       DEF ItemsIsSeq, available, RingInv, RingTypeOK, fill
  <2> QED BY <1>1, <2>1, FillAppends DEF Fifo!Fill, fill
<1>2. CASE fillFails
  BY <1>2, ItemsSeq, ItemsKept, EventRingAssumption
     DEF ItemsIsSeq, fillFails, Fifo!FillFails, available, RingInv, RingTypeOK
<1>3. CASE fillFull
  BY <1>3, ItemsSeq, ItemsKept, EventRingAssumption
     DEF ItemsIsSeq, fillFull, Fifo!FillFull, available, RingInv, RingTypeOK
<1>4. CASE readEvent
  <2>1. Items' = Items
    BY <1>4, ItemsKept DEF readEvent
  <2>2. available > 0 <=> Items # <<>>
    BY ItemsSeq DEF ItemsIsSeq
  <2>3. available > 0 => Items[1] = mBuffer[mCurr]
    <3>1. At(0) = mCurr
      BY RingNumbers DEF At
    <3> QED BY <3>1, RingNumbers, ItemsSeq DEF ItemsIsSeq
  <2> QED BY <1>4, <2>1, <2>2, <2>3 DEF readEvent, Fifo!Look
<1>5. CASE next
  BY <1>5, NextTakes DEF next, Fifo!Drop
<1>6. CASE UNCHANGED ringVars
  BY <1>6, ItemsKept DEF ringVars
<1> QED BY <1>1, <1>2, <1>3, <1>4, <1>5, <1>6 DEF RingNext

(* For every size of the reader, filling, looking and advancing behave as a
   bounded first-in first-out store: no event is lost, repeated or reordered. *)
THEOREM ReaderIsFifo == RingSpec => ImplementsFifo
<1>1. InputEventCircularReader => Fifo!Init
  <2> SUFFICES ASSUME InputEventCircularReader PROVE Fifo!Init
    OBVIOUS
  <2>1. RingInv /\ available = 0
    BY RingInit, EventRingAssumption DEF InputEventCircularReader, available
  <2> QED BY <2>1, ItemsSeq DEF ItemsIsSeq, Fifo!Init, InputEventCircularReader
<1> QED BY <1>1, RingInit, StepInv, FifoStep, PTL DEF RingSpec, ImplementsFifo, Fifo!Spec

-----------------------------------------------------------------------------
(* Division by the length of a report. *)
LEMMA Quotient ==
  ASSUME NEW n \in Nat, NEW e \in Nat \ {0}
  PROVE  n \div e \in Nat /\ (n \div e) * e <= n /\ n < (n \div e) * e + e
OBVIOUS

LEMMA Multiple ==
  ASSUME NEW k \in Nat, NEW e \in Nat \ {0}
  PROVE  k * e \in Nat /\ (k * e) \div e = k /\ k * e + e = (k + 1) * e
<1>1. k * e \in Nat
  OBVIOUS
<1> QED BY <1>1, Z3

LEMMA Below ==
  ASSUME NEW n \in Nat, NEW m \in Nat, NEW e \in Nat \ {0}, n < m * e
  PROVE  n \div e < m
BY Quotient

LEMMA Grows ==
  ASSUME NEW n \in Nat, NEW m \in Nat, NEW e \in Nat \ {0}, n <= m
  PROVE  n * e <= m * e
OBVIOUS

-----------------------------------------------------------------------------
(* The types, in parts: the drivers, the two threads, the three positions in
   each stream, whose end is the end of a report, and the wake messages, one
   for each call of enable at most. *)
FlagsTyped ==
  /\ on \in [Drivers -> BOOLEAN] /\ mEnabled \in [Drivers -> BOOLEAN]
  /\ mHasPendingEvent \in [Drivers -> BOOLEAN] /\ revents \in [Drivers -> BOOLEAN]
  /\ mPendingEvent \in [Drivers -> 0 .. MaxReports]
  /\ told \in [Drivers -> -1 .. MaxReports]

Labels == {"out", "scan", "copy", "fill", "drain", "poll", "return"}
Polling == [pc : Labels, i : 0 .. NumDrivers, count : Int, nb : Nat, nbEvents : Nat,
            out : [Drivers -> -1 .. MaxReports]]

LoopTyped == poll \in Polling /\ (poll.pc \in {"copy", "fill", "drain"} => poll.i \in Drivers)

CallerTyped == svc \in [pc : {"idle", "flag", "state", "pending", "distance", "wake"},
                        d : Drivers, en : BOOLEAN, val : 0 .. MaxReports]

StreamsTyped ==
  /\ produced \in [Drivers -> Nat] /\ filled \in [Drivers -> Nat] /\ taken \in [Drivers -> Nat]
  /\ \A d \in Drivers : /\ taken[d] <= filled[d] /\ filled[d] <= produced[d]
                        /\ filled[d] - taken[d] <= RingSize
                        /\ \E k \in 0 .. MaxReports : produced[d] = k * EntriesPer

WakesCounted ==
  /\ wake \in Nat /\ calls \in 0 .. MaxCalls
  /\ wake + (IF svc.pc = "idle" THEN 0 ELSE 1) <= calls

PollInv == FlagsTyped /\ LoopTyped /\ CallerTyped /\ StreamsTyped /\ WakesCounted

LEMMA ReportsMade ==
  ASSUME StreamsTyped, NEW d \in Drivers
  PROVE  /\ Made(d) \in 0 .. MaxReports /\ produced[d] = Made(d) * EntriesPer
         /\ produced[d] <= MaxReports * EntriesPer
         /\ \A n \in Nat : n < produced[d] => n \div EntriesPer \in 0 .. MaxReports - 1
<1>1. EntriesPer \in Nat \ {0} /\ MaxReports \in Nat
  BY SensorsPollAssumption
<1>2. PICK k \in 0 .. MaxReports : produced[d] = k * EntriesPer
  BY DEF StreamsTyped
<1>3. k * EntriesPer \in Nat /\ (k * EntriesPer) \div EntriesPer = k
  BY <1>1, Multiple
<1>4. k * EntriesPer <= MaxReports * EntriesPer
  BY <1>1, Grows
<1>5. ASSUME NEW n \in Nat, n < produced[d] PROVE n \div EntriesPer \in 0 .. MaxReports - 1
  <2>1. n \div EntriesPer < k
    BY <1>1, <1>2, <1>5, Below
  <2>2. n \div EntriesPer \in Nat
    BY <1>1, Quotient
  <2> QED BY <1>1, <2>1, <2>2
<1> QED BY <1>2, <1>3, <1>4, <1>5 DEF Made

(* The loop's record, and what each kind of assignment makes of it. *)
LEMMA LoopParts ==
  ASSUME NEW p \in Polling
  PROVE  /\ p.pc \in Labels /\ p.i \in 0 .. NumDrivers /\ p.count \in Int
         /\ p.nb \in Nat /\ p.nbEvents \in Nat /\ p.out \in [Drivers -> -1 .. MaxReports]
BY DEF Polling

LEMMA LoopGoes ==
  ASSUME NEW p \in Polling, NEW x \in Labels, NEW q, q = [p EXCEPT !.pc = x]
  PROVE  q \in Polling /\ q.pc = x /\ q.i = p.i /\ q.count = p.count /\ q.nb = p.nb
BY DEF Polling

LEMMA LoopAdvances ==
  ASSUME NEW p \in Polling, p.i < NumDrivers, NEW q, q = [p EXCEPT !.i = @ + 1]
  PROVE  q \in Polling /\ q.pc = p.pc /\ q.i = p.i + 1 /\ q.count = p.count
<1>1. p.i + 1 \in 0 .. NumDrivers
  BY LoopParts, SensorsPollAssumption
<1> QED BY <1>1 DEF Polling

LEMMA LoopCounts ==
  ASSUME NEW p \in Polling, p.i < NumDrivers, NEW n \in Nat, NEW q, q = Counted(p, n)
  PROVE  q \in Polling /\ q.pc = "scan" /\ q.i = p.i + 1 /\ q.count = p.count - n
<1>1. /\ p.i + 1 \in 0 .. NumDrivers /\ p.count - n \in Int /\ p.nbEvents + n \in Nat
      /\ 0 \in Nat /\ "scan" \in Labels
  BY LoopParts, SensorsPollAssumption DEF Labels
<1>2. q \in Polling
  BY <1>1 DEF Counted, Polling
<1> QED BY <1>2 DEF Counted, Polling

LEMMA LoopPuts ==
  ASSUME NEW p \in Polling, NEW d \in Drivers, NEW x \in -1 .. MaxReports,
         NEW q, q = [p EXCEPT !.out[d] = x]
  PROVE  q \in Polling /\ q.pc = p.pc /\ q.i = p.i /\ q.count = p.count /\ q.nb = p.nb
<1>1. [p.out EXCEPT ![d] = x] \in [Drivers -> -1 .. MaxReports]
  BY LoopParts
<1> QED BY <1>1 DEF Polling

LoopNow ==
  /\ poll \in Polling /\ poll.pc \in Labels /\ poll.i \in 0 .. NumDrivers
  /\ poll.count \in Int /\ poll.nb \in Nat
  /\ poll.pc \in {"copy", "fill", "drain"} => poll.i \in Drivers

LEMMA LoopStep == ASSUME PollInv, [Next]_vars PROVE LoopTyped'
<1>0. LoopNow /\ NumDrivers \in Nat \ {0} /\ \A d \in Drivers : d \in 0 .. NumDrivers - 1
  BY LoopParts, SensorsPollAssumption DEF PollInv, LoopTyped, LoopNow, Drivers
<1>1. CASE EnterPoll \/ ScanPending \/ ScanRead \/ Fill \/ ScanEnd
  <2>1. PICK x \in Labels : /\ poll' = [poll EXCEPT !.pc = x]
                            /\ x \in {"copy", "fill", "drain"} => poll.i \in Drivers
    <3>1. CASE EnterPoll
      BY <3>1 DEF EnterPoll, Labels
    <3>2. CASE ScanPending \/ ScanRead
      BY <1>0, <3>2 DEF ScanPending, ScanRead, Scanning, LoopNow, Labels, Drivers
    <3>3. CASE Fill
      BY <1>0, <3>3 DEF Fill, LoopNow, Labels
    <3>4. CASE ScanEnd
      BY <3>4 DEF ScanEnd, Labels
    <3> QED BY <1>1, <3>1, <3>2, <3>3, <3>4
  <2> QED BY <1>0, <2>1, LoopGoes DEF LoopNow, LoopTyped
<1>2. CASE ScanSkip
  BY <1>0, <1>2, LoopAdvances DEF ScanSkip, Scanning, LoopNow, LoopTyped
<1>3. CASE CopyPending
  <2> DEFINE put == IF mEnabled[poll.i]
                    THEN [poll EXCEPT !.out[poll.i] = mPendingEvent[poll.i]] ELSE poll
  <2>1. mPendingEvent[poll.i] \in -1 .. MaxReports /\ poll.i \in Drivers
    BY <1>0, <1>3, SensorsPollAssumption DEF PollInv, FlagsTyped, CopyPending, LoopNow
  <2>2. put \in Polling /\ put.i = poll.i
    BY <1>0, <2>1, LoopPuts DEF LoopNow
  <2>3. PICK n \in Nat : poll' = Counted(put, n)
    BY <1>3 DEF CopyPending
  <2> HIDE DEF put
  <2>4. put.i < NumDrivers
    BY <1>0, <2>1, <2>2
  <2> QED BY <2>2, <2>3, <2>4, LoopCounts DEF LoopTyped
<1>4. CASE DrainSyn
  <2>1. mPendingEvent[poll.i] \in -1 .. MaxReports /\ poll.i \in Drivers
    BY <1>0, <1>4, SensorsPollAssumption DEF PollInv, FlagsTyped, DrainSyn, Draining, LoopNow
  <2>2. CASE mEnabled[poll.i]
    <3> DEFINE x == mPendingEvent[poll.i]
               d == poll.i
    <3>1. poll' = [poll EXCEPT !.nb = @ + 1, !.out[d] = x]
      BY <1>4, <2>2 DEF DrainSyn
    <3>2. poll \in Polling /\ x \in -1 .. MaxReports /\ d \in Drivers
      BY <1>0, <2>1 DEF LoopNow
    <3> HIDE DEF x, d
    <3>3. [poll.out EXCEPT ![d] = x] \in [Drivers -> -1 .. MaxReports] /\ poll.nb + 1 \in Nat
      BY <3>2, LoopParts
    <3>4. poll' \in Polling /\ poll'.i = poll.i
      BY <3>1, <3>2, <3>3 DEF Polling
    <3> QED BY <2>1, <3>4 DEF LoopTyped
  <2>3. CASE ~mEnabled[poll.i]
    <3>1. poll' = poll
      BY <1>4, <2>3 DEF DrainSyn
    <3> QED BY <3>1 DEF PollInv, LoopTyped
  <2> QED BY <2>2, <2>3
<1>5. CASE DrainEnd
  <2>1. poll.i < NumDrivers /\ poll.nb \in Nat /\ poll \in Polling
    BY <1>0, <1>5 DEF DrainEnd, LoopNow
  <2> QED BY <1>5, <2>1, LoopCounts DEF DrainEnd, LoopTyped
<1>6. CASE Poll
  <2>1. PICK x \in {"scan", "return"} : poll' = [poll EXCEPT !.i = 0, !.pc = x]
    BY <1>6 DEF Poll
  <2>2. poll' \in Polling
    <3>1. 0 \in 0 .. NumDrivers /\ x \in Labels /\ poll \in Polling
      BY <1>0 DEF Labels, LoopNow
    <3> QED BY <2>1, <3>1 DEF Polling
  <2>3. poll'.pc = x
    BY <1>0, <2>1 DEF LoopNow, Polling
  <2> QED BY <2>2, <2>3 DEF LoopTyped
<1>7. CASE ReturnEvents
  <2>1. NoEvents \in [Drivers -> -1 .. MaxReports]
    BY SensorsPollAssumption DEF NoEvents
  <2> QED BY <1>7, <2>1, SensorsPollAssumption DEF ReturnEvents, LoopTyped, Polling, Labels, Outside
<1>8. CASE UNCHANGED poll
  BY <1>8 DEF PollInv, LoopTyped
<1>9. \/ EnterPoll \/ ScanPending \/ ScanRead \/ Fill \/ ScanEnd \/ ScanSkip
      \/ CopyPending \/ DrainSyn \/ DrainEnd \/ Poll \/ ReturnEvents \/ UNCHANGED poll
  <2>1. CASE PollThread
    BY <2>1 DEF PollThread, DrainValue
  <2>2. CASE EnableThread
    BY <2>2 DEF EnableThread, SetEnabled, GetState, SetPending, SetDistance, Wake
  <2>3. ASSUME NEW d \in Drivers, Report(d) PROVE UNCHANGED poll
    BY <2>3 DEF Report
  <2>4. ASSUME NEW d \in Drivers, NEW e \in BOOLEAN, Enable(d, e) PROVE UNCHANGED poll
    BY <2>4 DEF Enable
  <2> QED BY <2>1, <2>2, <2>3, <2>4 DEF Next, vars
<1> QED BY <1>1, <1>2, <1>3, <1>4, <1>5, <1>6, <1>7, <1>8, <1>9

(* The other thread: enabling and disabling. *)
LEMMA CallerStep == ASSUME PollInv, [Next]_vars PROVE CallerTyped'
<1>0. CallerTyped /\ 0 \in Drivers /\ 0 \in 0 .. MaxReports
  BY SensorsPollAssumption DEF PollInv, Drivers
<1>1. ASSUME NEW d \in Drivers, NEW e \in BOOLEAN, Enable(d, e) PROVE CallerTyped'
  BY <1>0, <1>1 DEF Enable, CallerTyped
<1>2. ASSUME svc' = Enabled PROVE CallerTyped'
  BY <1>0, <1>2 DEF CallerTyped, Enabled, Idle
<1>3. CASE SetEnabled
  <2>1. svc' = Enabled \/ svc' = [svc EXCEPT !.pc = "state"]
    BY <1>3 DEF SetEnabled
  <2> QED BY <1>0, <1>2, <2>1 DEF CallerTyped
<1>4. CASE GetState
  <2>1. Made(svc.d) \in 0 .. MaxReports
    BY <1>0, ReportsMade DEF PollInv, CallerTyped
  <2>2. svc' = Enabled \/ svc' = [svc EXCEPT !.pc = "pending", !.val = Made(svc.d)]
    BY <1>4 DEF GetState
  <2> QED BY <1>0, <1>2, <2>1, <2>2 DEF CallerTyped
<1>5. CASE SetPending
  BY <1>0, <1>5 DEF SetPending, CallerTyped
<1>6. CASE SetDistance
  BY <1>2, <1>6 DEF SetDistance
<1>7. CASE Wake
  BY <1>0, <1>7 DEF Wake, CallerTyped, Idle
<1>8. CASE UNCHANGED svc
  BY <1>0, <1>8 DEF CallerTyped
<1>9. \/ EnableThread \/ UNCHANGED svc
      \/ \E d \in Drivers : \E e \in BOOLEAN : Enable(d, e)
  <2>1. CASE PollThread
    BY <2>1 DEF PollThread, EnterPoll, ScanSkip, ScanPending, CopyPending, ScanRead, Fill,
                DrainValue, DrainSyn, DrainEnd, ScanEnd, Poll, ReturnEvents, pollOnly
  <2>2. ASSUME NEW d \in Drivers, Report(d) PROVE UNCHANGED svc
    BY <2>2 DEF Report
  <2> QED BY <2>1, <2>2 DEF Next, vars
<1> QED BY <1>1, <1>3, <1>4, <1>5, <1>6, <1>7, <1>8, <1>9 DEF EnableThread

LEMMA FlagsStep == ASSUME PollInv, [Next]_vars PROVE FlagsTyped'
<1>0. FlagsTyped /\ LoopTyped /\ CallerTyped /\ StreamsTyped
  BY DEF PollInv
<1>1. ASSUME NEW d \in Drivers, NEW e \in BOOLEAN, Enable(d, e) \/ Report(d) PROVE FlagsTyped'
  BY <1>0, <1>1 DEF Enable, Report, FlagsTyped, driverVars
<1>2. CASE EnableThread
  <2>1. svc.d \in Drivers /\ svc.en \in BOOLEAN /\ svc.val \in 0 .. MaxReports
    BY <1>0 DEF CallerTyped
  <2> QED BY <1>0, <1>2, <2>1
          DEF EnableThread, SetEnabled, GetState, SetPending, SetDistance, Wake, FlagsTyped, driverVars
<1>3. CASE EnterPoll \/ ScanSkip \/ ScanPending \/ ScanRead \/ Fill \/ DrainSyn \/ ScanEnd
  BY <1>0, <1>3 DEF EnterPoll, ScanSkip, ScanPending, ScanRead, Fill, DrainSyn, ScanEnd,
                    FlagsTyped, pollOnly, driverVars
<1>4. CASE CopyPending \/ DrainEnd
  <2>1. PICK n \in Int : revents' = [revents EXCEPT ![poll.i] = @ /\ n >= poll.count]
    BY <1>0, <1>4, LoopParts DEF CopyPending, DrainEnd, Drained, LoopTyped
  <2>2. UNCHANGED <<on, mEnabled, mHasPendingEvent, mPendingEvent, told>>
    BY <1>4 DEF CopyPending, DrainEnd, pollOnly
  <2>3. revents' \in [Drivers -> BOOLEAN]
    BY <1>0, <2>1 DEF FlagsTyped
  <2> QED BY <1>0, <2>2, <2>3 DEF FlagsTyped
<1>5. CASE DrainValue
  <2> DEFINE d == poll.i
  <2>1. d \in Drivers /\ taken[d] \in Nat /\ taken[d] < produced[d]
    BY <1>0, <1>5, LoopParts DEF DrainValue, Draining, LoopTyped, StreamsTyped, Stored
  <2>2. taken[d] \div EntriesPer \in 0 .. MaxReports - 1
    BY <1>0, <2>1, ReportsMade
  <2>3. mPendingEvent' = [mPendingEvent EXCEPT ![d] = (taken[d] \div EntriesPer) + 1]
    BY <1>5 DEF DrainValue
  <2> HIDE DEF d
  <2>4. mPendingEvent' \in [Drivers -> 0 .. MaxReports]
    <3>1. (taken[d] \div EntriesPer) + 1 \in 0 .. MaxReports
      BY <2>2, SensorsPollAssumption
    <3> QED BY <1>0, <2>3, <3>1 DEF FlagsTyped
  <2> QED BY <1>0, <1>5, <2>4 DEF DrainValue, FlagsTyped, pollOnly
<1>6. CASE Poll
  BY <1>0, <1>6 DEF Poll, FlagsTyped, pollOnly, Unread
<1>7. CASE ReturnEvents
  <2>1. poll.out \in [Drivers -> -1 .. MaxReports]
    BY <1>0, LoopParts DEF LoopTyped
  <2> QED BY <1>0, <1>7, <2>1 DEF ReturnEvents, FlagsTyped, pollOnly
<1>8. CASE UNCHANGED vars
  BY <1>0, <1>8 DEF vars, driverVars, FlagsTyped
<1> QED BY <1>1, <1>2, <1>3, <1>4, <1>5, <1>6, <1>7, <1>8 DEF Next, PollThread

LEMMA StreamsStep == ASSUME PollInv, [Next]_vars PROVE StreamsTyped'
<1>0. LoopTyped /\ StreamsTyped /\ MaxReports \in Nat /\ EntriesPer \in Nat \ {0} /\ RingSize \in Nat \ {0}
  BY SensorsPollAssumption DEF PollInv
<1>1. ASSUME NEW d \in Drivers, Report(d) PROVE StreamsTyped'
  <2>1. /\ Made(d) \in 0 .. MaxReports /\ Made(d) < MaxReports /\ produced[d] = Made(d) * EntriesPer
        /\ UNCHANGED <<filled, taken>> /\ produced' = [produced EXCEPT ![d] = @ + EntriesPer]
    BY <1>0, <1>1, ReportsMade DEF Report
  <2>2. produced[d] + EntriesPer = (Made(d) + 1) * EntriesPer /\ Made(d) + 1 \in 0 .. MaxReports
    BY <1>0, <2>1, Multiple
  <2>3. produced' \in [Drivers -> Nat] /\ \A c \in Drivers : produced[c] <= produced'[c]
    BY <1>0, <2>1 DEF StreamsTyped
  <2>4. ASSUME NEW c \in Drivers PROVE \E k \in 0 .. MaxReports : produced'[c] = k * EntriesPer
    BY <1>0, <2>1, <2>2 DEF StreamsTyped
  <2>5. ASSUME NEW c \in Drivers
        PROVE  taken'[c] <= filled'[c] /\ filled'[c] <= produced'[c] /\ filled'[c] - taken'[c] <= RingSize
    BY <1>0, <2>1, <2>3 DEF StreamsTyped
  <2> QED BY <1>0, <2>1, <2>3, <2>4, <2>5 DEF StreamsTyped
<1>2. CASE Fill
  <2> DEFINE d == poll.i
             m == Min({taken[d] + RingSize, produced[d]})
  <2>1. /\ d \in Drivers /\ taken[d] \in Nat /\ produced[d] \in Nat /\ filled[d] \in Nat
        /\ taken[d] <= filled[d] /\ filled[d] <= produced[d] /\ filled[d] - taken[d] <= RingSize
    BY <1>0, <1>2 DEF Fill, LoopTyped, StreamsTyped
  <2>2. m \in Nat /\ m <= produced[d] /\ m <= taken[d] + RingSize /\ filled[d] <= m
    <3>1. \E x \in {taken[d] + RingSize, produced[d]} : \A y \in {taken[d] + RingSize, produced[d]} : x <= y
      BY <1>0, <2>1
    <3>2. m \in {taken[d] + RingSize, produced[d]} /\ \A y \in {taken[d] + RingSize, produced[d]} : m <= y
      BY <3>1 DEF Min
    <3> HIDE DEF m
    <3> QED BY <1>0, <2>1, <3>2
  <2>3. filled' = [filled EXCEPT ![d] = m] /\ UNCHANGED <<produced, taken>>
    BY <1>2 DEF Fill, pollOnly
  <2> HIDE DEF d, m
  <2>4. filled' \in [Drivers -> Nat] /\ filled'[d] = m /\ \A c \in Drivers \ {d} : filled'[c] = filled[c]
    BY <1>0, <2>1, <2>2, <2>3 DEF StreamsTyped
  <2>5. ASSUME NEW c \in Drivers
        PROVE  taken[c] <= filled'[c] /\ filled'[c] <= produced[c] /\ filled'[c] - taken[c] <= RingSize
    <3>1. CASE c = d
      BY <1>0, <2>1, <2>2, <2>4, <3>1
    <3>2. CASE c # d
      BY <1>0, <2>4, <3>2 DEF StreamsTyped
    <3> QED BY <3>1, <3>2
  <2> QED BY <1>0, <2>3, <2>4, <2>5 DEF StreamsTyped
<1>3. CASE DrainValue \/ DrainSyn
  <2>1. poll.i \in Drivers /\ Stored(poll.i) > 0
    BY <1>0, <1>3 DEF DrainValue, DrainSyn, Draining, LoopTyped
  <2>2. taken' = [taken EXCEPT ![poll.i] = @ + 1] /\ UNCHANGED <<produced, filled>>
    BY <1>3 DEF DrainValue, DrainSyn, pollOnly
  <2>3. /\ taken' \in [Drivers -> Nat] /\ taken'[poll.i] = taken[poll.i] + 1
        /\ \A c \in Drivers \ {poll.i} : taken'[c] = taken[c]
    BY <1>0, <2>1, <2>2 DEF StreamsTyped
  <2>4. ASSUME NEW c \in Drivers PROVE taken'[c] <= filled[c] /\ filled[c] - taken'[c] <= RingSize
    <3>0. taken[c] \in Nat /\ filled[c] \in Nat /\ taken[c] <= filled[c] /\ filled[c] - taken[c] <= RingSize
      BY <1>0 DEF StreamsTyped
    <3>1. CASE c = poll.i
      BY <1>0, <2>1, <2>3, <3>0, <3>1 DEF Stored
    <3>2. CASE c # poll.i
      BY <2>3, <3>0, <3>2
    <3> QED BY <3>1, <3>2
  <2> QED BY <1>0, <2>2, <2>3, <2>4 DEF StreamsTyped
<1>4. CASE UNCHANGED streamVars
  BY <1>0, <1>4 DEF StreamsTyped, streamVars
<1>5. \/ UNCHANGED streamVars \/ Fill \/ DrainValue \/ DrainSyn \/ \E d \in Drivers : Report(d)
  <2>1. CASE PollThread
    BY <2>1 DEF PollThread, EnterPoll, ScanSkip, ScanPending, CopyPending, ScanRead,
                DrainEnd, ScanEnd, Poll, ReturnEvents, pollOnly, streamVars
  <2>2. CASE EnableThread
    BY <2>2 DEF EnableThread, SetEnabled, GetState, SetPending, SetDistance, Wake
  <2>3. ASSUME NEW d \in Drivers, NEW e \in BOOLEAN, Enable(d, e) PROVE UNCHANGED streamVars
    BY <2>3 DEF Enable
  <2> QED BY <2>1, <2>2, <2>3 DEF Next, vars
<1> QED BY <1>1, <1>2, <1>3, <1>4, <1>5

LEMMA WakesStep == ASSUME PollInv, [Next]_vars PROVE WakesCounted'
<1>0. WakesCounted /\ CallerTyped /\ MaxCalls \in Nat
  BY SensorsPollAssumption DEF PollInv
<1>1. ASSUME NEW d \in Drivers, NEW e \in BOOLEAN, Enable(d, e) PROVE WakesCounted'
  BY <1>0, <1>1 DEF Enable, WakesCounted, CallerTyped
<1>2. CASE Wake
  BY <1>0, <1>2 DEF Wake, WakesCounted, Idle
<1>3. CASE SetEnabled \/ GetState \/ SetPending \/ SetDistance
  <2>1. svc.pc # "idle" /\ UNCHANGED <<wake, calls>>
    BY <1>3 DEF SetEnabled, GetState, SetPending, SetDistance
  <2> QED BY <1>0, <2>1 DEF WakesCounted
<1>4. CASE Poll
  <2>1. UNCHANGED <<svc, calls>> /\ wake' \in Nat /\ wake' <= wake
    BY <1>0, <1>4 DEF Poll, pollOnly, WakesCounted
  <2>2. PICK b \in Nat : b = IF svc.pc = "idle" THEN 0 ELSE 1
    OBVIOUS
  <2>3. wake \in Nat /\ calls \in 0 .. MaxCalls /\ calls \in Int /\ wake + b <= calls
    BY <1>0, <2>2 DEF WakesCounted
  <2>4. wake' + b <= calls
    <3>1. \A x, y, z, t \in Int : x <= y /\ y + t <= z => x + t <= z
      OBVIOUS
    <3>2. wake' \in Int /\ wake \in Int /\ b \in Int /\ wake' <= wake
      BY <2>1, <2>2, <2>3
    <3> QED BY <2>3, <3>1, <3>2
  <2>5. b = IF svc'.pc = "idle" THEN 0 ELSE 1
    BY <2>1, <2>2
  <2> QED BY <2>1, <2>3, <2>4, <2>5 DEF WakesCounted
<1>5. CASE UNCHANGED <<wake, svc, calls>>
  BY <1>0, <1>5 DEF WakesCounted
<1>6. \/ EnableThread \/ UNCHANGED <<wake, svc, calls>> \/ Poll
      \/ \E d \in Drivers : \E e \in BOOLEAN : Enable(d, e)
  <2>1. CASE PollThread
    BY <2>1 DEF PollThread, EnterPoll, ScanSkip, ScanPending, CopyPending, ScanRead, Fill,
                DrainValue, DrainSyn, DrainEnd, ScanEnd, ReturnEvents, pollOnly
  <2>2. ASSUME NEW d \in Drivers, Report(d) PROVE UNCHANGED <<wake, svc, calls>>
    BY <2>2 DEF Report
  <2> QED BY <2>1, <2>2 DEF Next, vars
<1> QED BY <1>1, <1>2, <1>3, <1>4, <1>5, <1>6 DEF EnableThread

LEMMA PollInvHolds == Spec => []PollInv
<1>1. Init => PollInv
  <2> SUFFICES ASSUME Init PROVE PollInv
    OBVIOUS
  <2>0. 0 \in Drivers /\ NumDrivers \in Nat \ {0} /\ MaxReports \in Nat /\ MaxCalls \in Nat
        /\ 0 = 0 * EntriesPer /\ RingSize \in Nat /\ Room \in Nat
    BY SensorsPollAssumption DEF Drivers
  <2>1. FlagsTyped /\ CallerTyped
    BY <2>0 DEF Init, FlagsTyped, CallerTyped, Idle, NoEvents
  <2>2. LoopTyped
    BY <2>0 DEF Init, LoopTyped, Polling, Labels, Outside, NoEvents
  <2>3. StreamsTyped
    BY <2>0 DEF Init, StreamsTyped
  <2>4. WakesCounted
    BY <2>0 DEF Init, WakesCounted, Idle
  <2> QED BY <2>1, <2>2, <2>3, <2>4 DEF PollInv
<1>2. PollInv /\ [Next]_vars => PollInv'
  BY LoopStep, CallerStep, FlagsStep, StreamsStep, WakesStep DEF PollInv
<1> QED BY <1>1, <1>2, PTL DEF Spec

(* For any number of drivers and any sizes: the types, the ring is never
   filled beyond its size, nor is there ever a wake message too many. *)
THEOREM TypeCorrect == Spec => []TypeOK
<1>1. PollInv => TypeOK
  <2> SUFFICES ASSUME PollInv PROVE TypeOK
    OBVIOUS
  <2>1. poll.pc \in Labels /\ poll.i \in 0 .. NumDrivers
    BY LoopParts DEF PollInv, LoopTyped
  <2>2. ASSUME NEW d \in Drivers
        PROVE  /\ produced[d] \in 0 .. MaxReports * EntriesPer
               /\ filled[d] \in 0 .. produced[d]
               /\ taken[d] \in filled[d] - RingSize .. filled[d]
    <3>1. /\ produced[d] \in Nat /\ filled[d] \in Nat /\ taken[d] \in Nat
          /\ taken[d] <= filled[d] /\ filled[d] <= produced[d] /\ filled[d] - taken[d] <= RingSize
      BY DEF PollInv, StreamsTyped
    <3>2. produced[d] <= MaxReports * EntriesPer
      BY ReportsMade DEF PollInv
    <3>3. MaxReports * EntriesPer \in Nat /\ RingSize \in Nat
      BY SensorsPollAssumption
    <3> QED BY <3>1, <3>2, <3>3
  <2>3. wake \in 0 .. MaxCalls
    BY SensorsPollAssumption DEF PollInv, WakesCounted
  <2> QED BY <2>1, <2>2, <2>3 DEF PollInv, FlagsTyped, TypeOK, Labels
<1> QED BY <1>1, PollInvHolds, PTL

-----------------------------------------------------------------------------
(* Where the loop goes: each call starts with the first driver, the loop passes
   a driver only without a pending event, and reaches poll() only past the last
   driver. *)

LoopFacts ==
  /\ poll \in Polling /\ poll.i \in 0 .. NumDrivers /\ poll.count \in Int /\ poll.nb \in Nat
  /\ poll.pc \in {"copy", "fill", "drain"} => poll.i < NumDrivers
  /\ NumDrivers \in Nat /\ \A d \in Drivers : d \in Nat /\ d < NumDrivers

LEMMA LoopFactsHold == PollInv => LoopFacts
BY LoopParts, SensorsPollAssumption DEF PollInv, LoopTyped, LoopFacts, Drivers

Entering == poll.pc = "out" => poll.i = 0

(* The steps of the loop. *)
LEMMA LoopMoves ==
  ASSUME PollInv, PollThread
  PROVE  \/ EnterPoll /\ poll'.pc = "scan" /\ poll'.i = poll.i
         \/ ScanSkip /\ poll'.pc = "scan" /\ poll'.i = poll.i + 1
         \/ ScanPending /\ poll'.pc = "copy" /\ poll'.i = poll.i
         \/ CopyPending /\ poll'.pc = "scan" /\ poll'.i = poll.i + 1
         \/ ScanRead /\ poll'.pc = "fill" /\ poll'.i = poll.i
         \/ Fill /\ poll'.pc = "drain" /\ poll'.i = poll.i
         \/ (DrainValue \/ DrainSyn) /\ poll'.pc = "drain" /\ poll'.i = poll.i
         \/ DrainEnd /\ poll'.pc = "scan" /\ poll'.i = poll.i + 1 /\ poll'.count = poll.count - poll.nb
         \/ ScanEnd /\ poll.count > 0 /\ poll'.pc = "poll" /\ poll'.i = poll.i /\ poll.i = NumDrivers
         \/ ScanEnd /\ poll.count <= 0 /\ poll'.pc = "return" /\ poll'.i = poll.i
         \/ Poll /\ poll'.pc \in {"scan", "return"} /\ poll'.i = 0 /\ (wake > 0 => poll'.pc = "scan")
         \/ ReturnEvents /\ poll'.pc = "out" /\ poll'.i = 0
<1>0. LoopFacts /\ poll \in Polling /\ \A x \in {"out", "scan", "copy", "fill", "drain", "poll", "return"} : x \in Labels
  BY LoopFactsHold DEF LoopFacts, Labels
<1>1. CASE EnterPoll
  BY <1>0, <1>1, LoopGoes DEF EnterPoll
<1>2. CASE ScanSkip
  BY <1>0, <1>2, LoopAdvances DEF ScanSkip, Scanning, LoopFacts
<1>3. CASE ScanPending
  BY <1>0, <1>3, LoopGoes DEF ScanPending
<1>4. CASE CopyPending
  <2>1. poll.i < NumDrivers /\ poll.i \in Drivers
    BY <1>0, <1>4 DEF CopyPending, LoopFacts, Drivers
  <2> DEFINE put == IF mEnabled[poll.i]
                    THEN [poll EXCEPT !.out[poll.i] = mPendingEvent[poll.i]] ELSE poll
  <2>2. put \in Polling /\ put.i = poll.i
    <3>1. mPendingEvent[poll.i] \in -1 .. MaxReports
      BY <2>1, SensorsPollAssumption DEF PollInv, FlagsTyped
    <3> QED BY <1>0, <2>1, <3>1, LoopPuts
  <2>3. PICK n \in Nat : poll' = Counted(put, n)
    BY <1>4 DEF CopyPending
  <2> HIDE DEF put
  <2> QED BY <1>4, <2>1, <2>2, <2>3, LoopCounts
<1>5. CASE ScanRead
  BY <1>0, <1>5, LoopGoes DEF ScanRead
<1>6. CASE Fill
  BY <1>0, <1>6, LoopGoes DEF Fill
<1>7. CASE DrainValue
  BY <1>7 DEF DrainValue, Draining
<1>8. CASE DrainSyn
  <2>1. poll'.pc = poll.pc /\ poll'.i = poll.i
    BY <1>0, <1>8 DEF DrainSyn, Polling
  <2> QED BY <1>8, <2>1 DEF DrainSyn, Draining
<1>9. CASE DrainEnd
  BY <1>0, <1>9, LoopCounts DEF DrainEnd, LoopFacts
<1>10. CASE ScanEnd
  <2>1. CASE poll.count > 0
    <3>1. poll' = [poll EXCEPT !.pc = "poll"] /\ poll.i = NumDrivers
      BY <1>0, <1>10, <2>1 DEF ScanEnd, Scanning, LoopFacts
    <3> QED BY <1>0, <1>10, <2>1, <3>1, LoopGoes
  <2>2. CASE ~(poll.count > 0)
    <3>1. poll' = [poll EXCEPT !.pc = "return"] /\ poll.count <= 0
      BY <1>0, <1>10, <2>2 DEF ScanEnd, LoopFacts
    <3> QED BY <1>0, <1>10, <3>1, LoopGoes
  <2> QED BY <2>1, <2>2
<1>11. CASE Poll
  <2>1. PICK x \in {"scan", "return"} :
          poll' = [poll EXCEPT !.i = 0, !.pc = x] /\ (wake > 0 => x = "scan")
    BY <1>11 DEF Poll
  <2>2. poll'.pc = x /\ poll'.i = 0
    BY <1>0, <2>1 DEF Polling
  <2> QED BY <1>11, <2>1, <2>2
<1>12. CASE ReturnEvents
  BY <1>12 DEF ReturnEvents, Outside
<1> QED
  BY <1>1, <1>2, <1>3, <1>4, <1>5, <1>6, <1>7, <1>8, <1>9, <1>10, <1>11, <1>12 DEF PollThread

(* The loop comes to driver d before it is in poll() again. *)
WillScan(d) ==
  \/ poll.pc \in {"out", "return"}
  \/ poll.pc = "scan" /\ poll.i <= d
  \/ poll.pc \in {"copy", "fill", "drain"} /\ poll.i < d

(* The caller is in the part of an activation of d that ends with a wake
   message. *)
Activating(d) ==
  svc.d = d /\ svc.en /\ svc.pc \in {"state", "pending", "distance", "wake"}

PendingInv ==
  \A d \in Drivers : mHasPendingEvent[d] /\ mEnabled[d]
                       => Activating(d) \/ wake > 0 \/ WillScan(d)

(* What an enable under way has written already. *)
CallerInv ==
  /\ svc.pc \in {"state", "pending", "distance", "wake"} => (mEnabled[svc.d] <=> svc.en)
  /\ svc.pc = "wake" => svc.en

(* Only poll() takes wake messages, and the loop enables nothing. *)
LEMMA LoopKeeps ==
  ASSUME PollThread
  PROVE  UNCHANGED <<svc, mEnabled>> /\ (Poll \/ UNCHANGED wake)
BY DEF PollThread, EnterPoll, ScanSkip, ScanPending, CopyPending, ScanRead, Fill, DrainValue,
       DrainSyn, DrainEnd, ScanEnd, Poll, ReturnEvents, pollOnly

LEMMA OtherSteps ==
  ASSUME [Next]_vars
  PROVE  PollThread \/ UNCHANGED <<poll, revents, filled, taken>>
<1>1. CASE EnableThread
  BY <1>1 DEF EnableThread, SetEnabled, GetState, SetPending, SetDistance, Wake, streamVars
<1>2. ASSUME NEW d \in Drivers, Report(d) PROVE UNCHANGED <<poll, revents, filled, taken>>
  BY <1>2 DEF Report
<1>3. ASSUME NEW d \in Drivers, NEW e \in BOOLEAN, Enable(d, e)
      PROVE  UNCHANGED <<poll, revents, filled, taken>>
  BY <1>3 DEF Enable, streamVars
<1> QED BY <1>1, <1>2, <1>3 DEF Next, vars, streamVars

LEMMA CallerInvHolds == Spec => []CallerInv
<1>1. Init => CallerInv
  BY DEF Init, CallerInv, Idle
<1>2. ASSUME PollInv, CallerInv, [Next]_vars PROVE CallerInv'
  <2>0. CallerTyped /\ mEnabled \in [Drivers -> BOOLEAN]
    BY <1>2 DEF PollInv, FlagsTyped
  <2>1. CASE PollThread
    BY <1>2, <2>1, LoopKeeps DEF CallerInv
  <2>2. CASE UNCHANGED <<svc, mEnabled>>
    BY <1>2, <2>2 DEF CallerInv
  <2>3. ASSUME NEW d \in Drivers, NEW e \in BOOLEAN, Enable(d, e) PROVE CallerInv'
    BY <1>2, <2>0, <2>3 DEF Enable, CallerInv, CallerTyped, driverVars
  <2>4. CASE SetEnabled
    <3>1. svc' = Enabled \/ svc' = [svc EXCEPT !.pc = "state"]
      BY <2>4 DEF SetEnabled
    <3>2. mEnabled'[svc.d] <=> svc.en
      BY <2>0, <2>4 DEF SetEnabled, CallerTyped
    <3>3. svc' = Idle \/ (svc'.d = svc.d /\ svc'.en = svc.en /\ (svc'.pc = "wake" => svc.en))
      BY <2>0, <3>1 DEF CallerTyped, Enabled
    <3>4. CASE svc' = Idle
      BY <3>4 DEF CallerInv, Idle
    <3>5. CASE svc' # Idle
      BY <3>2, <3>3, <3>5 DEF CallerInv
    <3> QED BY <3>4, <3>5
  <2>5. CASE GetState
    <3>1. svc' = Enabled \/ svc' = [svc EXCEPT !.pc = "pending", !.val = Made(svc.d)]
      BY <2>5 DEF GetState
    <3>2. mEnabled'[svc.d] <=> svc.en
      BY <1>2, <2>5 DEF GetState, driverVars, CallerInv
    <3>3. svc' = Idle \/ (svc'.d = svc.d /\ svc'.en = svc.en /\ (svc'.pc = "wake" => svc.en))
      BY <2>0, <3>1 DEF CallerTyped, Enabled
    <3>4. CASE svc' = Idle
      BY <3>4 DEF CallerInv, Idle
    <3>5. CASE svc' # Idle
      BY <3>2, <3>3, <3>5 DEF CallerInv
    <3> QED BY <3>4, <3>5
  <2>6. CASE SetPending
    BY <1>2, <2>0, <2>6 DEF SetPending, CallerInv, CallerTyped
  <2>7. CASE SetDistance
    BY <1>2, <2>0, <2>7 DEF SetDistance, CallerInv, CallerTyped, Enabled, Idle
  <2>8. CASE Wake
    BY <2>8 DEF Wake, CallerInv, Idle
  <2>9. ASSUME NEW d \in Drivers, Report(d) PROVE UNCHANGED <<svc, mEnabled>>
    BY <2>9 DEF Report, driverVars
  <2> QED BY <1>2, <2>1, <2>2, <2>3, <2>4, <2>5, <2>6, <2>7, <2>8, <2>9
          DEF Next, EnableThread, vars, driverVars
<1> QED BY <1>1, <1>2, PollInvHolds, PTL DEF Spec

LEMMA ScanKept ==
  ASSUME PollInv, Entering, PollThread, NEW d \in Drivers, WillScan(d), mHasPendingEvent'[d]
  PROVE  WillScan(d)' /\ mHasPendingEvent[d]
<1>0. LoopFacts /\ mHasPendingEvent \in [Drivers -> BOOLEAN]
  BY LoopFactsHold DEF PollInv, FlagsTyped
<1>1. mHasPendingEvent[d]
  BY <1>0, LoopMoves DEF EnterPoll, ScanSkip, ScanPending, CopyPending, ScanRead, Fill, DrainValue,
       DrainSyn, DrainEnd, ScanEnd, Poll, ReturnEvents
<1>2. ASSUME poll.pc = "scan" /\ poll.i = d PROVE ~ScanSkip /\ ~ScanPending /\ ~ScanRead
  BY <1>0, <1>1, <1>2 DEF ScanSkip, ScanPending, ScanRead
<1>3. CASE ScanSkip \/ ScanPending \/ ScanRead
  <2>1. poll.pc = "scan" /\ poll.i < d
    BY <1>0, <1>2, <1>3 DEF ScanSkip, ScanPending, ScanRead, Scanning, WillScan, LoopFacts
  <2>2. poll'.pc \in {"scan", "copy", "fill"} /\ (poll'.pc = "scan" => poll'.i = poll.i + 1)
        /\ (poll'.pc # "scan" => poll'.i = poll.i)
    BY <1>3, LoopMoves DEF ScanSkip, ScanPending, ScanRead, EnterPoll, CopyPending, Fill,
            DrainValue, DrainSyn, Draining, DrainEnd, ScanEnd, Poll, ReturnEvents, Scanning
  <2> QED BY <1>0, <1>1, <2>1, <2>2 DEF WillScan, LoopFacts
<1>4. CASE ~(ScanSkip \/ ScanPending \/ ScanRead)
  <2>1. CASE EnterPoll \/ ScanEnd \/ Poll \/ ReturnEvents
    BY <1>0, <1>1, <2>1, <1>4, LoopMoves
       DEF WillScan, Entering, LoopFacts, EnterPoll, ScanEnd, Poll, ReturnEvents,
           CopyPending, Fill, DrainValue, DrainSyn, Draining, DrainEnd
  <2>2. CASE CopyPending \/ DrainEnd
    <3>1. poll.i < d /\ poll'.pc = "scan" /\ poll'.i = poll.i + 1
      BY <2>2, <1>4, LoopMoves
         DEF WillScan, CopyPending, DrainEnd, EnterPoll, ScanEnd, Poll, ReturnEvents,
             Fill, DrainValue, DrainSyn, Draining
    <3> QED BY <1>0, <1>1, <3>1 DEF WillScan, LoopFacts
  <2>3. CASE Fill \/ DrainValue \/ DrainSyn
    <3>1. poll.i < d /\ poll'.pc = "drain" /\ poll'.i = poll.i
      BY <2>3, <1>4, LoopMoves
         DEF WillScan, CopyPending, DrainEnd, EnterPoll, ScanEnd, Poll, ReturnEvents,
             Fill, DrainValue, DrainSyn, Draining
    <3> QED BY <1>0, <1>1, <3>1 DEF WillScan
  <2> QED BY <1>4, <2>1, <2>2, <2>3 DEF PollThread
<1> QED BY <1>3, <1>4

LEMMA EnteringHolds == Spec => []Entering
<1>1. Init => Entering
  BY DEF Init, Entering, Outside
<1>2. ASSUME PollInv, Entering, [Next]_vars PROVE Entering'
  <2>1. CASE PollThread
    BY <1>2, <2>1, LoopMoves DEF Entering
  <2>2. CASE UNCHANGED poll
    BY <1>2, <2>2 DEF Entering
  <2> QED BY <1>2, <2>1, <2>2, OtherSteps
<1> QED BY <1>1, <1>2, PollInvHolds, PTL DEF Spec

LEMMA PendingHolds == Spec => []PendingInv
<1>1. Init => PendingInv
  BY DEF Init, PendingInv
<1>2. ASSUME PollInv, Entering, CallerInv, PendingInv, [Next]_vars PROVE PendingInv'
  <2> SUFFICES ASSUME NEW d \in Drivers, mHasPendingEvent'[d], mEnabled'[d]
               PROVE  Activating(d)' \/ wake' > 0 \/ WillScan(d)'
    BY DEF PendingInv
  <2>0. /\ wake \in Nat /\ mHasPendingEvent \in [Drivers -> BOOLEAN]
        /\ mEnabled \in [Drivers -> BOOLEAN] /\ CallerTyped
    BY <1>2 DEF PollInv, WakesCounted, FlagsTyped
  <2>1. CASE PollThread
    <3>1. UNCHANGED <<svc, mEnabled>>
      BY <2>1, LoopKeeps
    <3>2. mHasPendingEvent[d]
      BY <2>0, <2>1 DEF PollThread, EnterPoll, ScanSkip, ScanPending, CopyPending, ScanRead, Fill,
           DrainValue, DrainSyn, DrainEnd, ScanEnd, Poll, ReturnEvents
    <3>3. CASE Activating(d)
      BY <3>1, <3>3 DEF Activating
    <3>4. CASE WillScan(d)
      BY <1>2, <2>1, <3>4, ScanKept
    <3>5. CASE wake > 0
      <4>1. CASE Poll
        <5>1. poll'.pc = "scan" /\ poll'.i = 0
          BY <1>2, <2>1, <3>5, <4>1, LoopMoves
             DEF EnterPoll, ScanSkip, ScanPending, CopyPending, ScanRead, Fill, Scanning,
                 DrainValue, DrainSyn, Draining, DrainEnd, ScanEnd, Poll, ReturnEvents
        <5> QED BY <1>2, <5>1, LoopFactsHold DEF WillScan, LoopFacts
      <4>2. CASE UNCHANGED wake
        BY <3>5, <4>2
      <4> QED BY <2>1, <4>1, <4>2, LoopKeeps
    <3> QED BY <1>2, <3>1, <3>2, <3>3, <3>4, <3>5 DEF PendingInv
  <2>2. CASE UNCHANGED poll
    <3>1. WillScan(d) => WillScan(d)'
      BY <2>2 DEF WillScan
    <3>2. CASE UNCHANGED vars
      BY <1>2, <3>1, <3>2 DEF vars, driverVars, PendingInv, Activating
    <3>3. ASSUME NEW c \in Drivers, Report(c) PROVE Activating(d)' \/ wake' > 0 \/ WillScan(d)'
      BY <1>2, <3>1, <3>3 DEF Report, driverVars, PendingInv, Activating
    <3>4. ASSUME NEW c \in Drivers, NEW e \in BOOLEAN, Enable(c, e)
          PROVE  Activating(d)' \/ wake' > 0 \/ WillScan(d)'
      BY <1>2, <3>1, <3>4 DEF Enable, driverVars, PendingInv, Activating
    <3>5. CASE SetEnabled
      BY <1>2, <2>0, <3>1, <3>5 DEF SetEnabled, CallerInv, PendingInv, Activating, CallerTyped, Enabled
    <3>6. CASE GetState
      BY <1>2, <2>0, <3>1, <3>6 DEF GetState, driverVars, CallerInv, PendingInv, Activating, CallerTyped, Enabled
    <3>7. CASE SetPending
      BY <1>2, <2>0, <3>1, <3>7 DEF SetPending, CallerInv, PendingInv, Activating, CallerTyped
    <3>8. CASE SetDistance
      BY <1>2, <2>0, <3>1, <3>8 DEF SetDistance, CallerInv, PendingInv, Activating, CallerTyped, Enabled
    <3>9. CASE Wake
      BY <1>2, <2>0, <3>9 DEF Wake
    <3> QED BY <1>2, <2>1, <3>2, <3>3, <3>4, <3>5, <3>6, <3>7, <3>8, <3>9 DEF Next, EnableThread
  <2> QED BY <1>2, <2>1, <2>2, OtherSteps
<1> QED BY <1>1, <1>2, PollInvHolds, EnteringHolds, CallerInvHolds, PTL DEF Spec

-----------------------------------------------------------------------------
(* What is left in the readers. *)

(* How the positions of a driver's stream move. *)
LEMMA StoredChanges ==
  ASSUME PollInv, [Next]_vars, NEW d \in Drivers
  PROVE  \/ UNCHANGED Stored(d)
         \/ Fill /\ poll.i = d
         \/ (DrainValue \/ DrainSyn) /\ poll.i = d
<1>0. taken \in [Drivers -> Nat] /\ filled \in [Drivers -> Nat]
  BY DEF PollInv, StreamsTyped
<1>1. CASE UNCHANGED <<filled, taken>>
  BY <1>1 DEF Stored
<1>2. CASE Fill
  BY <1>0, <1>2 DEF Fill, Stored
<1>3. CASE DrainValue \/ DrainSyn
  BY <1>0, <1>3 DEF DrainValue, DrainSyn, pollOnly, Stored
<1>4. PollThread => Fill \/ DrainValue \/ DrainSyn \/ UNCHANGED <<filled, taken>>
  BY DEF PollThread, EnterPoll, ScanSkip, ScanPending, CopyPending, ScanRead, DrainEnd,
         ScanEnd, Poll, ReturnEvents
<1> QED BY <1>1, <1>2, <1>3, <1>4, OtherSteps

LEMMA StoredIsNat == ASSUME PollInv, NEW d \in Drivers PROVE Stored(d) \in Nat
BY DEF PollInv, StreamsTyped, Stored

(* While the service's buffer has room left: only a reader that is being
   drained holds anything. *)
DrainedInv == \A d \in Drivers : Stored(d) > 0 => poll.pc = "drain" /\ poll.i = d

LEMMA DrainedHolds == Spec /\ [](poll.count > 0) => []DrainedInv
<1>1. Init => DrainedInv
  BY DEF Init, DrainedInv, Stored
<1>2. ASSUME PollInv, DrainedInv, [Next]_vars, (poll.count > 0)' PROVE DrainedInv'
  <2> SUFFICES ASSUME NEW d \in Drivers, Stored(d)' > 0 PROVE poll'.pc = "drain" /\ poll'.i = d
    BY DEF DrainedInv
  <2>0. LoopFacts /\ Stored(d) \in Nat
    BY <1>2, LoopFactsHold, StoredIsNat
  <2>1. CASE Fill /\ poll.i = d
    <3>1. PollThread /\ poll.pc = "fill"
      BY <2>1 DEF PollThread, Fill
    <3> QED BY <1>2, <2>1, <3>1, LoopMoves
            DEF EnterPoll, ScanSkip, ScanPending, CopyPending, ScanRead, Scanning,
                DrainValue, DrainSyn, Draining, DrainEnd, ScanEnd, Poll, ReturnEvents
  <2>2. CASE (DrainValue \/ DrainSyn) /\ poll.i = d
    <3>1. PollThread /\ poll.pc = "drain" /\ Draining
      BY <2>2 DEF PollThread, DrainValue, DrainSyn, Draining
    <3> QED BY <1>2, <2>2, <3>1, LoopMoves
            DEF EnterPoll, ScanSkip, ScanPending, CopyPending, ScanRead, Scanning, Fill,
                DrainEnd, ScanEnd, Poll, ReturnEvents
  <2>3. CASE UNCHANGED Stored(d)
    <3>1. poll.pc = "drain" /\ poll.i = d /\ Stored(d) > 0
      BY <1>2, <2>3 DEF DrainedInv
    <3>2. CASE PollThread
      <4>1. ~DrainEnd
        <5>1. ASSUME DrainEnd PROVE FALSE
          <6>1. poll.nb >= poll.count /\ poll'.count = poll.count - poll.nb
            BY <1>2, <2>0, <3>1, <3>2, <5>1, LoopMoves
               DEF DrainEnd, Draining, LoopFacts, EnterPoll, ScanSkip, ScanPending, CopyPending,
                   ScanRead, Scanning, Fill, DrainValue, DrainSyn, ScanEnd, Poll, ReturnEvents
          <6> QED BY <1>2, <2>0, <6>1 DEF LoopFacts
        <5> QED BY <5>1
      <4> QED BY <1>2, <3>1, <3>2, <4>1, LoopMoves
              DEF EnterPoll, ScanSkip, ScanPending, CopyPending, ScanRead, Scanning, Fill,
                  ScanEnd, Poll, ReturnEvents
    <3>3. CASE UNCHANGED poll
      BY <3>1, <3>3
    <3> QED BY <1>2, <3>2, <3>3, OtherSteps
  <2> QED BY <1>2, <2>1, <2>2, <2>3, StoredChanges
<1> QED BY <1>1, <1>2, PollInvHolds, PTL DEF Spec

(* When the polling thread goes to sleep in poll(), no driver that runs has a
   pending event, unless an enable is under way that will wake it. *)
LEMMA PendingSeen ==
  ASSUME PollInv, PendingInv, Asleep, NEW d \in Drivers, mHasPendingEvent[d], mEnabled[d]
  PROVE  svc.pc # "idle"
BY DEF PendingInv, Asleep, PollWaits, WillScan, Activating

(* As long as no call fills the buffer that the service gave it, the polling
   thread goes to sleep with nothing left in a reader and no pending event it
   was not or will not be woken for, for any number of drivers, sizes of
   reader and report, and however enable is timed. *)
THEOREM NothingLeft == Spec /\ [](poll.count > 0) => []NothingLeftAsleep
<1>1. PollInv /\ PendingInv /\ DrainedInv => NothingLeftAsleep
  <2> SUFFICES ASSUME PollInv, PendingInv, DrainedInv, Asleep, NEW d \in Drivers
               PROVE  /\ Stored(d) = 0
                      /\ mHasPendingEvent[d] /\ mEnabled[d] => svc.pc # "idle"
    BY DEF NothingLeftAsleep
  <2>1. Stored(d) = 0
    BY StoredIsNat DEF DrainedInv, Asleep
  <2> QED BY <2>1, PendingSeen
<1> QED BY <1>1, PollInvHolds, PendingHolds, DrainedHolds, PTL

-----------------------------------------------------------------------------
(* Drivers without an initial event, whatever the service's buffer holds. *)

InitialInv ==
  /\ svc.pc \in {"state", "pending"} => svc.d \in WithInitial
  /\ \A d \in Drivers : mHasPendingEvent[d] => d \in WithInitial
  /\ poll.pc = "copy" => poll.i \in WithInitial
  /\ poll.pc \in {"fill", "drain"} => revents[poll.i]

LEMMA InitialInvHolds == Spec => []InitialInv
<1>1. Init => InitialInv
  BY DEF Init, InitialInv, Idle, Outside
<1>2. ASSUME PollInv, InitialInv, [Next]_vars PROVE InitialInv'
  <2>0. CallerTyped /\ FlagsTyped /\ LoopFacts
    BY <1>2, LoopFactsHold DEF PollInv
  <2>1. (svc.pc \in {"state", "pending"} => svc.d \in WithInitial)'
    <3>1. CASE UNCHANGED svc
      BY <1>2, <3>1 DEF InitialInv
    <3>0. CASE svc' = Enabled \/ svc' = Idle
      <4>1. Enabled.pc \in {"wake", "idle"} /\ Idle.pc = "idle"
        BY <2>0 DEF Enabled, Idle, CallerTyped
      <4> QED BY <3>0, <4>1
    <3>2. CASE SetEnabled
      BY <2>0, <3>0, <3>2 DEF SetEnabled, CallerTyped
    <3>3. CASE GetState
      <4>1. svc.pc = "state" /\ svc.d \in WithInitial
        BY <1>2, <3>3 DEF GetState, InitialInv
      <4>2. svc' = Enabled \/ svc' = [svc EXCEPT !.pc = "pending", !.val = Made(svc.d)]
        BY <3>3 DEF GetState
      <4> QED BY <2>0, <3>0, <4>1, <4>2 DEF CallerTyped
    <3>4. CASE SetPending \/ SetDistance \/ Wake
      <4>1. svc' = Enabled \/ svc' = Idle \/ svc' = [svc EXCEPT !.pc = "distance"]
        BY <3>4 DEF SetPending, SetDistance, Wake
      <4> QED BY <2>0, <3>0, <4>1 DEF CallerTyped
    <3>5. ASSUME NEW d \in Drivers, NEW e \in BOOLEAN, Enable(d, e)
          PROVE  svc'.pc \notin {"state", "pending"}
      BY <2>0, <3>5 DEF Enable, CallerTyped
    <3>6. ASSUME NEW d \in Drivers, Report(d) PROVE UNCHANGED svc
      BY <3>6 DEF Report
    <3>7. PollThread => UNCHANGED svc
      BY LoopKeeps
    <3> QED BY <1>2, <3>1, <3>2, <3>3, <3>4, <3>5, <3>6, <3>7 DEF Next, EnableThread, vars
  <2>2. ASSUME NEW d \in Drivers, mHasPendingEvent'[d] PROVE d \in WithInitial
    <3>1. CASE UNCHANGED mHasPendingEvent \/ ScanPending
      BY <1>2, <2>0, <2>2, <3>1 DEF InitialInv, ScanPending, FlagsTyped
    <3>2. CASE SetPending
      BY <1>2, <2>0, <2>2, <3>2 DEF InitialInv, SetPending, FlagsTyped, CallerTyped
    <3>3. ASSUME NEW c \in Drivers, NEW e \in BOOLEAN, Enable(c, e) PROVE UNCHANGED mHasPendingEvent
      BY <3>3 DEF Enable, driverVars
    <3>4. ASSUME NEW c \in Drivers, Report(c) PROVE UNCHANGED mHasPendingEvent
      BY <3>4 DEF Report, driverVars
    <3>5. PollThread => ScanPending \/ UNCHANGED mHasPendingEvent
      BY DEF PollThread, EnterPoll, ScanSkip, CopyPending, ScanRead, Fill, DrainValue, DrainSyn,
             DrainEnd, ScanEnd, Poll, ReturnEvents
    <3>6. EnableThread => SetPending \/ UNCHANGED mHasPendingEvent
      BY DEF EnableThread, SetEnabled, GetState, SetDistance, Wake, driverVars
    <3> QED BY <1>2, <3>1, <3>2, <3>3, <3>4, <3>5, <3>6 DEF Next, vars, driverVars
  <2>3. /\ (poll.pc = "copy" => poll.i \in WithInitial)'
        /\ (poll.pc \in {"fill", "drain"} => revents[poll.i])'
    <3>1. CASE UNCHANGED <<poll, revents>>
      BY <1>2, <3>1 DEF InitialInv
    <3>2. CASE ScanPending
      <4>1. PollThread /\ mHasPendingEvent[poll.i] /\ poll.i \in Drivers /\ poll.pc = "scan"
        BY <2>0, <3>2 DEF PollThread, ScanPending, Scanning, LoopFacts, Drivers
      <4>2. poll' = [poll EXCEPT !.pc = "copy"]
        BY <3>2 DEF ScanPending
      <4>3. poll'.pc = "copy" /\ poll'.i = poll.i
        BY <2>0, <4>2, LoopGoes DEF LoopFacts, Labels
      <4> QED BY <1>2, <4>1, <4>3 DEF InitialInv
    <3>3. CASE ScanRead \/ Fill \/ DrainValue \/ DrainSyn
      <4>1. PollThread /\ UNCHANGED revents /\ poll.pc \in {"scan", "fill", "drain"} /\ revents[poll.i]
        BY <1>2, <3>3 DEF PollThread, ScanRead, Fill, DrainValue, DrainSyn, Draining, Scanning, InitialInv
      <4>2. poll'.pc \in {"fill", "drain"} /\ poll'.i = poll.i
        BY <1>2, <3>3, <4>1, LoopMoves
           DEF ScanRead, Fill, DrainValue, DrainSyn, Draining, Scanning, EnterPoll, ScanSkip,
               ScanPending, CopyPending, DrainEnd, ScanEnd, Poll, ReturnEvents
      <4> QED BY <4>1, <4>2
    <3>4. CASE EnterPoll \/ ScanSkip \/ CopyPending \/ DrainEnd \/ ScanEnd \/ Poll \/ ReturnEvents
      <4>1. PollThread
        BY <3>4 DEF PollThread
      <4>2. poll'.pc \in {"scan", "poll", "return", "out"}
        BY <1>2, <3>4, <4>1, LoopMoves
           DEF ScanRead, Fill, DrainValue, DrainSyn, Draining, Scanning, EnterPoll, ScanSkip,
               ScanPending, CopyPending, DrainEnd, ScanEnd, Poll, ReturnEvents
      <4> QED BY <4>2
    <3>5. PollThread \/ UNCHANGED <<poll, revents>>
      BY <1>2, OtherSteps
    <3> QED BY <3>1, <3>2, <3>3, <3>4, <3>5 DEF PollThread
  <2> QED BY <2>1, <2>2, <2>3 DEF InitialInv
<1> QED BY <1>1, <1>2, PollInvHolds, PTL DEF Spec

(* What is left in a reader will be read before the thread is in poll() again:
   POLLIN is remembered, and the loop comes to the driver. *)
LeftInv ==
  \A d \in Drivers \ WithInitial :
    Stored(d) > 0 => /\ revents[d]
                     /\ \/ WillScan(d)
                        \/ poll.pc = "scan" /\ poll.count <= 0
                        \/ poll.pc \in {"fill", "drain"} /\ poll.i = d

LEMMA LeftHolds == Spec => []LeftInv
<1>1. Init => LeftInv
  BY DEF Init, LeftInv, Stored
<1>2. ASSUME PollInv, Entering, InitialInv, LeftInv, [Next]_vars PROVE LeftInv'
  <2> SUFFICES ASSUME NEW d \in Drivers, d \notin WithInitial, Stored(d)' > 0
               PROVE  /\ revents'[d]
                      /\ \/ WillScan(d)'
                         \/ poll'.pc = "scan" /\ poll'.count <= 0
                         \/ poll'.pc \in {"fill", "drain"} /\ poll'.i = d
    BY DEF LeftInv
  <2>0. LoopFacts /\ Stored(d) \in Nat /\ revents \in [Drivers -> BOOLEAN]
    BY <1>2, LoopFactsHold, StoredIsNat DEF PollInv, FlagsTyped
  <2>1. CASE (Fill \/ DrainValue \/ DrainSyn) /\ poll.i = d
    <3>1. PollThread /\ UNCHANGED revents /\ poll.pc \in {"fill", "drain"} /\ revents[d]
      BY <1>2, <2>1 DEF PollThread, Fill, DrainValue, DrainSyn, Draining, InitialInv
    <3>2. poll'.pc = "drain" /\ poll'.i = d
      BY <1>2, <2>1, <3>1, LoopMoves
         DEF Fill, DrainValue, DrainSyn, Draining, EnterPoll, ScanSkip, ScanPending, CopyPending,
             ScanRead, Scanning, DrainEnd, ScanEnd, Poll, ReturnEvents
    <3> QED BY <3>1, <3>2
  <2>2. CASE UNCHANGED Stored(d)
    <3>1. /\ revents[d]
          /\ \/ WillScan(d)
             \/ poll.pc = "scan" /\ poll.count <= 0
             \/ poll.pc \in {"fill", "drain"} /\ poll.i = d
          /\ ~mHasPendingEvent[d]
      BY <1>2, <2>2 DEF LeftInv, InitialInv
    <3>2. CASE UNCHANGED <<poll, revents>>
      BY <3>1, <3>2 DEF WillScan
    <3>3. CASE EnterPoll
      BY <1>2, <2>0, <3>1, <3>3, LoopMoves
         DEF PollThread, EnterPoll, Entering, WillScan, LoopFacts, ScanSkip, ScanPending,
             CopyPending, ScanRead, Scanning, Fill, DrainValue, DrainSyn, Draining, DrainEnd,
             ScanEnd, Poll, ReturnEvents
    <3>4. CASE ScanSkip \/ ScanPending \/ ScanRead
      <4>1. PollThread /\ UNCHANGED revents /\ poll.pc = "scan" /\ poll.count > 0
        BY <3>4 DEF PollThread, ScanSkip, ScanPending, ScanRead, Scanning
      <4>2. poll.i <= d /\ (poll.i = d => ScanRead)
        BY <2>0, <3>1, <3>4, <4>1 DEF WillScan, ScanSkip, ScanPending, ScanRead, LoopFacts
      <4>3. \/ ScanSkip /\ poll'.pc = "scan" /\ poll'.i = poll.i + 1
            \/ ScanPending /\ poll'.pc = "copy" /\ poll'.i = poll.i
            \/ ScanRead /\ poll'.pc = "fill" /\ poll'.i = poll.i
        <5>1. ~EnterPoll /\ ~CopyPending /\ ~Fill /\ ~DrainValue /\ ~DrainSyn /\ ~DrainEnd
              /\ ~Poll /\ ~ReturnEvents
          BY <4>1 DEF EnterPoll, CopyPending, Fill, DrainValue, DrainSyn, Draining, DrainEnd,
                      Poll, ReturnEvents
        <5>2. ~ScanEnd
          BY <3>4 DEF ScanSkip, ScanPending, ScanRead, ScanEnd
        <5> QED BY <1>2, <4>1, <5>1, <5>2, LoopMoves
      <4>4. CASE poll.i = d
        <5>1. poll'.pc = "fill"
          BY <3>1, <4>2, <4>3, <4>4 DEF ScanSkip, ScanPending
        <5> QED BY <3>1, <4>1, <4>3, <4>4, <5>1
      <4>5. CASE poll.i < d
        BY <2>0, <3>1, <4>1, <4>3, <4>5 DEF WillScan, LoopFacts
      <4> QED BY <2>0, <4>2, <4>4, <4>5 DEF LoopFacts
    <3>5. CASE CopyPending
      <4>1. poll.pc = "copy" /\ poll.i < d /\ poll.i \in WithInitial
        BY <1>2, <3>1, <3>5 DEF CopyPending, WillScan, InitialInv
      <4>2. PollThread /\ poll'.pc = "scan" /\ poll'.i = poll.i + 1
        BY <1>2, <3>5, <4>1, LoopMoves
           DEF PollThread, CopyPending, EnterPoll, ScanSkip, ScanPending, ScanRead, Scanning, Fill,
               DrainValue, DrainSyn, Draining, DrainEnd, ScanEnd, Poll, ReturnEvents
      <4>3. revents'[d]
        BY <2>0, <3>1, <3>5, <4>1 DEF CopyPending, Drained, LoopFacts
      <4> QED BY <2>0, <4>1, <4>2, <4>3 DEF WillScan, LoopFacts
    <3>6. CASE Fill \/ DrainValue \/ DrainSyn
      <4>1. PollThread /\ UNCHANGED revents /\ poll.pc \in {"fill", "drain"}
        BY <3>6 DEF PollThread, Fill, DrainValue, DrainSyn, Draining
      <4>2. poll'.pc = "drain" /\ poll'.i = poll.i
        BY <1>2, <3>6, <4>1, LoopMoves
           DEF Fill, DrainValue, DrainSyn, Draining, EnterPoll, ScanSkip, ScanPending, CopyPending,
               ScanRead, Scanning, DrainEnd, ScanEnd, Poll, ReturnEvents
      <4> QED BY <3>1, <4>1, <4>2 DEF WillScan
    <3>7. CASE DrainEnd
      <4>1. PollThread /\ poll.pc = "drain" /\ poll'.pc = "scan" /\ poll'.i = poll.i + 1
            /\ poll'.count = poll.count - poll.nb
        BY <1>2, <3>7, LoopMoves
           DEF PollThread, DrainEnd, Draining, EnterPoll, ScanSkip, ScanPending, CopyPending,
               ScanRead, Scanning, Fill, DrainValue, DrainSyn, ScanEnd, Poll, ReturnEvents
      <4>2. CASE poll.i = d
        <5>1. poll.nb >= poll.count
          BY <2>0, <2>2, <3>7, <4>1, <4>2 DEF DrainEnd, Draining, LoopFacts
        <5>2. revents'[d]
          BY <2>0, <3>1, <3>7, <4>2, <5>1 DEF DrainEnd, Drained
        <5>3. poll'.count <= 0
          BY <2>0, <4>1, <5>1 DEF LoopFacts
        <5> QED BY <4>1, <5>2, <5>3
      <4>3. CASE poll.i # d
        <5>1. poll.i < d
          BY <3>1, <4>1, <4>3 DEF WillScan
        <5>2. revents'[d]
          BY <2>0, <3>1, <3>7, <4>3 DEF DrainEnd, Drained
        <5> QED BY <2>0, <4>1, <5>1, <5>2 DEF WillScan, LoopFacts
      <4> QED BY <4>2, <4>3
    <3>8. CASE ScanEnd
      <4>1. PollThread /\ UNCHANGED revents /\ poll.pc = "scan"
        BY <3>8 DEF PollThread, ScanEnd
      <4>2. poll'.pc = "return" \/ (poll.count > 0 /\ poll.i = NumDrivers)
        BY <1>2, <3>8, <4>1, LoopMoves
           DEF ScanEnd, EnterPoll, ScanSkip, ScanPending, CopyPending, ScanRead, Scanning, Fill,
               DrainValue, DrainSyn, Draining, DrainEnd, Poll, ReturnEvents
      <4>3. ~(poll.count > 0 /\ poll.i = NumDrivers)
        BY <2>0, <3>1, <4>1 DEF WillScan, LoopFacts
      <4> QED BY <3>1, <4>1, <4>2, <4>3 DEF WillScan
    <3>9. CASE Poll
      BY <3>1, <3>9 DEF Poll, WillScan
    <3>10. CASE ReturnEvents
      <4>1. PollThread /\ UNCHANGED revents /\ poll'.pc = "out"
        BY <3>10 DEF PollThread, ReturnEvents, Outside
      <4> QED BY <3>1, <4>1 DEF WillScan
    <3> QED BY <1>2, <3>2, <3>3, <3>4, <3>5, <3>6, <3>7, <3>8, <3>9, <3>10, OtherSteps DEF PollThread
  <2> QED BY <1>2, <2>1, <2>2, StoredChanges
<1> QED BY <1>1, <1>2, PollInvHolds, EnteringHolds, InitialInvHolds, PTL DEF Spec

(* Even when the service's buffer is filled, a driver that has no initial event
   keeps POLLIN until its reader is empty: the thread never goes to sleep with
   its events in the reader, and nor with any driver's pending event. *)
THEOREM LeftoversAreRead ==
  Spec => [](Asleep => \A d \in Drivers : /\ d \notin WithInitial => Stored(d) = 0
                                          /\ mHasPendingEvent[d] /\ mEnabled[d] => svc.pc # "idle")
<1>1. ASSUME PollInv, PendingInv, LeftInv, Asleep, NEW d \in Drivers
      PROVE  /\ d \notin WithInitial => Stored(d) = 0
             /\ mHasPendingEvent[d] /\ mEnabled[d] => svc.pc # "idle"
  <2>1. ASSUME d \notin WithInitial PROVE Stored(d) = 0
    BY <1>1, <2>1, StoredIsNat DEF LeftInv, Asleep, WillScan
  <2>2. ASSUME mHasPendingEvent[d], mEnabled[d] PROVE svc.pc # "idle"
    BY <1>1, <2>2, PendingSeen
  <2> QED BY <2>1, <2>2
<1>2. PollInv /\ PendingInv /\ LeftInv =>
        (Asleep => \A d \in Drivers : /\ d \notin WithInitial => Stored(d) = 0
                                      /\ mHasPendingEvent[d] /\ mEnabled[d] => svc.pc # "idle")
  BY <1>1
<1> QED BY <1>2, PollInvHolds, PendingHolds, LeftHolds, PTL

-----------------------------------------------------------------------------
(* Turning sensors on and off, SensorsActivate. *)

DriverStates == [mEnabled : [Handles -> Int], on : [Handles -> BOOLEAN],
                 asked : SUBSET Handles, orientationd : BOOLEAN, err : {0, -1}]

(* A driver that was written to since the device was opened runs as its mEnabled
   says; one that was not does not run, and only the compass holds garbage. *)
Consistent(d, h) ==
  /\ h \in d.asked => d.on[h] <=> d.mEnabled[h] = 1
  /\ h \notin d.asked => ~d.on[h] /\ (h # "M" => d.mEnabled[h] = 0)

(* The driver does what was asked of it last; not the compass, of which nothing
   is known before it was written to. *)
Runs(d, h, b) == (h = "M" => h \in d.asked) => (d.on[h] <=> b)

LEMMA FirstEnabled ==
  ASSUME NEW d \in DriverStates, NEW h \in Handles, NEW e \in {0, 1},
         NEW fails \in SUBSET Handles, NEW r, r = enable(d, h, e, fails)
  PROVE  /\ r \in DriverStates
         /\ \A k \in Handles : k # h =>
              /\ r.on[k] <=> d.on[k]
              /\ r.mEnabled[k] = d.mEnabled[k]
              /\ k \in r.asked <=> k \in d.asked
         /\ h # "M" => (r.orientationd <=> d.orientationd)
         /\ d.mEnabled[h] = e \/ h \in fails =>
              /\ r.on = d.on /\ r.mEnabled = d.mEnabled /\ r.asked = d.asked
              /\ r.orientationd = d.orientationd
         /\ ~(d.mEnabled[h] = e \/ h \in fails) =>
              /\ r.on[h] <=> e = 1
              /\ r.mEnabled[h] = e
              /\ h \in r.asked
              /\ h = "M" => (r.orientationd <=> e = 1)
         /\ h \notin fails => r.err = 0
<1>1. CASE d.mEnabled[h] = e
  <2>1. r = [d EXCEPT !.err = 0]
    BY <1>1 DEF enable
  <2> QED BY <1>1, <2>1 DEF DriverStates
<1>2. CASE d.mEnabled[h] # e /\ h \in fails
  <2>1. r = [d EXCEPT !.err = -1]
    BY <1>2 DEF enable
  <2> QED BY <1>2, <2>1 DEF DriverStates
<1>3. CASE d.mEnabled[h] # e /\ h \notin fails
  <2>1. r = Written(d, h, e)
    BY <1>3 DEF enable
  <2>2. /\ r.on = [d.on EXCEPT ![h] = (e = 1)]
        /\ r.mEnabled = [d.mEnabled EXCEPT ![h] = e]
        /\ r.asked = d.asked \union {h} /\ r.err = 0
        /\ r.orientationd = IF h = "M" THEN e = 1 ELSE d.orientationd
    BY <2>1 DEF Written, DriverStates
  <2>3. r \in DriverStates
    <3> DEFINE running == [d.on EXCEPT ![h] = (e = 1)]
               enabled == [d.mEnabled EXCEPT ![h] = e]
               asked == d.asked \union {h}
               daemon == IF h = "M" THEN e = 1 ELSE d.orientationd
    <3>1. running \in [Handles -> BOOLEAN]
      BY DEF DriverStates
    <3>2. enabled \in [Handles -> Int]
      BY DEF DriverStates
    <3>3. asked \in SUBSET Handles /\ daemon \in BOOLEAN
      BY DEF DriverStates
    <3>4. r = [d EXCEPT !.mEnabled = enabled, !.on = running, !.asked = asked,
                        !.orientationd = daemon, !.err = 0]
      BY <2>1 DEF Written, DriverStates
    <3> HIDE DEF running, enabled, asked, daemon
    <3> QED BY <3>1, <3>2, <3>3, <3>4 DEF DriverStates
  <2>4. /\ d.on \in [Handles -> BOOLEAN] /\ d.mEnabled \in [Handles -> Int]
        /\ d.asked \subseteq Handles
    BY DEF DriverStates
  <2>5. ASSUME NEW k \in Handles, k # h
        PROVE  /\ r.on[k] <=> d.on[k]
               /\ r.mEnabled[k] = d.mEnabled[k]
               /\ k \in r.asked <=> k \in d.asked
    BY <2>2, <2>4, <2>5
  <2>6. (r.on[h] <=> e = 1) /\ r.mEnabled[h] = e /\ h \in r.asked
    BY <2>2, <2>4
  <2>7. /\ h # "M" => (r.orientationd <=> d.orientationd)
        /\ h = "M" => (r.orientationd <=> e = 1)
    BY <2>2
  <2> QED BY <1>3, <2>2, <2>3, <2>5, <2>6, <2>7
<1> QED BY <1>1, <1>2, <1>3

(* All drivers agree with what they were told, and the daemon with the compass. *)
Healthy(d) ==
  /\ \A h \in Handles : Consistent(d, h)
  /\ d.orientationd <=> d.on["M"]
  /\ d.err = 0

(* What a driver's enable does to healthy drivers when nothing fails. *)
EnabledFrom(d, h, e, r) ==
  /\ r \in DriverStates
  /\ Healthy(r)
  /\ Runs(r, h, e = 1)
  /\ \A k \in Handles : \A b \in BOOLEAN : k # h /\ Runs(d, k, b) => Runs(r, k, b)
  /\ r.mEnabled[h] = e
  /\ \A k \in Handles : k # h => r.mEnabled[k] = d.mEnabled[k]

LEMMA HealthyEnabled ==
  ASSUME NEW d \in DriverStates, NEW h \in Handles, NEW e \in {0, 1}, Healthy(d)
  PROVE  EnabledFrom(d, h, e, enable(d, h, e, {}))
<1> DEFINE r == enable(d, h, e, {})
<1>1. /\ r \in DriverStates /\ r.err = 0
      /\ \A k \in Handles : k # h =>
           /\ r.on[k] <=> d.on[k]
           /\ r.mEnabled[k] = d.mEnabled[k]
           /\ k \in r.asked <=> k \in d.asked
      /\ h # "M" => (r.orientationd <=> d.orientationd)
      /\ d.mEnabled[h] = e =>
           /\ r.on = d.on /\ r.mEnabled = d.mEnabled /\ r.asked = d.asked
           /\ r.orientationd = d.orientationd
      /\ d.mEnabled[h] # e =>
           /\ r.on[h] <=> e = 1
           /\ r.mEnabled[h] = e
           /\ h \in r.asked
           /\ h = "M" => (r.orientationd <=> e = 1)
  BY FirstEnabled
<1> HIDE DEF r
<1>2. ASSUME NEW k \in Handles PROVE Consistent(r, k)
  <2>1. CASE k # h
    BY <1>1, <2>1 DEF Healthy, Consistent
  <2>2. CASE k = h /\ d.mEnabled[h] = e
    BY <1>1, <2>2 DEF Healthy, Consistent
  <2>3. CASE k = h /\ d.mEnabled[h] # e
    BY <1>1, <2>3 DEF Consistent
  <2> QED BY <2>1, <2>2, <2>3
<1>3. r.orientationd <=> r.on["M"]
  <2>1. "M" \in Handles
    BY DEF Handles
  <2>2. CASE h # "M"
    BY <1>1, <2>1, <2>2 DEF Healthy
  <2>3. CASE h = "M" /\ d.mEnabled[h] = e
    BY <1>1, <2>3 DEF Healthy
  <2>4. CASE h = "M" /\ d.mEnabled[h] # e
    BY <1>1, <2>4
  <2> QED BY <2>2, <2>3, <2>4
<1>4. Runs(r, h, e = 1)
  <2>1. CASE d.mEnabled[h] = e /\ h \in d.asked
    BY <1>1, <2>1 DEF Healthy, Consistent, Runs
  <2>2. CASE d.mEnabled[h] = e /\ h \notin d.asked
    <3>1. Consistent(d, h)
      BY DEF Healthy
    <3>2. ~d.on[h] /\ (h # "M" => e # 1)
      BY <2>2, <3>1 DEF Consistent
    <3> QED BY <1>1, <2>2, <3>2 DEF Runs
  <2>3. CASE d.mEnabled[h] # e
    BY <1>1, <2>3 DEF Runs
  <2> QED BY <2>1, <2>2, <2>3
<1>5. ASSUME NEW k \in Handles, NEW b \in BOOLEAN, k # h, Runs(d, k, b)
      PROVE  Runs(r, k, b)
  BY <1>1, <1>5 DEF Runs
<1>6. r.mEnabled[h] = e
  BY <1>1
<1>7. EnabledFrom(d, h, e, r)
  BY <1>1, <1>2, <1>3, <1>4, <1>5, <1>6 DEF Healthy, EnabledFrom
<1> QED BY <1>7 DEF r

-----------------------------------------------------------------------------
(* What runs although nobody asks for it, the constructors had no chance to
   know of: a destructor before them failed. *)
OnInv ==
  /\ \A h \in Handles : dev.on[h] => dev.mEnabled[h] # 0 \/ h \in leftOn
  /\ ~opened => On \subseteq leftOn

(* The three flags say which of the sensors that share drivers are in use, and a
   shared driver runs exactly if one of them needs it. *)
SharedInv ==
  /\ Runs(dev, "A", mAccelActive \/ mOrientationActive)
  /\ Runs(dev, "M", mMagnetActive \/ mOrientationActive)
  /\ Runs(dev, "O", mOrientationActive)
  /\ "A" \in users <=> mAccelActive
  /\ "M" \in users <=> mMagnetActive
  /\ "O" \in users <=> mOrientationActive
  /\ \A h \in {"P", "L"} : h \in users => dev.mEnabled[h] = 1

UsersInv ==
  openFaults = 0 =>
    /\ leftOn = {}
    /\ Healthy(dev) \/ ~opened
    /\ dev.orientationd <=> dev.on["M"]
    /\ opened => SharedInv
    /\ ~opened => users = {} /\ \A h \in Handles : ~dev.on[h]

LEMMA UsersInvSuffices ==
  ASSUME ActivateTypeOK, OnInv, UsersInv
  PROVE  DriversFollowUsers
<1>1. ASSUME openFaults = 0, opened
      PROVE  /\ Needed \intersect dev.asked \subseteq On
             /\ On \intersect {"A", "M", "O"} \subseteq Needed
  <2>1. Healthy(dev) /\ SharedInv
    BY <1>1 DEF UsersInv
  <2>2. \A h \in Handles : Consistent(dev, h)
    BY <2>1 DEF Healthy
  <2>3. ASSUME NEW h \in Needed, h \in dev.asked PROVE h \in On
    <3>1. PICK u \in users : h \in Needs(u)
      BY DEF Needed
    <3>2. u \in Handles
      BY DEF ActivateTypeOK, DriverStates
    <3>3. CASE u = "O"
      <4>1. h \in {"A", "M", "O"} /\ mOrientationActive
        BY <2>1, <3>1, <3>3 DEF Needs, SharedInv
      <4> QED BY <2>1, <2>3, <4>1 DEF SharedInv, Runs, On, Handles
    <3>4. CASE u = "A" \/ u = "M"
      <4>1. h = u
        BY <3>1, <3>4 DEF Needs
      <4> QED BY <2>1, <2>3, <3>4, <4>1 DEF SharedInv, Runs, On, Handles
    <3>5. CASE u = "P" \/ u = "L"
      <4>1. h = u /\ h \in Handles
        BY <3>1, <3>2, <3>5 DEF Needs
      <4>2. dev.mEnabled[h] = 1
        BY <2>1, <3>5, <4>1 DEF SharedInv
      <4> QED BY <2>2, <2>3, <4>1, <4>2 DEF Consistent, On
    <3> QED BY <3>2, <3>3, <3>4, <3>5 DEF Handles
  <2>4. ASSUME NEW h \in {"A", "M", "O"}, h \in On PROVE h \in Needed
    <3>1. h \in Handles /\ dev.on[h] /\ Consistent(dev, h)
      BY <2>2, <2>4 DEF On
    <3>2. h \in dev.asked
      BY <3>1 DEF Consistent
    <3>3. CASE "O" \in users
      BY <3>3 DEF Needed, Needs
    <3>4. CASE h \in users
      BY <3>4 DEF Needed, Needs
    <3> QED BY <2>1, <3>1, <3>2, <3>3, <3>4 DEF SharedInv, Runs
  <2> QED BY <2>3, <2>4
<1>2. ASSUME openFaults = 0, ~opened
      PROVE  /\ Needed \intersect dev.asked \subseteq On
             /\ On \intersect {"A", "M", "O"} \subseteq Needed
  BY <1>2 DEF UsersInv, Needed, On
<1>3. ASSUME openFaults = 0 PROVE dev.orientationd <=> "M" \in On
  BY <1>3 DEF UsersInv, On, Handles
<1> QED BY <1>1, <1>2, <1>3 DEF DriversFollowUsers, OnInv

-----------------------------------------------------------------------------
OnExplained(d, left) == \A k \in Handles : d.on[k] => d.mEnabled[k] # 0 \/ k \in left

LEMMA EnabledExplained ==
  ASSUME NEW d \in DriverStates, NEW h \in Handles, NEW e \in {0, 1},
         NEW fails \in SUBSET Handles, NEW r, r = enable(d, h, e, fails), NEW left
  PROVE  r \in DriverStates /\ (OnExplained(d, left) => OnExplained(r, left))
<1>1. /\ r \in DriverStates
      /\ \A k \in Handles : k # h =>
           (r.on[k] <=> d.on[k]) /\ r.mEnabled[k] = d.mEnabled[k]
      /\ d.mEnabled[h] = e \/ h \in fails => r.on = d.on /\ r.mEnabled = d.mEnabled
      /\ ~(d.mEnabled[h] = e \/ h \in fails) => (r.on[h] <=> e = 1) /\ r.mEnabled[h] = e
  BY FirstEnabled
<1>2. ASSUME OnExplained(d, left), NEW k \in Handles, r.on[k]
      PROVE  r.mEnabled[k] # 0 \/ k \in left
  <2>1. CASE k # h
    BY <1>1, <1>2, <2>1 DEF OnExplained
  <2>2. CASE k = h /\ (d.mEnabled[h] = e \/ h \in fails)
    BY <1>1, <1>2, <2>2 DEF OnExplained
  <2>3. CASE k = h /\ ~(d.mEnabled[h] = e \/ h \in fails)
    BY <1>1, <1>2, <2>3
  <2> QED BY <2>1, <2>2, <2>3
<1> QED BY <1>1, <1>2 DEF OnExplained

LEMMA ThenExplained ==
  ASSUME NEW d \in DriverStates, NEW h \in Handles, NEW e \in {0, 1}, NEW skip \in BOOLEAN,
         NEW fails \in SUBSET Handles, NEW left
  PROVE  /\ Then(d, skip, h, e, fails) \in DriverStates
         /\ OnExplained(d, left) => OnExplained(Then(d, skip, h, e, fails), left)
<1> DEFINE r == Then(d, skip, h, e, fails)
<1>1. r = d \/ r = enable(d, h, e, fails)
  BY DEF Then
<1> QED BY <1>1, EnabledExplained

ThenFrom(d, h, e, skip, r) ==
  /\ r \in DriverStates
  /\ Healthy(r)
  /\ ~skip => Runs(r, h, e = 1) /\ r.mEnabled[h] = e
  /\ \A k \in Handles : \A b \in BOOLEAN :
       (k # h \/ skip) /\ Runs(d, k, b) => Runs(r, k, b)
  /\ \A k \in Handles : k # h \/ skip => r.mEnabled[k] = d.mEnabled[k]

LEMMA ThenHealthy ==
  ASSUME NEW d \in DriverStates, NEW h \in Handles, NEW e \in {0, 1}, NEW skip \in BOOLEAN,
         Healthy(d)
  PROVE  ThenFrom(d, h, e, skip, Then(d, skip, h, e, {}))
<1>1. CASE skip
  <2>1. Then(d, skip, h, e, {}) = d
    BY <1>1 DEF Then
  <2> QED BY <1>1, <2>1 DEF ThenFrom
<1>2. CASE ~skip
  <2>1. Then(d, skip, h, e, {}) = enable(d, h, e, {})
    BY <1>2 DEF Then, Healthy
  <2>2. EnabledFrom(d, h, e, enable(d, h, e, {}))
    BY HealthyEnabled
  <2> QED BY <1>2, <2>1, <2>2 DEF EnabledFrom, ThenFrom
<1> QED BY <1>1, <1>2

(* Clearing err changes nothing else. *)
LEMMA StartedAs ==
  ASSUME NEW d \in DriverStates, NEW r, r = [d EXCEPT !.err = 0]
  PROVE  /\ r \in DriverStates /\ r.err = 0
         /\ r.on = d.on /\ r.mEnabled = d.mEnabled /\ r.asked = d.asked
         /\ r.orientationd = d.orientationd
         /\ \A left : OnExplained(d, left) => OnExplained(r, left)
         /\ Healthy(d) => r = d
<1>1. /\ r \in DriverStates /\ r.err = 0
      /\ r.on = d.on /\ r.mEnabled = d.mEnabled /\ r.asked = d.asked
      /\ r.orientationd = d.orientationd
  BY DEF DriverStates
<1>2. Healthy(d) => r = d
  BY DEF Healthy, DriverStates
<1> QED BY <1>1, <1>2 DEF OnExplained

ActivateInv == ActivateTypeOK /\ OnInv /\ UsersInv

LEMMA FailsAre ==
  ASSUME ActivateTypeOK, NEW fails \in Failing, Count(fails)
  PROVE  /\ fails \in SUBSET Handles /\ openFaults' \in 0 .. MaxOpenFaults
         /\ openFaults' = 0 => fails = {} /\ openFaults = 0
BY SensorsActivateAssumption DEF Failing, Count, ActivateTypeOK, DriverStates

LEMMA SharedStep ==
  ASSUME ActivateInv, NEW h \in {"A", "M"}, NEW e \in {0, 1}, activateShared(h, e)
  PROVE  ActivateInv'
<1>1. PICK fails \in Failing :
        dev' = Then([dev EXCEPT !.err = 0], mOrientationActive, h, e, fails) /\ Count(fails)
  BY DEF activateShared
<1> DEFINE start == [dev EXCEPT !.err = 0]
<1>2. /\ opened /\ opened' /\ leftOn' = leftOn /\ mOrientationActive' = mOrientationActive
      /\ mAccelActive' = (IF h = "A" THEN e = 1 ELSE mAccelActive)
      /\ mMagnetActive' = (IF h = "M" THEN e = 1 ELSE mMagnetActive)
      /\ users' = IF e = 1 /\ dev'.err = 0 THEN users \union {h} ELSE users \ {h}
  BY DEF activateShared, Believes
<1>3. /\ fails \in SUBSET Handles /\ openFaults' \in 0 .. MaxOpenFaults
      /\ openFaults' = 0 => fails = {} /\ openFaults = 0
  BY <1>1, FailsAre DEF ActivateInv
<1>4. dev \in DriverStates /\ mOrientationActive \in BOOLEAN /\ h \in Handles
  BY DEF ActivateInv, ActivateTypeOK, DriverStates, Handles
<1>5. start \in DriverStates
  BY <1>4, StartedAs
<1>6. dev' = Then(start, mOrientationActive, h, e, fails)
  BY <1>1
<1> HIDE DEF start
<1>7. ActivateTypeOK'
  <2>1. dev' \in DriverStates
    BY <1>3, <1>4, <1>5, <1>6, ThenExplained
  <2>2. mAccelActive' \in BOOLEAN /\ mMagnetActive' \in BOOLEAN
    BY <1>2 DEF ActivateInv, ActivateTypeOK, DriverStates
  <2>3. users' \subseteq Handles
    BY <1>2, <1>4 DEF ActivateInv, ActivateTypeOK, DriverStates
  <2> QED BY <1>2, <1>3, <2>1, <2>2, <2>3 DEF ActivateInv, ActivateTypeOK, DriverStates
<1>8. OnInv'
  <2>1. OnExplained(dev, leftOn)
    BY DEF ActivateInv, OnInv, OnExplained
  <2>2. OnExplained(start, leftOn)
    BY <1>4, <2>1, StartedAs DEF start
  <2>3. OnExplained(dev', leftOn)
    BY <1>3, <1>4, <1>5, <1>6, <2>2, ThenExplained
  <2> QED BY <1>2, <2>3 DEF OnInv, OnExplained
<1>9. ASSUME openFaults' = 0 PROVE leftOn' = {} /\ Healthy(dev') /\ SharedInv'
  <2>1. openFaults = 0 /\ fails = {}
    BY <1>3, <1>9
  <2>2. leftOn = {} /\ Healthy(dev) /\ SharedInv
    BY <1>2, <2>1 DEF ActivateInv, UsersInv
  <2>3. dev' = Then(dev, mOrientationActive, h, e, {})
    BY <1>4, <1>6, <2>1, <2>2, StartedAs DEF start
  <2>4. /\ Healthy(dev')
        /\ ~mOrientationActive => Runs(dev', h, e = 1)
        /\ \A k \in Handles : \A b \in BOOLEAN :
             (k # h \/ mOrientationActive) /\ Runs(dev, k, b) => Runs(dev', k, b)
        /\ \A k \in Handles : k # h => dev'.mEnabled[k] = dev.mEnabled[k]
    BY <1>4, <2>2, <2>3, ThenHealthy DEF ThenFrom
  <2>5. users' = IF e = 1 THEN users \union {h} ELSE users \ {h}
    BY <1>2, <2>4 DEF Healthy
  <2>6. /\ mAccelActive \in BOOLEAN /\ mMagnetActive \in BOOLEAN
        /\ "A" \in Handles /\ "M" \in Handles /\ "O" \in Handles
    BY DEF ActivateInv, ActivateTypeOK, DriverStates, Handles
  <2>7. Runs(dev', "A", (mAccelActive \/ mOrientationActive)')
    <3>1. CASE h = "A" /\ ~mOrientationActive
      BY <1>2, <2>4, <3>1 DEF Runs
    <3>2. CASE h # "A" \/ mOrientationActive
      <4>1. Runs(dev', "A", mAccelActive \/ mOrientationActive)
        BY <1>4, <2>2, <2>4, <2>6, <3>2 DEF SharedInv
      <4> QED BY <1>2, <3>2, <4>1 DEF Runs
    <3> QED BY <3>1, <3>2
  <2>8. Runs(dev', "M", (mMagnetActive \/ mOrientationActive)')
    <3>1. CASE h = "M" /\ ~mOrientationActive
      BY <1>2, <2>4, <3>1 DEF Runs
    <3>2. CASE h # "M" \/ mOrientationActive
      <4>1. Runs(dev', "M", mMagnetActive \/ mOrientationActive)
        BY <1>4, <2>2, <2>4, <2>6, <3>2 DEF SharedInv
      <4> QED BY <1>2, <3>2, <4>1 DEF Runs
    <3> QED BY <3>1, <3>2
  <2>9. Runs(dev', "O", mOrientationActive')
    BY <1>2, <1>4, <2>2, <2>4, <2>6 DEF SharedInv
  <2>10. /\ "A" \in users' <=> mAccelActive'
         /\ "M" \in users' <=> mMagnetActive'
         /\ "O" \in users' <=> mOrientationActive'
    <3>1. CASE e = 1
      BY <1>2, <2>2, <2>5, <3>1 DEF SharedInv
    <3>2. CASE e = 0
      BY <1>2, <2>2, <2>5, <3>2 DEF SharedInv
    <3> QED BY <3>1, <3>2
  <2>11. ASSUME NEW k \in {"P", "L"}, k \in users' PROVE dev'.mEnabled[k] = 1
    <3>1. k \in users /\ k # h /\ k \in Handles
      BY <2>5, <2>11 DEF Handles
    <3> QED BY <2>2, <2>4, <3>1 DEF SharedInv
  <2> QED BY <1>2, <2>2, <2>4, <2>7, <2>8, <2>9, <2>10, <2>11 DEF SharedInv
<1>10. UsersInv'
  BY <1>2, <1>9 DEF UsersInv, Healthy
<1> QED BY <1>7, <1>8, <1>10 DEF ActivateInv

LEMMA OrientationStep ==
  ASSUME ActivateInv, NEW e \in {0, 1}, activateOrientation(e)
  PROVE  ActivateInv'
<1>1. PICK fails \in Failing :
        /\ LET start == [dev EXCEPT !.err = 0]
               accel == Then(start, mAccelActive, "A", e, fails)
               magnet == Then(accel, mMagnetActive, "M", e, fails)
           IN  dev' = Then(magnet, FALSE, "O", e, fails)
        /\ Count(fails)
  BY DEF activateOrientation
<1> DEFINE start == [dev EXCEPT !.err = 0]
           accel == Then(start, mAccelActive, "A", e, fails)
           magnet == Then(accel, mMagnetActive, "M", e, fails)
<1>2. /\ opened /\ opened' /\ leftOn' = leftOn /\ (mOrientationActive' <=> e = 1)
      /\ mAccelActive' = mAccelActive /\ mMagnetActive' = mMagnetActive
      /\ mOrientationActive' \in BOOLEAN
      /\ users' = IF e = 1 /\ dev'.err = 0 THEN users \union {"O"} ELSE users \ {"O"}
  BY DEF activateOrientation, Believes
<1>3. /\ fails \in SUBSET Handles /\ openFaults' \in 0 .. MaxOpenFaults
      /\ openFaults' = 0 => fails = {} /\ openFaults = 0
  BY <1>1, FailsAre DEF ActivateInv
<1>4. /\ dev \in DriverStates /\ mOrientationActive \in BOOLEAN
      /\ mAccelActive \in BOOLEAN /\ mMagnetActive \in BOOLEAN
      /\ "A" \in Handles /\ "M" \in Handles /\ "O" \in Handles
  BY DEF ActivateInv, ActivateTypeOK, DriverStates, Handles
<1>5. start \in DriverStates /\ \A left : OnExplained(dev, left) => OnExplained(start, left)
  BY <1>4, StartedAs
<1>6. dev' = Then(magnet, FALSE, "O", e, fails)
  BY <1>1
<1>7. Healthy(dev) => start = dev
  BY <1>4, StartedAs
<1> HIDE DEF start
<1>8. accel \in DriverStates /\ (OnExplained(start, leftOn) => OnExplained(accel, leftOn))
  BY <1>3, <1>4, <1>5, ThenExplained
<1>9. ASSUME openFaults' = 0, Healthy(dev), SharedInv
      PROVE  /\ Healthy(accel)
             /\ Runs(accel, "A", mAccelActive \/ e = 1)
             /\ Runs(accel, "M", mMagnetActive \/ mOrientationActive)
             /\ Runs(accel, "O", mOrientationActive)
             /\ \A k \in {"P", "L"} : accel.mEnabled[k] = dev.mEnabled[k]
  <2>1. accel = Then(dev, mAccelActive, "A", e, {})
    BY <1>3, <1>7, <1>9
  <2> HIDE DEF accel
  <2>2. /\ Healthy(accel)
        /\ ~mAccelActive => Runs(accel, "A", e = 1)
        /\ \A k \in Handles : \A b \in BOOLEAN :
             (k # "A" \/ mAccelActive) /\ Runs(dev, k, b) => Runs(accel, k, b)
        /\ \A k \in Handles : k # "A" => accel.mEnabled[k] = dev.mEnabled[k]
    <3>1. ThenFrom(dev, "A", e, mAccelActive, accel)
      BY <1>4, <1>9, <2>1, ThenHealthy
    <3> QED BY <3>1 DEF ThenFrom
  <2>3. Runs(accel, "A", mAccelActive \/ e = 1)
    <3>1. CASE mAccelActive
      <4>1. Runs(accel, "A", mAccelActive \/ mOrientationActive)
        BY <1>4, <1>9, <2>2, <3>1 DEF SharedInv
      <4> QED BY <3>1, <4>1 DEF Runs
    <3>2. CASE ~mAccelActive
      BY <2>2, <3>2 DEF Runs
    <3> QED BY <3>1, <3>2
  <2>4. Runs(accel, "M", mMagnetActive \/ mOrientationActive)
    BY <1>4, <1>9, <2>2 DEF SharedInv
  <2>5. Runs(accel, "O", mOrientationActive)
    BY <1>4, <1>9, <2>2 DEF SharedInv
  <2> QED BY <2>2, <2>3, <2>4, <2>5 DEF Handles
<1> HIDE DEF accel
<1>10. magnet \in DriverStates /\ (OnExplained(accel, leftOn) => OnExplained(magnet, leftOn))
  BY <1>3, <1>4, <1>8, ThenExplained
<1>11. ASSUME openFaults' = 0, Healthy(dev), SharedInv
       PROVE  /\ Healthy(magnet)
              /\ Runs(magnet, "A", mAccelActive \/ e = 1)
              /\ Runs(magnet, "M", mMagnetActive \/ e = 1)
              /\ Runs(magnet, "O", mOrientationActive)
              /\ \A k \in {"P", "L"} : magnet.mEnabled[k] = dev.mEnabled[k]
  <2>1. magnet = Then(accel, mMagnetActive, "M", e, {})
    BY <1>3, <1>11
  <2> HIDE DEF magnet
  <2>2. /\ Healthy(accel)
        /\ Runs(accel, "A", mAccelActive \/ e = 1)
        /\ Runs(accel, "M", mMagnetActive \/ mOrientationActive)
        /\ Runs(accel, "O", mOrientationActive)
        /\ \A k \in {"P", "L"} : accel.mEnabled[k] = dev.mEnabled[k]
    BY <1>9, <1>11
  <2>3. /\ Healthy(magnet)
        /\ ~mMagnetActive => Runs(magnet, "M", e = 1)
        /\ \A k \in Handles : \A b \in BOOLEAN :
             (k # "M" \/ mMagnetActive) /\ Runs(accel, k, b) => Runs(magnet, k, b)
        /\ \A k \in Handles : k # "M" => magnet.mEnabled[k] = accel.mEnabled[k]
    <3>1. ThenFrom(accel, "M", e, mMagnetActive, magnet)
      BY <1>4, <1>8, <2>1, <2>2, ThenHealthy
    <3> QED BY <3>1 DEF ThenFrom
  <2>4. Runs(magnet, "M", mMagnetActive \/ e = 1)
    <3>1. CASE mMagnetActive
      <4>1. Runs(magnet, "M", mMagnetActive \/ mOrientationActive)
        BY <1>4, <2>2, <2>3, <3>1
      <4> QED BY <3>1, <4>1 DEF Runs
    <3>2. CASE ~mMagnetActive
      BY <2>3, <3>2 DEF Runs
    <3> QED BY <3>1, <3>2
  <2>5. Runs(magnet, "A", mAccelActive \/ e = 1)
    BY <1>4, <2>2, <2>3
  <2>6. Runs(magnet, "O", mOrientationActive)
    BY <1>4, <2>2, <2>3
  <2> QED BY <2>2, <2>3, <2>4, <2>5, <2>6 DEF Handles
<1> HIDE DEF magnet
<1>12. dev' \in DriverStates /\ (OnExplained(magnet, leftOn) => OnExplained(dev', leftOn))
  BY <1>3, <1>4, <1>6, <1>10, ThenExplained
<1>13. ActivateTypeOK'
  BY <1>2, <1>3, <1>4, <1>12 DEF ActivateInv, ActivateTypeOK, DriverStates
<1>14. OnInv'
  <2>1. OnExplained(dev, leftOn)
    BY DEF ActivateInv, OnInv, OnExplained
  <2>2. OnExplained(dev', leftOn)
    BY <1>5, <1>8, <1>10, <1>12, <2>1
  <2> QED BY <1>2, <2>2 DEF OnInv, OnExplained
<1>15. ASSUME openFaults' = 0 PROVE leftOn' = {} /\ Healthy(dev') /\ SharedInv'
  <2>1. openFaults = 0 /\ fails = {}
    BY <1>3, <1>15
  <2>2. leftOn = {} /\ Healthy(dev) /\ SharedInv
    BY <1>2, <2>1 DEF ActivateInv, UsersInv
  <2>3. /\ Healthy(magnet)
        /\ Runs(magnet, "A", mAccelActive \/ e = 1)
        /\ Runs(magnet, "M", mMagnetActive \/ e = 1)
        /\ \A k \in {"P", "L"} : magnet.mEnabled[k] = dev.mEnabled[k]
    BY <1>11, <1>15, <2>2
  <2>4. dev' = Then(magnet, FALSE, "O", e, {})
    BY <1>6, <2>1
  <2>5. /\ Healthy(dev') /\ Runs(dev', "O", e = 1)
        /\ \A k \in Handles : \A b \in BOOLEAN :
             k # "O" /\ Runs(magnet, k, b) => Runs(dev', k, b)
        /\ \A k \in Handles : k # "O" => dev'.mEnabled[k] = magnet.mEnabled[k]
    <3>1. ThenFrom(magnet, "O", e, FALSE, dev')
      BY <1>4, <1>10, <2>3, <2>4, ThenHealthy
    <3> QED BY <3>1 DEF ThenFrom
  <2>6. Runs(dev', "A", mAccelActive \/ e = 1) /\ Runs(dev', "M", mMagnetActive \/ e = 1)
    BY <1>4, <2>3, <2>5
  <2>7. /\ Runs(dev', "A", (mAccelActive \/ mOrientationActive)')
        /\ Runs(dev', "M", (mMagnetActive \/ mOrientationActive)')
        /\ Runs(dev', "O", mOrientationActive')
    BY <1>2, <2>5, <2>6 DEF Runs
  <2>8. users' = IF e = 1 THEN users \union {"O"} ELSE users \ {"O"}
    BY <1>2, <2>5 DEF Healthy
  <2>9. /\ "A" \in users' <=> mAccelActive'
        /\ "M" \in users' <=> mMagnetActive'
        /\ "O" \in users' <=> mOrientationActive'
    <3>1. CASE e = 1
      BY <1>2, <2>2, <2>8, <3>1 DEF SharedInv
    <3>2. CASE e = 0
      BY <1>2, <2>2, <2>8, <3>2 DEF SharedInv
    <3> QED BY <3>1, <3>2
  <2>10. ASSUME NEW k \in {"P", "L"}, k \in users' PROVE dev'.mEnabled[k] = 1
    <3>1. k \in users /\ k # "O" /\ k \in Handles
      BY <2>8, <2>10 DEF Handles
    <3> QED BY <2>2, <2>3, <2>5, <2>10, <3>1 DEF SharedInv
  <2> QED BY <1>2, <2>2, <2>5, <2>7, <2>9, <2>10 DEF SharedInv
<1>16. UsersInv'
  BY <1>2, <1>15 DEF UsersInv, Healthy
<1> QED BY <1>13, <1>14, <1>16 DEF ActivateInv

LEMMA PlainStep ==
  ASSUME ActivateInv, NEW h \in {"P", "L"}, NEW e \in {0, 1}, activatePlain(h, e)
  PROVE  ActivateInv'
<1>1. PICK fails \in Failing : dev' = enable(dev, h, e, fails) /\ Count(fails)
  BY DEF activatePlain
<1>2. /\ opened /\ opened' /\ leftOn' = leftOn /\ mOrientationActive' = mOrientationActive
      /\ mAccelActive' = mAccelActive /\ mMagnetActive' = mMagnetActive
      /\ users' = IF e = 1 /\ dev'.err = 0 THEN users \union {h} ELSE users \ {h}
  BY DEF activatePlain, Believes
<1>3. /\ fails \in SUBSET Handles /\ openFaults' \in 0 .. MaxOpenFaults
      /\ openFaults' = 0 => fails = {} /\ openFaults = 0
  BY <1>1, FailsAre DEF ActivateInv
<1>4. /\ dev \in DriverStates /\ h \in Handles /\ h \notin {"A", "M", "O"}
      /\ "A" \in Handles /\ "M" \in Handles /\ "O" \in Handles
      /\ mOrientationActive \in BOOLEAN /\ mAccelActive \in BOOLEAN /\ mMagnetActive \in BOOLEAN
  BY DEF ActivateInv, ActivateTypeOK, DriverStates, Handles
<1>5. dev' \in DriverStates /\ (OnExplained(dev, leftOn) => OnExplained(dev', leftOn))
  BY <1>1, <1>3, <1>4, EnabledExplained
<1>6. ActivateTypeOK'
  <2>1. users' \subseteq Handles
    BY <1>2, <1>4 DEF ActivateInv, ActivateTypeOK, DriverStates
  <2> QED BY <1>2, <1>3, <1>4, <1>5, <2>1 DEF ActivateInv, ActivateTypeOK, DriverStates
<1>7. OnInv'
  BY <1>2, <1>5 DEF ActivateInv, OnInv, OnExplained
<1>8. ASSUME openFaults' = 0 PROVE leftOn' = {} /\ Healthy(dev') /\ SharedInv'
  <2>1. openFaults = 0 /\ fails = {}
    BY <1>3, <1>8
  <2>2. leftOn = {} /\ Healthy(dev) /\ SharedInv
    BY <1>2, <2>1 DEF ActivateInv, UsersInv
  <2>3. dev' = enable(dev, h, e, {})
    BY <1>1, <2>1
  <2>4. /\ Healthy(dev') /\ dev'.mEnabled[h] = e
        /\ \A k \in Handles : \A b \in BOOLEAN : k # h /\ Runs(dev, k, b) => Runs(dev', k, b)
        /\ \A k \in Handles : k # h => dev'.mEnabled[k] = dev.mEnabled[k]
    <3>1. EnabledFrom(dev, h, e, dev')
      BY <1>4, <2>2, <2>3, HealthyEnabled
    <3> QED BY <3>1 DEF EnabledFrom
  <2>5. users' = IF e = 1 THEN users \union {h} ELSE users \ {h}
    BY <1>2, <2>4 DEF Healthy
  <2>6. /\ Runs(dev', "A", mAccelActive \/ mOrientationActive)
        /\ Runs(dev', "M", mMagnetActive \/ mOrientationActive)
        /\ Runs(dev', "O", mOrientationActive)
    BY <1>4, <2>2, <2>4 DEF SharedInv
  <2>7. /\ "A" \in users' <=> mAccelActive'
        /\ "M" \in users' <=> mMagnetActive'
        /\ "O" \in users' <=> mOrientationActive'
    BY <1>2, <1>4, <2>2, <2>5 DEF SharedInv
  <2>8. ASSUME NEW k \in {"P", "L"}, k \in users' PROVE dev'.mEnabled[k] = 1
    <3>1. CASE k = h
      BY <2>4, <2>5, <2>8, <3>1
    <3>2. CASE k # h
      BY <2>2, <2>4, <2>5, <2>8, <3>2 DEF SharedInv, Handles
    <3> QED BY <3>1, <3>2
  <2> QED BY <1>2, <2>2, <2>4, <2>6, <2>7, <2>8 DEF SharedInv
<1>9. UsersInv'
  BY <1>2, <1>8 DEF UsersInv, Healthy
<1> QED BY <1>6, <1>7, <1>9 DEF ActivateInv

LEMMA OpenStep == ASSUME ActivateInv, Open PROVE ActivateInv'
<1>1. PICK g \in Garbage, fails \in Failing :
        /\ dev' = enable(enable(Fresh(dev.on, dev.orientationd, g), "L", 1, fails), "P", 1, fails)
        /\ Count(fails)
  BY DEF Open
<1> DEFINE start == Fresh(dev.on, dev.orientationd, g)
           light == enable(start, "L", 1, fails)
<1>2. /\ ~opened /\ opened' = TRUE /\ leftOn' = leftOn /\ users' = {}
      /\ ~mAccelActive' /\ ~mMagnetActive' /\ ~mOrientationActive'
      /\ mAccelActive' \in BOOLEAN /\ mMagnetActive' \in BOOLEAN /\ mOrientationActive' \in BOOLEAN
  BY DEF Open
<1>3. /\ fails \in SUBSET Handles /\ openFaults' \in 0 .. MaxOpenFaults
      /\ openFaults' = 0 => fails = {} /\ openFaults = 0
  BY <1>1, FailsAre DEF ActivateInv
<1>4. /\ dev \in DriverStates
      /\ {"A", "M", "O", "P", "L"} = Handles
  BY DEF ActivateInv, ActivateTypeOK, DriverStates, Handles
<1>5. /\ start.on = dev.on /\ start.asked = {} /\ start.orientationd = dev.orientationd
      /\ start.err = 0 /\ start.mEnabled = [h \in Handles |-> IF h = "M" THEN g ELSE 0]
  BY DEF Fresh
<1>6. start \in DriverStates
  <2>1. g \in Int
    BY SensorsActivateAssumption
  <2>2. [h \in Handles |-> IF h = "M" THEN g ELSE 0] \in [Handles -> Int]
    BY <2>1
  <2> QED BY <1>4, <2>2 DEF Fresh, DriverStates
<1>7. OnExplained(start, leftOn)
  BY <1>2, <1>5 DEF ActivateInv, OnInv, On, OnExplained
<1> HIDE DEF start
<1>8. light \in DriverStates /\ OnExplained(light, leftOn)
  BY <1>3, <1>4, <1>6, <1>7, EnabledExplained
<1>9. dev' = enable(light, "P", 1, fails)
  BY <1>1 DEF start
<1>10. openFaults' = 0 => light = enable(start, "L", 1, {})
  BY <1>3
<1> HIDE DEF light
<1>11. dev' \in DriverStates /\ OnExplained(dev', leftOn)
  BY <1>3, <1>4, <1>8, <1>9, EnabledExplained
<1>12. ActivateTypeOK'
  BY <1>2, <1>3, <1>11 DEF ActivateInv, ActivateTypeOK, DriverStates
<1>13. OnInv'
  BY <1>2, <1>11 DEF OnInv, OnExplained
<1>14. ASSUME openFaults' = 0 PROVE leftOn' = {} /\ Healthy(dev') /\ SharedInv'
  <2>1. /\ leftOn = {} /\ \A h \in Handles : ~dev.on[h]
        /\ dev.orientationd <=> dev.on["M"]
    BY <1>2, <1>3, <1>14 DEF ActivateInv, UsersInv
  <2>2. Healthy(start)
    BY <1>4, <1>5, <2>1 DEF Healthy, Consistent
  <2>3. \A k \in {"A", "M", "O"} : Runs(start, k, FALSE)
    BY <1>4, <1>5, <2>1 DEF Runs
  <2>4. EnabledFrom(start, "L", 1, light)
    BY <1>4, <1>6, <1>10, <1>14, <2>2, HealthyEnabled
  <2>5. dev' = enable(light, "P", 1, {})
    BY <1>3, <1>9, <1>14
  <2>6. EnabledFrom(light, "P", 1, dev')
    <3>1. Healthy(light)
      BY <2>4 DEF EnabledFrom
    <3> QED BY <1>4, <1>8, <2>5, <3>1, HealthyEnabled
  <2>7. \A k \in {"A", "M", "O"} : Runs(light, k, FALSE)
    BY <1>4, <2>3, <2>4 DEF EnabledFrom
  <2>8. \A k \in {"A", "M", "O"} : Runs(dev', k, FALSE)
    BY <1>4, <2>6, <2>7 DEF EnabledFrom
  <2>9. /\ Runs(dev', "A", (mAccelActive \/ mOrientationActive)')
        /\ Runs(dev', "M", (mMagnetActive \/ mOrientationActive)')
        /\ Runs(dev', "O", mOrientationActive')
    BY <1>2, <2>8 DEF Runs
  <2>10. Healthy(dev')
    BY <2>6 DEF EnabledFrom
  <2> QED BY <1>2, <2>1, <2>9, <2>10 DEF SharedInv
<1>15. UsersInv'
  BY <1>2, <1>14 DEF UsersInv, Healthy
<1> QED BY <1>12, <1>13, <1>15 DEF ActivateInv

LEMMA CloseStep == ASSUME ActivateInv, Close PROVE ActivateInv'
<1>1. PICK fails \in Failing :
        /\ dev' = Destroyed(dev, fails)
        /\ leftOn' = leftOn \union {h \in fails : dev.on[h]}
        /\ Count(fails)
  BY DEF Close
<1>2. /\ opened /\ opened' = FALSE /\ users' = {}
      /\ UNCHANGED <<mAccelActive, mMagnetActive, mOrientationActive>>
  BY DEF Close
<1>3. /\ fails \in SUBSET Handles /\ openFaults' \in 0 .. MaxOpenFaults
      /\ openFaults' = 0 => fails = {} /\ openFaults = 0
  BY <1>1, FailsAre DEF ActivateInv
<1>4. /\ dev \in DriverStates /\ leftOn \subseteq Handles /\ "M" \in Handles
      /\ dev.on \in [Handles -> BOOLEAN] /\ dev.mEnabled \in [Handles -> Int]
      /\ dev.asked \in SUBSET Handles /\ dev.orientationd \in BOOLEAN
  BY DEF ActivateInv, ActivateTypeOK, Handles, DriverStates
<1> DEFINE off == {h \in Handles \ fails : dev.mEnabled[h] # 0}
           enabled == [h \in Handles |-> IF h \in off THEN 0 ELSE dev.mEnabled[h]]
           running == [h \in Handles |-> dev.on[h] /\ h \notin off]
           daemon == dev.orientationd /\ "M" \notin off
<1>5. dev' = [dev EXCEPT !.mEnabled = enabled, !.on = running, !.orientationd = daemon]
  BY <1>1 DEF Destroyed
<1>6. enabled \in [Handles -> Int] /\ running \in [Handles -> BOOLEAN] /\ daemon \in BOOLEAN
  <2>1. enabled \in [Handles -> Int]
    BY <1>4
  <2>2. running \in [Handles -> BOOLEAN]
    OBVIOUS
  <2> QED BY <2>1, <2>2
<1>7. /\ \A h \in Handles : running[h] <=> dev.on[h] /\ h \notin off
      /\ \A h \in Handles : h \in off <=> h \notin fails /\ dev.mEnabled[h] # 0
      /\ daemon <=> dev.orientationd /\ "M" \notin off
  OBVIOUS
<1> HIDE DEF off, enabled, running, daemon
<1>8. dev' \in DriverStates /\ dev'.on = running /\ (dev'.orientationd <=> daemon)
  BY <1>4, <1>5, <1>6 DEF DriverStates
<1>9. ActivateTypeOK'
  BY <1>1, <1>2, <1>3, <1>8 DEF ActivateInv, ActivateTypeOK, DriverStates
<1>10. ASSUME NEW h \in Handles, dev'.on[h] PROVE h \in leftOn'
  <2>1. dev.on[h] /\ h \notin off
    BY <1>7, <1>8, <1>10
  <2>2. dev.mEnabled[h] # 0 \/ h \in leftOn
    BY <2>1 DEF ActivateInv, OnInv
  <2> QED BY <1>1, <1>7, <2>1, <2>2
<1>11. OnInv'
  BY <1>10 DEF OnInv, On
<1>12. ASSUME openFaults' = 0
       PROVE  /\ leftOn' = {} /\ \A h \in Handles : ~dev'.on[h]
              /\ dev'.orientationd <=> dev'.on["M"]
  <2>1. fails = {} /\ leftOn = {} /\ (dev.orientationd <=> dev.on["M"])
    BY <1>2, <1>3, <1>12 DEF ActivateInv, UsersInv
  <2>2. leftOn' = {}
    BY <1>1, <2>1
  <2>3. \A h \in Handles : ~dev'.on[h]
    BY <1>10, <2>2
  <2>4. dev'.orientationd <=> dev'.on["M"]
    BY <1>4, <1>7, <1>8, <2>1
  <2> QED BY <2>2, <2>3, <2>4
<1>13. UsersInv'
  BY <1>2, <1>12 DEF UsersInv
<1> QED BY <1>9, <1>11, <1>13 DEF ActivateInv

LEMMA ActivateStart == ActivateInit => ActivateInv
<1> SUFFICES ASSUME ActivateInit PROVE ActivateInv
  OBVIOUS
<1>1. PICK g \in Garbage : dev = Fresh([h \in Handles |-> FALSE], FALSE, g)
  BY DEF ActivateInit
<1>2. dev \in DriverStates /\ \A h \in Handles : ~dev.on[h]
  <2>1. g \in Int
    BY SensorsActivateAssumption
  <2>2. [h \in Handles |-> IF h = "M" THEN g ELSE 0] \in [Handles -> Int]
    BY <2>1
  <2>3. [h \in Handles |-> FALSE] \in [Handles -> BOOLEAN]
    OBVIOUS
  <2> QED BY <1>1, <2>2, <2>3 DEF Fresh, DriverStates
<1>3. ~dev.orientationd /\ "M" \in Handles
  BY <1>1 DEF Fresh, Handles
<1>4. ActivateTypeOK
  <2>1. openFaults \in 0 .. MaxOpenFaults
    BY SensorsActivateAssumption DEF ActivateInit
  <2>2. /\ opened \in BOOLEAN /\ users \subseteq Handles /\ leftOn \subseteq Handles
        /\ mAccelActive \in BOOLEAN /\ mMagnetActive \in BOOLEAN
        /\ mOrientationActive \in BOOLEAN
    BY DEF ActivateInit
  <2> QED BY <1>2, <2>1, <2>2 DEF ActivateTypeOK, DriverStates
<1> QED BY <1>2, <1>3, <1>4 DEF ActivateInit, ActivateInv, OnInv, On, UsersInv

LEMMA ActivateKept == ActivateInv /\ [ActivateNext]_activateVars => ActivateInv'
<1> SUFFICES ASSUME ActivateInv, [ActivateNext]_activateVars PROVE ActivateInv'
  OBVIOUS
<1>1. CASE ActivateNext
  BY <1>1, OpenStep, CloseStep, OrientationStep, SharedStep, PlainStep DEF ActivateNext
<1>2. CASE UNCHANGED activateVars
  <2>1. OnInv'
    BY <1>2 DEF activateVars, ActivateInv, OnInv, On
  <2>2. UsersInv'
    BY <1>2 DEF activateVars, ActivateInv, UsersInv, SharedInv, Healthy, Consistent, Runs
  <2> QED BY <1>2, <2>1, <2>2 DEF activateVars, ActivateInv, ActivateTypeOK, DriverStates
<1> QED BY <1>1, <1>2

(* Whatever garbage the compass starts with and in whatever order sensors are
   turned on and off: without failures the shared drivers run exactly for their
   users, and whatever failed, closing the device turns off all but the drivers
   whose sysfs file did not open then. *)
THEOREM SharedDriversFollow == ActivateSpec => []DriversFollowUsers
<1>1. ActivateInv => DriversFollowUsers
  BY UsersInvSuffices DEF ActivateInv
<1>2. ActivateInit => ActivateInv
  BY ActivateStart
<1>3. ActivateInv /\ [ActivateNext]_activateVars => ActivateInv'
  BY ActivateKept
<1> QED BY <1>1, <1>2, <1>3, PTL DEF ActivateSpec

(* The drivers' bookkeeping keeps its types, and no more calls fail than may. *)
THEOREM ActivateTypes == ActivateSpec => []ActivateTypeOK
<1>1. ActivateInv => ActivateTypeOK
  BY DEF ActivateInv
<1> QED BY <1>1, ActivateStart, ActivateKept, PTL DEF ActivateSpec
=============================================================================
