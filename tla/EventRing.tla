----------------------------- MODULE EventRing -----------------------------
(***************************************************************************)
(* InputEventReader.cpp: the circular reader between the kernel's event    *)
(* queue and a sensor driver.  mBuffer has twice the announced room: fill  *)
(* lets read() run past the end and copies what lies beyond to the start.  *)
(* Pointers are offsets from mBuffer, so mBufferEnd is numEvents.          *)
(***************************************************************************)
EXTENDS Integers, Sequences

CONSTANTS numEvents,  \* 4 in every driver
          Events,     \* input events
          Nothing     \* no event: an unwritten cell, or "none available"

ASSUME EventRingAssumption ==
  /\ numEvents \in Nat \ {0}
  /\ Nothing \notin Events \union Int

VARIABLES mBuffer,     \* 2 * numEvents cells
          mHead,       \* where the next read() writes
          mCurr,       \* the next event to hand out
          mFreeSpace,  \* events that read() may still deliver
          ret          \* what the last call returned

ringVars == <<mBuffer, mHead, mCurr, mFreeSpace, ret>>

-----------------------------------------------------------------------------
InputEventCircularReader ==
  /\ mBuffer = [c \in 0 .. 2 * numEvents - 1 |-> Nothing]
  /\ mHead = 0 /\ mCurr = 0
  /\ mFreeSpace = numEvents
  /\ ret = Nothing

available == numEvents - mFreeSpace

(* The buffer after read() has stored es at mHead. *)
AfterRead(es) ==
  [c \in DOMAIN mBuffer |->
     IF c - mHead \in 0 .. Len(es) - 1 THEN es[c - mHead + 1] ELSE mBuffer[c]]

(* The memcpy from mBufferEnd to the start, s events long. *)
Wrapped(b, s) ==
  [c \in DOMAIN b |-> IF c < s THEN b[numEvents + c] ELSE b[c]]

fill(es) ==
  /\ es # <<>> /\ Len(es) <= mFreeSpace
  /\ \/ /\ mHead + Len(es) > numEvents
        /\ mBuffer' = Wrapped(AfterRead(es), mHead + Len(es) - numEvents)
        /\ mHead' = mHead + Len(es) - numEvents
     \/ /\ mHead + Len(es) <= numEvents
        /\ mBuffer' = AfterRead(es)
        /\ mHead' = mHead + Len(es)
  /\ mFreeSpace' = mFreeSpace - Len(es)
  /\ ret' = Len(es)
  /\ UNCHANGED mCurr

(* read() fails, or delivers a part of an event. *)
fillFails ==
  /\ mFreeSpace > 0
  /\ ret' = -1
  /\ UNCHANGED <<mBuffer, mHead, mCurr, mFreeSpace>>

fillFull ==
  /\ mFreeSpace = 0
  /\ ret' = 0
  /\ UNCHANGED <<mBuffer, mHead, mCurr, mFreeSpace>>

readEvent ==
  /\ ret' = IF available > 0 THEN mBuffer[mCurr] ELSE Nothing
  /\ UNCHANGED <<mBuffer, mHead, mCurr, mFreeSpace>>

(* Deviation for the mutation runs: the wrap comes one event too late. *)
nextLate ==
  /\ available > 0
  /\ mCurr' = IF mCurr + 1 > numEvents THEN 0 ELSE mCurr + 1
  /\ mFreeSpace' = mFreeSpace + 1
  /\ UNCHANGED <<mBuffer, mHead, ret>>

(* The drivers call next only after readEvent has found an event. *)
next ==
  /\ available > 0
  /\ mCurr' = IF mCurr + 1 >= numEvents THEN 0 ELSE mCurr + 1
  /\ mFreeSpace' = mFreeSpace + 1
  /\ UNCHANGED <<mBuffer, mHead, ret>>

RingNext == \/ \E n \in 1 .. numEvents : \E es \in [1 .. n -> Events] : fill(es)
        \/ fillFails
        \/ fillFull
        \/ readEvent
        \/ next

RingSpec == InputEventCircularReader /\ [][RingNext]_ringVars

-----------------------------------------------------------------------------
(* The cell k events behind mCurr. *)
At(k) == IF mCurr + k < numEvents THEN mCurr + k ELSE mCurr + k - numEvents

(* The events read and not handed out, oldest first. *)
Items == [k \in 1 .. available |-> mBuffer[At(k - 1)]]

(* Offsets and room have the ranges the reader needs; read() at mHead stays
   inside the allocation for everything mFreeSpace lets it deliver. *)
RingTypeOK ==
  /\ mBuffer \in [0 .. 2 * numEvents - 1 -> Events \union {Nothing}]
  /\ mHead \in 0 .. numEvents
  /\ mCurr \in 0 .. numEvents - 1
  /\ mFreeSpace \in 0 .. numEvents

(* Neither the wrapping copy of fill nor the pointers of next ever lose,
   repeat or reorder an event: the reader behaves as the store of EventFifo. *)
Fifo == INSTANCE EventFifo WITH Capacity <- numEvents, items <- Items

ImplementsFifo == Fifo!Spec
=============================================================================
