------------------------------ MODULE SecQueue ------------------------------
(***************************************************************************)
(* SEC_OSAL_Queue.c: the circular list of SEC_QElem that carries commands  *)
(* (messageQ) and buffers (bufferQ) between the threads of an OMX          *)
(* component.  Every operation runs under qMutex and is one action.  The   *)
(* elements are never relinked after SEC_OSAL_QueueCreate, so an element   *)
(* is its position in the ring and qNext is the successor position.        *)
(***************************************************************************)
EXTENDS Integers, Sequences

CONSTANTS MAX_QUEUE_ELEMENTS,  \* SEC_OSAL_Queue.h
          Data,                \* pointers that callers queue
          NULL,                \* the null pointer
          ElemNums             \* counts that callers pass to SetElemNum

ASSUME SecQueueAssumption ==
  /\ MAX_QUEUE_ELEMENTS \in Nat \ {0, 1}
  /\ NULL \notin Data
  /\ ElemNums \subseteq Nat

VARIABLES data,     \* QElem.data of every position
          first,    \* position that the next Dequeue reads
          last,     \* position that the next Queue writes
          numElem,  \* the element count
          queueRet  \* what the last call returned

queueVars == <<data, first, last, numElem, queueRet>>

-----------------------------------------------------------------------------
(* One element before the loop and MAX_QUEUE_ELEMENTS - 2 inside it. *)
QueueCells == MAX_QUEUE_ELEMENTS - 1
QueuePos   == 0 .. QueueCells - 1

qNext(p) == IF p = QueueCells - 1 THEN 0 ELSE p + 1

SEC_OSAL_QueueCreate ==
  /\ data = [p \in QueuePos |-> NULL]
  /\ first = 0 /\ last = 0
  /\ numElem = 0
  /\ queueRet = 0

(* Deviation for the mutation runs: only the count says whether there is room. *)
QueueByCount(d) ==
  /\ numElem < QueueCells
  /\ data' = [data EXCEPT ![last] = d]
  /\ last' = qNext(last)
  /\ numElem' = numElem + 1
  /\ queueRet' = 0
  /\ UNCHANGED first

SEC_OSAL_Queue(d) ==
  \/ /\ data[last] # NULL \/ numElem >= MAX_QUEUE_ELEMENTS
     /\ queueRet' = -1
     /\ UNCHANGED <<data, first, last, numElem>>
  \/ /\ data[last] = NULL /\ numElem < MAX_QUEUE_ELEMENTS
     /\ data' = [data EXCEPT ![last] = d]
     /\ last' = qNext(last)
     /\ numElem' = numElem + 1
     /\ queueRet' = 0
     /\ UNCHANGED first

SEC_OSAL_Dequeue ==
  \/ /\ data[first] = NULL \/ numElem <= 0
     /\ queueRet' = NULL
     /\ UNCHANGED <<data, first, last, numElem>>
  \/ /\ data[first] # NULL /\ numElem > 0
     /\ queueRet' = data[first]
     /\ data' = [data EXCEPT ![first] = NULL]
     /\ first' = qNext(first)
     /\ numElem' = numElem - 1
     /\ UNCHANGED last

SEC_OSAL_GetElemNum ==
  /\ queueRet' = numElem
  /\ UNCHANGED <<data, first, last, numElem>>

SEC_OSAL_SetElemNum(n) ==
  /\ numElem' = n
  /\ queueRet' = n
  /\ UNCHANGED <<data, first, last>>

QueueNext == \/ \E d \in Data : SEC_OSAL_Queue(d)
             \/ SEC_OSAL_Dequeue
             \/ SEC_OSAL_GetElemNum
             \/ \E n \in ElemNums : SEC_OSAL_SetElemNum(n)

QueueSpec == SEC_OSAL_QueueCreate /\ [][QueueNext]_queueVars

-----------------------------------------------------------------------------
(* Steps along qNext from first to p. *)
Offset(p) == IF p >= first THEN p - first ELSE p - first + QueueCells

(* How many positions hold a pointer; last = first when none or all do. *)
Used == IF data[last] # NULL THEN QueueCells ELSE Offset(last)

(* The position k steps after first. *)
PosAt(k) == IF first + k < QueueCells THEN first + k ELSE first + k - QueueCells

(* The queued pointers, oldest first. *)
Queued == [k \in 1 .. Used |-> data[PosAt(k - 1)]]

(* The positions and the count have the types the C code declares. *)
QueueTypeOK ==
  /\ data \in [QueuePos -> Data \union {NULL}]
  /\ first \in QueuePos
  /\ last \in QueuePos
  /\ numElem \in Nat

(* The occupied positions are exactly the Used ones from first on, whatever
   numElem says: Queue stops at an occupied position and Dequeue at an empty
   one, so no pointer is overwritten or skipped even after SetElemNum has
   made the count disagree with the ring. *)
RingContiguous == \A p \in QueuePos : data[p] # NULL <=> Offset(p) < Used

(* Provided the count is only ever reset to 0, which is all the flush of an
   ordinary (not tunnelled) port does, it never exceeds the occupied positions:
   a consumer that was promised an element by the count is never handed NULL.
   The flush leaves pointers the count does not cover, never the reverse. *)
CountIsBacked == ElemNums \subseteq {0} => numElem <= Used

(* The ring answers every sequence of calls the way a first-in first-out
   store with a separate count does (BoundedFifo). *)
Store == INSTANCE BoundedFifo WITH items <- Queued, num <- numElem,
                                  ret <- queueRet

QueueIsFifo == Store!Spec
=============================================================================
