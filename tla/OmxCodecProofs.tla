---------------------------- MODULE OmxCodecProofs ----------------------------
(***************************************************************************)
(* Proofs about what the OMX components are built with, and about the      *)
(* encoders.  The ring of SEC_OSAL_Queue.c, for every capacity: its type   *)
(* invariant, that the occupied positions are always contiguous, and that  *)
(* it implements BoundedFifo.  The colour space converter, for pictures of *)
(* every size: every copy goes to its place, and every row is finished     *)
(* once.  The hand-over of pictures between the buffer process thread and  *)
(* the encode thread of MfcEncode, and the stream that comes of it, for    *)
(* every number of pictures, bound on the queue and size of the table of   *)
(* tags.  The OMX core, for every number of components and plugins: every  *)
(* component is accounted for, from its construction to its end.           *)
(***************************************************************************)
EXTENDS SecQueue, ColorConvert, MfcEncode, OmxCore, SequenceTheorems,
        FiniteSetTheorems, FunctionTheorems, TLAPS

(* A ring whose write position is occupied has wrapped onto its read
   position: what RingContiguous needs to be inductive. *)
FullWraps == data[last] # NULL => last = first

RingInv ==
  /\ QueueTypeOK /\ RingContiguous /\ FullWraps /\ CountIsBacked

-----------------------------------------------------------------------------
(* The ring has at least one position, and qNext stays inside it. *)
LEMMA CellsType == QueueCells \in Nat /\ QueueCells > 0 /\ 0 \in QueuePos
  BY SecQueueAssumption DEF QueueCells, QueuePos

LEMMA NextInRing == \A p \in QueuePos : qNext(p) \in QueuePos
  BY CellsType DEF qNext, QueuePos

LEMMA InitInv == SEC_OSAL_QueueCreate => RingInv
<1> SUFFICES ASSUME SEC_OSAL_QueueCreate PROVE RingInv
  OBVIOUS
<1>1. QueueTypeOK
  BY CellsType, SecQueueAssumption DEF SEC_OSAL_QueueCreate, QueueTypeOK
<1>2. RingContiguous /\ CountIsBacked
  BY CellsType
     DEF SEC_OSAL_QueueCreate, RingContiguous, CountIsBacked, Used, Offset, QueuePos
<1>3. FullWraps
  BY DEF SEC_OSAL_QueueCreate, FullWraps
<1> QED BY <1>1, <1>2, <1>3 DEF RingInv

(* The two outcomes of Queue and of Dequeue, named for the case splits. *)
Refused == UNCHANGED <<data, first, last, numElem>>

Stored(d) ==
  /\ data[last] = NULL /\ numElem < MAX_QUEUE_ELEMENTS
  /\ data' = [data EXCEPT ![last] = d]
  /\ last' = qNext(last)
  /\ numElem' = numElem + 1
  /\ UNCHANGED first

Removed ==
  /\ data[first] # NULL /\ numElem > 0
  /\ data' = [data EXCEPT ![first] = NULL]
  /\ first' = qNext(first)
  /\ numElem' = numElem - 1
  /\ UNCHANGED last

(* A call that is refused leaves the ring as it was. *)
LEMMA RefusedInv == ASSUME RingInv, Refused PROVE RingInv'
  BY DEF RingInv, Refused, QueueTypeOK, RingContiguous, FullWraps, CountIsBacked,
         Used, Offset

(* Storing behind the occupied positions extends them by one. *)
LEMMA StoredInv ==
  ASSUME NEW d \in Data, RingInv, Stored(d)
  PROVE  RingInv' /\ Used' = Used + 1
<1> USE DEF RingInv, Stored
<1>1. QueueTypeOK'
  BY NextInRing, SecQueueAssumption DEF QueueTypeOK
<1>2. d # NULL /\ data'[last] = d
  BY SecQueueAssumption DEF QueueTypeOK
<1>3. \A p \in QueuePos : p # last => data'[p] = data[p]
  BY DEF QueueTypeOK
<1>4. Used = Offset(last)
  BY DEF Used
<1>5. FullWraps'
  BY <1>1, <1>3, <1>4, CellsType, NextInRing
     DEF FullWraps, QueueTypeOK, RingContiguous, Offset, qNext, QueuePos
<1>6. Used' = Used + 1
  <2>1. CASE data'[last'] # NULL
    BY <1>1, <1>2, <1>3, <1>4, <1>5, <2>1, CellsType
       DEF FullWraps, QueueTypeOK, RingContiguous, Offset, Used, qNext, QueuePos
  <2>2. CASE data'[last'] = NULL
    BY <1>1, <1>2, <1>3, <1>4, <2>2, CellsType
       DEF QueueTypeOK, RingContiguous, Offset, Used, qNext, QueuePos
  <2> QED BY <2>1, <2>2
<1>7. RingContiguous'
  <2>0. QueueCells \in Nat /\ QueueCells > 0
    BY CellsType
  <2> SUFFICES ASSUME NEW p \in QueuePos
               PROVE  (data'[p] # NULL) <=> (Offset(p)' < Used')
    BY DEF RingContiguous
  <2> QED
    BY <1>1, <1>2, <1>3, <1>4, <1>6, <2>0
       DEF QueueTypeOK, RingContiguous, Offset, QueuePos
<1>8. CountIsBacked'
  <2>1. Used \in Int
    BY <1>4, CellsType DEF QueueTypeOK, Offset, QueuePos
  <2> QED BY <1>6, <2>1 DEF CountIsBacked, QueueTypeOK
<1> QED BY <1>1, <1>5, <1>6, <1>7, <1>8

(* Removing the first occupied position leaves the others. *)
LEMMA RemovedInv ==
  ASSUME RingInv, Removed
  PROVE  RingInv' /\ Used' = Used - 1
<1> USE DEF RingInv, Removed
<1>1. QueueTypeOK'
  BY NextInRing DEF QueueTypeOK
<1>2. data'[first] = NULL
  BY DEF QueueTypeOK
<1>3. \A p \in QueuePos : p # first => data'[p] = data[p]
  BY DEF QueueTypeOK
<1>4. FullWraps' /\ data'[last] = NULL
  BY <1>2, <1>3 DEF FullWraps, QueueTypeOK
<1>5. Used' = Used - 1
  BY <1>1, <1>4, CellsType
     DEF FullWraps, QueueTypeOK, RingContiguous, Offset, Used, qNext, QueuePos
<1>6. RingContiguous'
  <2> SUFFICES ASSUME NEW p \in QueuePos
               PROVE  (data'[p] # NULL) <=> (Offset(p)' < Used')
    BY DEF RingContiguous
  <2> QED
    BY <1>1, <1>2, <1>3, <1>5, CellsType
       DEF QueueTypeOK, RingContiguous, Offset, Used, qNext, QueuePos
<1>7. CountIsBacked'
  <2>1. Used \in Int
    BY CellsType DEF QueueTypeOK, Used, Offset, QueuePos
  <2> QED BY <1>5, <2>1 DEF CountIsBacked, QueueTypeOK
<1> QED BY <1>1, <1>4, <1>5, <1>6, <1>7

(* SetElemNum leaves the ring alone; 0 is the one count CountIsBacked allows. *)
LEMMA SetElemNumInv ==
  ASSUME NEW n \in ElemNums, RingInv, SEC_OSAL_SetElemNum(n)
  PROVE  RingInv'
<1> USE DEF RingInv, SEC_OSAL_SetElemNum
<1>1. QueueTypeOK'
  BY SecQueueAssumption DEF QueueTypeOK
<1>2. Used' = Used /\ RingContiguous' /\ FullWraps'
  BY DEF Used, Offset, RingContiguous, FullWraps
<1>3. CountIsBacked'
  <2>1. Used \in Nat
    BY CellsType DEF QueueTypeOK, Used, Offset, QueuePos
  <2> QED BY <1>2, <2>1 DEF CountIsBacked
<1> QED BY <1>1, <1>2, <1>3

(* Every call on the queue preserves the ring's invariant. *)
LEMMA StepInv == RingInv /\ [QueueNext]_queueVars => RingInv'
<1> SUFFICES ASSUME RingInv, [QueueNext]_queueVars PROVE RingInv'
  OBVIOUS
<1>1. ASSUME NEW d \in Data, SEC_OSAL_Queue(d) PROVE RingInv'
  <2>1. Refused \/ Stored(d)
    BY <1>1 DEF SEC_OSAL_Queue, Refused, Stored
  <2> QED BY <2>1, RefusedInv, StoredInv
<1>2. ASSUME SEC_OSAL_Dequeue PROVE RingInv'
  <2>1. Refused \/ Removed
    BY <1>2 DEF SEC_OSAL_Dequeue, Refused, Removed
  <2> QED BY <2>1, RefusedInv, RemovedInv
<1>3. ASSUME SEC_OSAL_GetElemNum PROVE RingInv'
  BY <1>3, RefusedInv DEF SEC_OSAL_GetElemNum, Refused
<1>4. ASSUME NEW n \in ElemNums, SEC_OSAL_SetElemNum(n) PROVE RingInv'
  BY <1>4, SetElemNumInv
<1>5. ASSUME UNCHANGED queueVars PROVE RingInv'
  BY <1>5, RefusedInv DEF queueVars, Refused
<1> QED BY <1>1, <1>2, <1>3, <1>4, <1>5 DEF QueueNext

-----------------------------------------------------------------------------
(* The ring's inductive invariant holds for every capacity, whatever calls are
   made on the queue (SEC_OSAL_Queue.c). *)
THEOREM RingInvariant == QueueSpec => []RingInv
  BY InitInv, StepInv, PTL DEF QueueSpec

(* For every capacity the positions and the count of the ring keep their
   types, whatever calls are made. *)
THEOREM TypeCorrect == QueueSpec => []QueueTypeOK
<1>1. RingInv => QueueTypeOK
  BY DEF RingInv
<1> QED BY <1>1, RingInvariant, PTL

(* For every capacity, and whatever counts SetElemNum has written, Queue never
   overwrites a pointer and Dequeue never skips one: the occupied positions
   stay contiguous. *)
THEOREM Contiguous == QueueSpec => []RingContiguous
<1>1. RingInv => RingContiguous
  BY DEF RingInv
<1> QED BY <1>1, RingInvariant, PTL

(* For every capacity, a ring whose count is only ever reset to 0 never
   promises an element it does not hold. *)
THEOREM CountBacked == QueueSpec => []CountIsBacked
<1>1. RingInv => CountIsBacked
  BY DEF RingInv
<1> QED BY <1>1, RingInvariant, PTL

-----------------------------------------------------------------------------
(* The refinement of BoundedFifo. *)

(* The mapping yields a sequence of Used pointers. *)
ItemsIsSeq ==
  /\ Used \in 0 .. QueueCells
  /\ Queued \in Seq(Data)
  /\ Len(Queued) = Used
  /\ \A k \in 1 .. Used : Queued[k] = data[PosAt(k - 1)]

LEMMA ItemsSeq == RingInv => ItemsIsSeq
<1> SUFFICES ASSUME RingInv PROVE ItemsIsSeq
  OBVIOUS
<1> USE DEF RingInv
<1>1. Used \in 0 .. QueueCells
  BY CellsType DEF QueueTypeOK, Used, Offset, QueuePos
<1>2. ASSUME NEW k \in 1 .. Used PROVE data[PosAt(k - 1)] \in Data
  <2>1. PosAt(k - 1) \in QueuePos /\ Offset(PosAt(k - 1)) = k - 1
    BY <1>1, <1>2, CellsType DEF QueueTypeOK, PosAt, Offset, QueuePos
  <2>2. data[PosAt(k - 1)] # NULL
    BY <1>1, <1>2, <2>1 DEF RingContiguous
  <2> QED BY <2>1, <2>2 DEF QueueTypeOK
<1>3. Queued \in [1 .. Used -> Data]
  BY <1>2 DEF Queued
<1>4. Queued \in Seq(Data)
  BY <1>1, <1>3, SeqDef
<1>5. Len(Queued) = Used
  BY <1>1, <1>3, <1>4, LenProperties
<1> QED BY <1>1, <1>4, <1>5 DEF Queued, ItemsIsSeq

LEMMA ItemsSeqNext == RingInv' => ItemsIsSeq'
  BY ItemsSeq, PTL

(* A store appends to the mapped sequence, a removal takes its head, and
   everything else leaves it. *)
LEMMA StoredAppends ==
  ASSUME NEW d \in Data, RingInv, Stored(d)
  PROVE  Queued' = Append(Queued, d)
<1>1. RingInv' /\ Used' = Used + 1
  BY StoredInv
<1>2. ItemsIsSeq /\ ItemsIsSeq'
  BY <1>1, ItemsSeq, ItemsSeqNext
<1>3. /\ Append(Queued, d) \in Seq(Data)
      /\ Len(Append(Queued, d)) = Used + 1
  BY <1>2 DEF ItemsIsSeq
<1>4. ASSUME NEW k \in 1 .. Used + 1
      PROVE  Queued'[k] = Append(Queued, d)[k]
  <2>0. Used \in 0 .. QueueCells /\ Used = Offset(last)
    BY <1>2 DEF ItemsIsSeq, Stored, Used
  <2>1. Queued'[k] = data'[PosAt(k - 1)] /\ PosAt(k - 1) \in QueuePos
    <3>1. PosAt(k - 1) \in QueuePos
      BY <2>0, CellsType DEF PosAt, RingInv, QueueTypeOK, QueuePos
    <3>2. Queued'[k] = data'[PosAt(k - 1)'] /\ PosAt(k - 1)' = PosAt(k - 1)
      BY <1>1, <1>2 DEF ItemsIsSeq, Stored, PosAt
    <3> QED BY <3>1, <3>2
  <2>2. CASE k = Used + 1
    <3>1. PosAt(k - 1) = last
      BY <2>0, <2>2, CellsType DEF PosAt, Offset, RingInv, QueueTypeOK, QueuePos
    <3>2. data'[last] = d
      BY DEF Stored, RingInv, QueueTypeOK
    <3> QED BY <1>2, <2>1, <2>2, <3>1, <3>2 DEF ItemsIsSeq
  <2>3. CASE k # Used + 1
    <3>1. k \in 1 .. Used
      BY <2>0, <2>3
    <3>2. PosAt(k - 1) # last
      BY <2>0, <3>1, CellsType DEF PosAt, Offset, RingInv, QueueTypeOK, QueuePos
    <3>3. data'[PosAt(k - 1)] = data[PosAt(k - 1)]
      BY <2>1, <3>2 DEF Stored, RingInv, QueueTypeOK
    <3>4. Append(Queued, d)[k] = Queued[k]
      BY <1>2, <3>1 DEF ItemsIsSeq
    <3> QED BY <1>2, <2>1, <3>1, <3>3, <3>4 DEF ItemsIsSeq
  <2> QED BY <2>2, <2>3
<1>5. Len(Queued') = Used + 1 /\ Queued' \in Seq(Data)
  BY <1>1, <1>2 DEF ItemsIsSeq
<1> QED BY <1>3, <1>4, <1>5, SeqEqual

(* A removal takes the head of the queue's contents and nothing else. *)
LEMMA RemovedTakes ==
  ASSUME RingInv, Removed
  PROVE  /\ Queued # <<>>
         /\ Queued' = Tail(Queued)
         /\ Head(Queued) = data[first]
<1>1. RingInv' /\ Used' = Used - 1
  BY RemovedInv
<1>2. ItemsIsSeq /\ ItemsIsSeq'
  BY <1>1, ItemsSeq, ItemsSeqNext
<1>3. Used >= 1
  BY CellsType
     DEF Removed, RingInv, QueueTypeOK, RingContiguous, Offset, Used, QueuePos
<1>4. Queued # <<>> /\ Head(Queued) = data[first]
  <2>1. PosAt(0) = first
    BY CellsType DEF PosAt, RingInv, QueueTypeOK, QueuePos
  <2> QED BY <1>2, <1>3, <2>1 DEF ItemsIsSeq
<1>5. /\ Tail(Queued) \in Seq(Data)
      /\ Len(Tail(Queued)) = Used - 1
      /\ \A k \in 1 .. Used - 1 : Tail(Queued)[k] = Queued[k + 1]
  BY <1>2, <1>3, <1>4, HeadTailProperties DEF ItemsIsSeq
<1>6. ASSUME NEW k \in 1 .. Used - 1
      PROVE  Queued'[k] = Tail(Queued)[k]
  <2>1. Used \in 0 .. QueueCells /\ k + 1 \in 1 .. Used
    BY <1>2, <1>6 DEF ItemsIsSeq
  <2>2. PosAt(k - 1)' = PosAt(k) /\ PosAt(k) \in QueuePos /\ PosAt(k) # first
    BY <2>1, CellsType DEF Removed, PosAt, qNext, RingInv, QueueTypeOK, QueuePos
  <2>3. data'[PosAt(k)] = data[PosAt(k)]
    BY <2>2 DEF Removed, RingInv, QueueTypeOK
  <2>4. Queued'[k] = data'[PosAt(k)]
    BY <1>1, <1>2, <2>2 DEF ItemsIsSeq
  <2>5. Queued[k + 1] = data[PosAt(k)]
    <3>1. Queued[k + 1] = data[PosAt((k + 1) - 1)]
      BY <1>2, <2>1 DEF ItemsIsSeq
    <3>2. (k + 1) - 1 = k
      BY <1>6
    <3> QED BY <3>1, <3>2
  <2> QED BY <1>5, <2>3, <2>4, <2>5
<1>7. Len(Queued') = Used - 1 /\ Queued' \in Seq(Data)
  BY <1>1, <1>2 DEF ItemsIsSeq
<1> QED BY <1>4, <1>5, <1>6, <1>7, SeqEqual

LEMMA UnchangedItems ==
  UNCHANGED <<data, first, last>> => Queued' = Queued
  BY DEF Queued, Used, Offset, PosAt

(* When the ring refuses a call, so does the abstract store. *)
LEMMA Emptiness ==
  ASSUME RingInv
  PROVE  /\ data[first] = NULL <=> Queued = <<>>
         /\ data[last] # NULL <=> Len(Queued) >= QueueCells
<1>1. ItemsIsSeq
  BY ItemsSeq
<1>2. data[first] = NULL <=> Used = 0
  BY <1>1, CellsType
     DEF ItemsIsSeq, RingInv, QueueTypeOK, RingContiguous, Offset, Used, QueuePos
<1>3. data[last] # NULL <=> Used >= QueueCells
  BY <1>1, CellsType DEF ItemsIsSeq, RingInv, QueueTypeOK, Offset, Used, QueuePos
<1> QED BY <1>1, <1>2, <1>3, EmptySeq DEF ItemsIsSeq

LEMMA InitRefines == SEC_OSAL_QueueCreate => Store!Init
<1> SUFFICES ASSUME SEC_OSAL_QueueCreate PROVE Store!Init
  OBVIOUS
<1>1. ItemsIsSeq /\ data[first] = NULL
  BY InitInv, ItemsSeq, CellsType DEF SEC_OSAL_QueueCreate
<1>2. Queued = <<>>
  BY <1>1, InitInv, Emptiness
<1> QED BY <1>2 DEF Store!Init, SEC_OSAL_QueueCreate

LEMMA StepRefines == RingInv /\ [QueueNext]_queueVars => [Store!Next]_Store!fifoVars
<1> SUFFICES ASSUME RingInv, [QueueNext]_queueVars PROVE [Store!Next]_Store!fifoVars
  OBVIOUS
<1>0. Store!Capacity = QueueCells
  BY DEF Store!Capacity, QueueCells
<1>1. ASSUME NEW d \in Data, SEC_OSAL_Queue(d) PROVE Store!Put(d)
  <2>1. CASE /\ data[last] # NULL \/ numElem >= MAX_QUEUE_ELEMENTS
             /\ queueRet' = -1
             /\ UNCHANGED <<data, first, last, numElem>>
    BY <1>0, <2>1, Emptiness, UnchangedItems DEF Store!Put
  <2>2. CASE Stored(d) /\ queueRet' = 0
    <3>1. Queued' = Append(Queued, d)
      BY <2>2, StoredAppends
    <3>2. Len(Queued) < QueueCells
      <4>1. QueueCells \in Nat
        BY CellsType DEF RingInv
      <4> QED BY <2>2, <4>1, Emptiness, ItemsSeq DEF Stored, ItemsIsSeq
    <3> QED BY <1>0, <2>2, <3>1, <3>2 DEF Store!Put, Stored
  <2> QED BY <1>1, <2>1, <2>2 DEF SEC_OSAL_Queue, Stored
<1>2. ASSUME SEC_OSAL_Dequeue PROVE Store!Take
  <2>1. CASE /\ data[first] = NULL \/ numElem <= 0
             /\ queueRet' = NULL
             /\ UNCHANGED <<data, first, last, numElem>>
    BY <2>1, Emptiness, UnchangedItems DEF Store!Take
  <2>2. CASE Removed /\ queueRet' = data[first]
    BY <2>2, RemovedTakes DEF Store!Take, Removed
  <2> QED BY <1>2, <2>1, <2>2 DEF SEC_OSAL_Dequeue, Removed
<1>3. ASSUME SEC_OSAL_GetElemNum PROVE Store!Count
  BY <1>3, UnchangedItems DEF SEC_OSAL_GetElemNum, Store!Count
<1>4. ASSUME NEW n \in ElemNums, SEC_OSAL_SetElemNum(n) PROVE Store!SetCount(n)
  BY <1>4, UnchangedItems DEF SEC_OSAL_SetElemNum, Store!SetCount
<1>5. ASSUME UNCHANGED queueVars PROVE UNCHANGED Store!fifoVars
  BY <1>5, UnchangedItems DEF queueVars, Store!fifoVars
<1> QED BY <1>1, <1>2, <1>3, <1>4, <1>5 DEF QueueNext, Store!Next

(* For every capacity the ring of SEC_OSAL_Queue.c answers every sequence of
   calls as BoundedFifo does: the models of the component's threads may use
   the abstract store for messageQ and bufferQ. *)
THEOREM RingImplementsFifo == QueueSpec => QueueIsFifo
<1>1. QueueSpec => Store!Spec
  BY InitRefines, StepRefines, RingInvariant, PTL DEF QueueSpec, Store!Spec
<1> QED BY <1>1 DEF QueueIsFifo
-----------------------------------------------------------------------------
(* Where the loops are: what the formulas need to know of their counters. *)
Picture ==
  /\ function \in FromTiles \cup IntoTiles
  /\ width \in Nat \ {0} /\ height \in Nat \ {0}

InStrips ==
  /\ strip \in Strips
  /\ aligned_x_size % 64 = 0
  /\ strip # 64 => aligned_x_size % 256 = 0
  /\ i % RowsAtOnce = 0 /\ i < height

InColumns(from) ==
  /\ from <= width /\ from % 64 = 0
  /\ i < height /\ i % 2 = 0
  /\ function # "csc_tiled_to_linear_deinterleave" => i % 4 = 0
  /\ from # width => from + j < width
  /\ j % 4 = 0

Where ==
  /\ Picture
  /\ aligned_x_size \in Nat /\ i \in Nat /\ j \in Nat
  /\ pass = "strips" => InStrips
  /\ pass # "strips" => strip = 0
  /\ pass \in {"strips", "rest"} => function \in FromTiles /\ aligned_x_size <= width
  /\ pass = "rest" => InColumns(aligned_x_size)
  /\ pass \in {"tiles", "rows", "columns"} => function \in IntoTiles
  /\ pass = "tiles" => /\ i % 32 = 0
                        /\ j % 64 = 0
                        /\ (j # 0 => i < aligned_y_size /\ j < wholeColumns)
  /\ pass = "rows" => /\ i % 4 = 0
                       /\ j % 64 = 0
                       /\ (j # 0 => i < height /\ j < wholeColumns)
  /\ pass = "columns" => InColumns(wholeColumns)

IInv == Where /\ RightPlace

-----------------------------------------------------------------------------
(* Multiplying by the tiles of a row keeps the order. *)
LEMMA TimesMonotone ==
  ASSUME NEW a \in Nat, NEW b \in Nat, NEW w \in Nat, a <= b
  PROVE  a * w \in Nat /\ a * w <= b * w
  <1>1. PICK d \in Nat : b = a + d
    <2>. WITNESS b - a \in Nat
    <2>. QED OBVIOUS
  <1>2. b * w = a * w + d * w BY <1>1
  <1>3. d * w \in Nat /\ a * w \in Nat OBVIOUS
  <1>. QED BY <1>2, <1>3

(* The tiles of a row are an even number and hold all its columns. *)
LEMMA RowOfTiles ==
  ASSUME Picture
  PROVE  /\ TilesPerRow \in Nat /\ TilesPerRow % 2 = 0
         /\ \A x \in Nat : x < width => x \div 64 \in Nat /\ x \div 64 < TilesPerRow
  BY DEF Picture, TilesPerRow

(* The tile the layout names is one of the picture's. *)
LEMMA TileInPicture ==
  ASSUME Picture, NEW tx \in Nat, NEW ty \in Nat,
         tx < TilesPerRow, 32 * ty < height
  PROVE  TileAt(tx, ty) \in 0 .. TilesPerRow * ((height + 31) \div 32) - 1
  <1>. DEFINE H == (height + 31) \div 32
  <1>w. TilesPerRow \in Nat /\ TilesPerRow % 2 = 0 BY RowOfTiles
  <1>h. H \in Nat /\ ty < H BY DEF Picture
  <1>1. CASE ty % 2 = 0 /\ 32 * (ty + 1) >= height
    <2>1. (ty + 1) * TilesPerRow <= H * TilesPerRow /\ ty * TilesPerRow \in Nat
      BY <1>w, <1>h, TimesMonotone
    <2>2. (ty + 1) * TilesPerRow = ty * TilesPerRow + TilesPerRow BY <1>w
    <2>. QED BY <1>1, <1>w, <1>h, <2>1, <2>2 DEF TileAt
  <1>2. CASE ~(ty % 2 = 0 /\ 32 * (ty + 1) >= height)
    <2>. DEFINE even == ty - (ty % 2)
    <2>1. even \in Nat /\ even + 2 <= H BY <1>2, <1>h DEF Picture
    <2>2. (even + 2) * TilesPerRow <= H * TilesPerRow /\ even * TilesPerRow \in Nat
      BY <1>w, <1>h, <2>1, TimesMonotone
    <2>3. (even + 2) * TilesPerRow = even * TilesPerRow + 2 * TilesPerRow BY <1>w, <2>1
    <2>4. PICK rest \in 0 .. 2 * TilesPerRow - 1 :
            TileAt(tx, ty) = TilesPerRow * even + rest
      <3>. DEFINE block == tx \div 2
                  second == (ty % 2) # (block % 2)
                  rest == 4 * block + (IF second THEN 2 ELSE 0) + (tx % 2)
      <3>1. rest \in 0 .. 2 * TilesPerRow - 1
        <4>1. block \in Nat /\ 2 * block + 2 <= TilesPerRow BY <1>w
        <4>2. tx % 2 \in 0 .. 1 OBVIOUS
        <4>3. (IF second THEN 2 ELSE 0) \in 0 .. 2 OBVIOUS
        <4>. HIDE DEF block, second
        <4>. QED BY <1>w, <4>1, <4>2, <4>3
      <3>2. TileAt(tx, ty) = TilesPerRow * even + 4 * block + (IF second THEN 2 ELSE 0) + (tx % 2)
        BY <1>2 DEF TileAt
      <3>3. TilesPerRow * even \in Nat BY <1>w, <2>1
      <3>4. TileAt(tx, ty) = TilesPerRow * even + rest
        <4>1. block \in Nat /\ tx % 2 \in Nat /\ (IF second THEN 2 ELSE 0) \in Nat OBVIOUS
        <4>. HIDE DEF block, second, even
        <4>. QED BY <3>2, <3>3, <4>1
      <3>. HIDE DEF rest
      <3>. QED BY <3>1, <3>4
    <2>. HIDE DEF even, H
    <2>. QED BY <1>w, <1>h, <2>1, <2>2, <2>3, <2>4 DEF H
  <1>. QED BY <1>1, <1>2

(* The code's three formulas for one tile are the layout. *)
LEMMA TileOfIsTileAt ==
  ASSUME Picture, i \in Nat, i < height, NEW tx \in Nat
  PROVE  TileOf(tx, i \div 32) = TileAt(tx, i \div 32)
  <1>. DEFINE ty == i \div 32
  <1>w. TilesPerRow \in Nat BY RowOfTiles
  <1>y. ty \in Nat OBVIOUS
  <1>b. HasRowBelow <=> ~(32 * (ty + 1) >= height) BY DEF Picture, HasRowBelow
  <1>1. CASE ty % 2 = 1
    <2>1. TileOf(tx, ty) = (ty - 1) * TilesPerRow + tx + 2 + 4 * (tx \div 4)
      BY <1>1 DEF TileOf, OddTile
    <2>2. TileAt(tx, ty) = TilesPerRow * (ty - 1) + 4 * (tx \div 2)
             + (IF 1 # ((tx \div 2) % 2) THEN 2 ELSE 0) + (tx % 2)
      BY <1>1 DEF TileAt
    <2>3. tx + 2 + 4 * (tx \div 4)
            = 4 * (tx \div 2) + (IF 1 # ((tx \div 2) % 2) THEN 2 ELSE 0) + (tx % 2)
      OBVIOUS
    <2>4. (ty - 1) * TilesPerRow = TilesPerRow * (ty - 1)
          /\ (ty - 1) * TilesPerRow \in Int BY <1>w, <1>y
    <2>. SUFFICES TileOf(tx, ty) = TileAt(tx, ty) OBVIOUS
    <2>. HIDE DEF ty
    <2>. QED BY <2>1, <2>2, <2>3, <2>4
  <1>2. CASE ty % 2 = 0 /\ HasRowBelow
    <2>1. TileOf(tx, ty) = tx + 4 * ((tx + 2) \div 4) + ty * TilesPerRow
      BY <1>2 DEF TileOf, Even1Tile
    <2>2. TileAt(tx, ty) = TilesPerRow * ty + 4 * (tx \div 2)
             + (IF 0 # ((tx \div 2) % 2) THEN 2 ELSE 0) + (tx % 2)
      BY <1>2, <1>b, <1>y DEF TileAt
    <2>3. tx + 4 * ((tx + 2) \div 4)
            = 4 * (tx \div 2) + (IF 0 # ((tx \div 2) % 2) THEN 2 ELSE 0) + (tx % 2)
      OBVIOUS
    <2>4. ty * TilesPerRow = TilesPerRow * ty /\ ty * TilesPerRow \in Int BY <1>w, <1>y
    <2>. SUFFICES TileOf(tx, ty) = TileAt(tx, ty) OBVIOUS
    <2>. HIDE DEF ty
    <2>. QED BY <2>1, <2>2, <2>3, <2>4
  <1>3. CASE ty % 2 = 0 /\ ~HasRowBelow
    BY <1>3, <1>b, <1>w, <1>y DEF TileOf, Even2Tile, TileAt
  <1>. QED BY <1>1, <1>2, <1>3

(* Tile k of a wide strip is tile k beside the strip's first column. *)
LEMMA StripTileIsTileAt ==
  ASSUME Picture, i \in Nat, i < height, NEW k \in Nat,
         aligned_x_size \in Nat, aligned_x_size % 256 = 0
  PROVE  StripTile(k, i \div 32) = TileAt(aligned_x_size \div 64 + k, i \div 32)
  <1>. DEFINE ty == i \div 32
              tx == aligned_x_size \div 64 + k
  <1>w. TilesPerRow \in Nat BY RowOfTiles
  <1>y. ty \in Nat /\ tx \in Nat OBVIOUS
  <1>b. HasRowBelow <=> ~(32 * (ty + 1) >= height) BY DEF Picture, HasRowBelow
  <1>1. CASE ty % 2 = 1
    <2>1. StripTile(k, ty) = (ty - 1) * TilesPerRow + 2 + aligned_x_size \div 32
                               + (k % 4) + 8 * (k \div 4)
      BY <1>1 DEF StripTile
    <2>2. TileAt(tx, ty) = TilesPerRow * (ty - 1) + 4 * (tx \div 2)
             + (IF 1 # ((tx \div 2) % 2) THEN 2 ELSE 0) + (tx % 2)
      BY <1>1 DEF TileAt
    <2>3. 2 + aligned_x_size \div 32 + (k % 4) + 8 * (k \div 4)
            = 4 * (tx \div 2) + (IF 1 # ((tx \div 2) % 2) THEN 2 ELSE 0) + (tx % 2)
      OBVIOUS
    <2>4. (ty - 1) * TilesPerRow = TilesPerRow * (ty - 1)
          /\ (ty - 1) * TilesPerRow \in Int BY <1>w, <1>y
    <2>. SUFFICES StripTile(k, ty) = TileAt(tx, ty) OBVIOUS
    <2>. HIDE DEF ty, tx
    <2>. QED BY <1>y, <2>1, <2>2, <2>3, <2>4
  <1>2. CASE ty % 2 = 0 /\ HasRowBelow
    <2>1. StripTile(k, ty) = ty * TilesPerRow + aligned_x_size \div 32
             + <<0, 1, 6, 7>>[(k % 4) + 1] + 8 * (k \div 4)
      BY <1>2 DEF StripTile
    <2>2. TileAt(tx, ty) = TilesPerRow * ty + 4 * (tx \div 2)
             + (IF 0 # ((tx \div 2) % 2) THEN 2 ELSE 0) + (tx % 2)
      BY <1>2, <1>b, <1>y DEF TileAt
    <2>3. <<0, 1, 6, 7>>[(k % 4) + 1] = (k % 4) + (IF (k % 4) >= 2 THEN 4 ELSE 0)
      <3>1. k % 4 \in {0, 1, 2, 3} OBVIOUS
      <3>. QED BY <3>1
    <2>4. aligned_x_size \div 32 + (k % 4) + (IF (k % 4) >= 2 THEN 4 ELSE 0) + 8 * (k \div 4)
            = 4 * (tx \div 2) + (IF 0 # ((tx \div 2) % 2) THEN 2 ELSE 0) + (tx % 2)
      OBVIOUS
    <2>5. ty * TilesPerRow = TilesPerRow * ty /\ ty * TilesPerRow \in Int BY <1>w, <1>y
    <2>. SUFFICES StripTile(k, ty) = TileAt(tx, ty) OBVIOUS
    <2>. HIDE DEF ty, tx
    <2>. QED BY <1>y, <2>1, <2>2, <2>3, <2>4, <2>5
  <1>3. CASE ty % 2 = 0 /\ ~HasRowBelow
    <2>1. (k % 4) + 4 * (k \div 4) = k /\ 64 * (aligned_x_size \div 64) = aligned_x_size
      OBVIOUS
    <2>. QED BY <1>3, <1>b, <1>w, <1>y, <2>1 DEF StripTile, TileAt
  <1>. QED BY <1>1, <1>2, <1>3

(* A copy of at most the rest of a tile's row, at the right tile, is placed. *)
LEMMA CopyPlaced ==
  ASSUME Picture, NEW x \in Nat, NEW r \in Nat, NEW n \in {4, 64}, NEW tile,
         i \in Nat, i < height, i \div 32 = (i + r) \div 32,
         x < width, (x % 64) + n <= 64, x % 2 = 0,
         tile = TileAt(x \div 64, i \div 32)
  PROVE  Placed(Copy(x, i + r, tile, n))
  <1>1. x \div 64 \in Nat /\ x \div 64 < TilesPerRow BY RowOfTiles
  <1>2. i \div 32 \in Nat /\ 32 * (i \div 32) < height BY DEF Picture
  <1>3. tile \in 0 .. TilesPerRow * ((height + 31) \div 32) - 1
    BY <1>1, <1>2, TileInPicture
  <1>4. CASE function \in Planar
    <2>1. 2 * (x \div 2) = x /\ 2 * (n \div 2) = n OBVIOUS
    <2>. QED BY <1>3, <1>4, <2>1 DEF Placed, Copy
  <1>5. CASE function \notin Planar
    <2>1. 1 * (x \div 1) = x /\ 1 * (n \div 1) = n OBVIOUS
    <2>. QED BY <1>3, <1>5, <2>1 DEF Placed, Copy
  <1>. QED BY <1>4, <1>5

-----------------------------------------------------------------------------
(* What a turn of each loop moves goes to its place. *)
LEMMA WideStripPlaces ==
  ASSUME IInv, NEW columns \in {1024, 512, 256, 128}, WideStrip(columns)
  PROVE  \A c \in copies' : Placed(c)
  <1>. DEFINE moved == {Copy(aligned_x_size + 64 * k, i + r, StripTile(k, i \div 32), 64) :
                          k \in 0 .. columns \div 64 - 1, r \in 0 .. RowsAtOnce - 1}
  <1>1. copies' = moved BY DEF WideStrip, NextRows, Move
  <1>2. pass = "strips" /\ InStrips /\ Picture /\ i \in Nat /\ aligned_x_size \in Nat
    BY DEF IInv, Where, WideStrip
  <1>3. SUFFICES ASSUME NEW k \in 0 .. columns \div 64 - 1, NEW r \in 0 .. RowsAtOnce - 1
                 PROVE  Placed(Copy(aligned_x_size + 64 * k, i + r, StripTile(k, i \div 32), 64))
    BY <1>1
  <1>. DEFINE x == aligned_x_size + 64 * k
  <1>4. RowsAtOnce \in {1, 2} BY DEF RowsAtOnce, WideStrip
  <1>5. i \div 32 = (i + r) \div 32 /\ i < height /\ r \in Nat
    BY <1>2, <1>4 DEF InStrips
  <1>6. aligned_x_size % 256 = 0 BY <1>2 DEF InStrips, WideStrip
  <1>7. k \in Nat /\ x \in Nat /\ x < width /\ x % 64 = 0 /\ x % 2 = 0
        /\ x \div 64 = aligned_x_size \div 64 + k
    BY <1>2, <1>6 DEF WideStrip, Picture
  <1>8. StripTile(k, i \div 32) = TileAt(x \div 64, i \div 32)
    BY <1>2, <1>5, <1>6, <1>7, StripTileIsTileAt
  <1>. HIDE DEF x
  <1>9. Placed(Copy(x, i + r, StripTile(k, i \div 32), 64))
    <2>. HIDE DEF moved
    <2>1. (x % 64) + 64 <= 64 BY <1>7
    <2>2. \A tile : tile = TileAt(x \div 64, i \div 32) => Placed(Copy(x, i + r, tile, 64))
      BY <1>2, <1>5, <1>7, <2>1, CopyPlaced
    <2>. QED BY <1>8, <2>2
  <1>. QED BY <1>9 DEF x

LEMMA Strip64Places ==
  ASSUME IInv, Strip64
  PROVE  \A c \in copies' : Placed(c)
  <1>1. copies' = {Copy(aligned_x_size, i + r, TileOf(aligned_x_size \div 64, i \div 32), 64) :
                     r \in 0 .. RowsAtOnce - 1}
    BY DEF Strip64, NextRows, Move
  <1>2. pass = "strips" /\ InStrips /\ Picture /\ i \in Nat /\ aligned_x_size \in Nat
    BY DEF IInv, Where, Strip64
  <1>3. SUFFICES ASSUME NEW r \in 0 .. RowsAtOnce - 1
                 PROVE  Placed(Copy(aligned_x_size, i + r,
                                    TileOf(aligned_x_size \div 64, i \div 32), 64))
    BY <1>1
  <1>4. RowsAtOnce \in {2, 4} BY DEF RowsAtOnce, Strip64
  <1>5. i \div 32 = (i + r) \div 32 /\ i < height /\ r \in Nat
    BY <1>2, <1>4 DEF InStrips
  <1>6. aligned_x_size % 64 = 0 /\ aligned_x_size < width /\ aligned_x_size % 2 = 0
    BY <1>2 DEF InStrips, Strip64, Picture
  <1>7. aligned_x_size \div 64 \in Nat BY <1>2
  <1>8. TileOf(aligned_x_size \div 64, i \div 32) = TileAt(aligned_x_size \div 64, i \div 32)
    BY <1>2, <1>5, <1>7, TileOfIsTileAt
  <1>. QED BY <1>2, <1>5, <1>6, <1>8, CopyPlaced

LEMMA FourColumnsPlaces ==
  ASSUME IInv, NEW from \in Nat, InColumns(from), from # width, FourColumns(from),
         function = "csc_tiled_to_linear_deinterleave" <=> RowsAtOnce = 2,
         RowsAtOnce \in {2, 4}
  PROVE  \A c \in copies' : Placed(c)
  <1>1. copies' = {Copy(from + j, i + r, TileOf((from + j) \div 64, i \div 32), 4) :
                     r \in 0 .. RowsAtOnce - 1}
    BY DEF FourColumns, Move
  <1>2. Picture /\ i \in Nat /\ j \in Nat BY DEF IInv, Where
  <1>3. SUFFICES ASSUME NEW r \in 0 .. RowsAtOnce - 1
                 PROVE  Placed(Copy(from + j, i + r, TileOf((from + j) \div 64, i \div 32), 4))
    BY <1>1
  <1>. DEFINE x == from + j
  <1>4. i \div 32 = (i + r) \div 32 /\ i < height /\ r \in Nat
    BY <1>2 DEF InColumns
  <1>5. x \in Nat /\ x < width /\ x % 4 = 0 /\ x \div 64 \in Nat
    BY <1>2 DEF InColumns
  <1>6. TileOf(x \div 64, i \div 32) = TileAt(x \div 64, i \div 32)
    BY <1>2, <1>4, <1>5, TileOfIsTileAt
  <1>. HIDE DEF x
  <1>7. (x % 64) + 4 <= 64 /\ x % 2 = 0 BY <1>5
  <1>8. Placed(Copy(x, i + r, TileOf(x \div 64, i \div 32), 4))
    BY <1>2, <1>4, <1>5, <1>6, <1>7, CopyPlaced
  <1>. QED BY <1>8 DEF x

LEMMA TileRowsPlaces ==
  ASSUME IInv, NEW rows \in {4, 32}, TileRows(rows),
         i % rows = 0, i < height, j % 64 = 0, j < wholeColumns
  PROVE  \A c \in copies' : Placed(c)
  <1>1. copies' = {Copy(j, i + r, TileOf(j \div 64, i \div 32), 64) : r \in 0 .. rows - 1}
    BY DEF TileRows, Move
  <1>2. Picture /\ i \in Nat /\ j \in Nat BY DEF IInv, Where
  <1>3. SUFFICES ASSUME NEW r \in 0 .. rows - 1
                 PROVE  Placed(Copy(j, i + r, TileOf(j \div 64, i \div 32), 64))
    BY <1>1
  <1>4. i \div 32 = (i + r) \div 32 /\ r \in Nat BY <1>2
  <1>5. j < width /\ j % 2 = 0 /\ j \div 64 \in Nat BY <1>2 DEF wholeColumns, Picture
  <1>6. TileOf(j \div 64, i \div 32) = TileAt(j \div 64, i \div 32)
    BY <1>2, <1>5, TileOfIsTileAt
  <1>. QED BY <1>2, <1>4, <1>5, <1>6, CopyPlaced

(* The layout depends on the picture alone. *)
LEMMA PlacedStays ==
  ASSUME UNCHANGED <<function, width, height>>, \A c \in copies' : Placed(c)
  PROVE  RightPlace'
  <1>1. TilesPerRow' = TilesPerRow BY DEF TilesPerRow
  <1>2. \A c : Placed(c)' <=> Placed(c) BY <1>1 DEF Placed, TileAt
  <1>. QED BY <1>2 DEF RightPlace

-----------------------------------------------------------------------------
LEMMA NoRemainder == \A m \in {1, 2, 4} : 0 % m = 0
  OBVIOUS

(* Where the loops are is an invariant, one lemma for each kind of turn. *)
LEMMA WhereInit == ConvertInit => IInv
  <1>. SUFFICES ASSUME ConvertInit PROVE IInv OBVIOUS
  <1>1. Picture BY ColorConvertAssumption DEF ConvertInit, Picture
  <1>2. RightPlace BY DEF ConvertInit, RightPlace
  <1>3. function \in FromTiles => pass = "strips" /\ strip = 1024 BY DEF ConvertInit
  <1>4. function \notin FromTiles => pass = "tiles" /\ strip = 0 /\ function \in IntoTiles
    BY DEF ConvertInit
  <1>5. aligned_x_size = 0 /\ i = 0 /\ j = 0 BY DEF ConvertInit
  <1>6. pass = "strips" => InStrips
    BY <1>1, <1>3, <1>4, <1>5 DEF InStrips, RowsAtOnce, Strips, Picture
  <1>. QED BY <1>1, <1>2, <1>3, <1>4, <1>5, <1>6 DEF IInv, Where, Picture

LEMMA WhereNextRows ==
  ASSUME IInv, NEW moved, pass = "strips", width - aligned_x_size >= strip, NextRows(moved)
  PROVE  Where'
  <1>1. /\ Picture /\ InStrips /\ i \in Nat /\ j \in Nat /\ aligned_x_size \in Nat
        /\ function \in FromTiles
    BY DEF IInv, Where
  <1>2. Picture' BY <1>1 DEF Picture, NextRows
  <1>3. RowsAtOnce \in {1, 2, 4} BY DEF RowsAtOnce
  <1>4. CASE i + RowsAtOnce < height
    <2>1. i' = i + RowsAtOnce /\ UNCHANGED <<pass, strip, aligned_x_size, j, function, height, width>>
      BY <1>4 DEF NextRows
    <2>2. RowsAtOnce' = RowsAtOnce BY <2>1 DEF RowsAtOnce
    <2>3. (i + RowsAtOnce) % RowsAtOnce = 0 /\ i + RowsAtOnce \in Nat
      BY <1>1, <1>3 DEF InStrips
    <2>4. InStrips' BY <1>1, <1>4, <2>1, <2>2, <2>3 DEF InStrips
    <2>. QED BY <1>1, <1>2, <2>1, <2>3, <2>4 DEF IInv, Where
  <1>5. CASE ~(i + RowsAtOnce < height)
    <2>1. EndStrip /\ aligned_x_size' = aligned_x_size + strip
          /\ UNCHANGED <<function, height, width>>
      BY <1>5 DEF NextRows
    <2>2. i' = 0 /\ j' = 0 BY <2>1 DEF EndStrip
    <2>3. aligned_x_size' \in Nat /\ aligned_x_size' <= width /\ aligned_x_size' % 64 = 0
      BY <1>1, <2>1 DEF InStrips, Strips, Picture
    <2>4. CASE strip = 64
      <3>1. pass' = "rest" /\ strip' = 0 BY <2>1, <2>4 DEF EndStrip
      <3>2. width' # aligned_x_size' => aligned_x_size' + j' < width'
        <4>1. width' = width /\ width \in Nat BY <1>1, <2>1 DEF Picture
        <4>2. \A a \in Nat : a <= width /\ width # a => a + 0 < width BY <4>1
        <4>. QED BY <2>2, <2>3, <4>1, <4>2
      <3>3. InColumns(aligned_x_size)'
        BY <1>1, <2>1, <2>2, <2>3, <3>2 DEF InColumns, Picture
      <3>. QED BY <1>1, <1>2, <2>1, <2>2, <2>3, <3>1, <3>3 DEF Where
    <2>5. CASE strip # 64
      <3>1. pass' = "strips" /\ strip' = strip \div 2 BY <2>1, <2>5 DEF EndStrip
      <3>2. strip' \in Strips /\ (strip' # 64 => aligned_x_size' % 256 = 0)
        BY <1>1, <2>1, <2>5, <3>1 DEF InStrips, Strips
      <3>3. 0 % RowsAtOnce' = 0
        <4>1. RowsAtOnce' \in {1, 2, 4} BY DEF RowsAtOnce
        <4>. QED BY <4>1, NoRemainder
      <3>4. InStrips'
        BY <1>1, <2>1, <2>2, <2>3, <3>2, <3>3 DEF InStrips, Picture
      <3>. QED BY <1>1, <1>2, <2>1, <2>2, <2>3, <3>1, <3>4 DEF Where
    <2>. QED BY <2>4, <2>5
  <1>. QED BY <1>4, <1>5

LEMMA WhereSkipStrip ==
  ASSUME IInv, SkipStrip
  PROVE  Where'
  <1>1. /\ Picture /\ InStrips /\ i \in Nat /\ j \in Nat /\ aligned_x_size \in Nat
        /\ function \in FromTiles /\ pass = "strips" /\ aligned_x_size <= width
    BY DEF IInv, Where, SkipStrip
  <1>2. EndStrip /\ UNCHANGED <<function, height, width, aligned_x_size>> BY DEF SkipStrip
  <1>3. i' = 0 /\ j' = 0 BY <1>2 DEF EndStrip
  <1>4. Picture' BY <1>1, <1>2 DEF Picture
  <1>5. CASE strip = 64
    <2>1. pass' = "rest" /\ strip' = 0 BY <1>2, <1>5 DEF EndStrip
    <2>2. InColumns(aligned_x_size)'
      BY <1>1, <1>2, <1>3 DEF InColumns, InStrips, Picture
    <2>. QED BY <1>1, <1>2, <1>3, <1>4, <2>1, <2>2 DEF Where
  <1>6. CASE strip # 64
    <2>1. pass' = "strips" /\ strip' = strip \div 2 BY <1>1, <1>2, <1>6 DEF EndStrip
    <2>2. strip' \in Strips BY <1>1, <1>6, <2>1 DEF InStrips, Strips
    <2>3. 0 % RowsAtOnce' = 0
      <3>1. RowsAtOnce' \in {1, 2, 4} BY DEF RowsAtOnce
      <3>. QED BY <3>1, NoRemainder
    <2>4. InStrips' BY <1>1, <1>2, <1>3, <1>6, <2>2, <2>3 DEF InStrips, Picture
    <2>. QED BY <1>1, <1>2, <1>3, <1>4, <2>1, <2>4 DEF Where
  <1>. QED BY <1>5, <1>6

LEMMA WhereFourColumns ==
  ASSUME IInv, NEW from \in Nat, pass \in {"rest", "columns"}, InColumns(from), from # width,
         pass = "rest" => from = aligned_x_size /\ function \in FromTiles,
         pass = "columns" => from = wholeColumns /\ function \in IntoTiles,
         FourColumns(from),
         function = "csc_tiled_to_linear_deinterleave" <=> RowsAtOnce = 2,
         RowsAtOnce \in {2, 4}
  PROVE  Where'
  <1>1. Picture /\ i \in Nat /\ j \in Nat /\ aligned_x_size \in Nat /\ strip = 0
        /\ (pass = "rest" => aligned_x_size <= width)
    BY DEF IInv, Where
  <1>2. UNCHANGED <<function, width, height, strip, aligned_x_size>> BY DEF FourColumns
  <1>3. Picture' /\ wholeColumns' = wholeColumns BY <1>1, <1>2 DEF Picture, wholeColumns
  <1>4. i' \in Nat /\ j' \in Nat BY <1>1 DEF FourColumns
  <1>5. pass' = pass => from <= width /\ from % 64 = 0 /\ i' < height /\ i' % 2 = 0
          /\ (function # "csc_tiled_to_linear_deinterleave" => i' % 4 = 0)
          /\ from + j' < width /\ j' % 4 = 0
    BY <1>1 DEF FourColumns, InColumns, Picture
  <1>6. CASE pass' = pass
    <2>1. pass = "rest" => InColumns(aligned_x_size)'
      BY <1>2, <1>5, <1>6 DEF InColumns
    <2>2. pass = "columns" => InColumns(wholeColumns)'
      BY <1>2, <1>3, <1>5, <1>6 DEF InColumns
    <2>. QED BY <1>1, <1>2, <1>3, <1>4, <1>6, <2>1, <2>2 DEF Where
  <1>7. CASE pass' # pass
    <2>1. pass' = "done" BY <1>7 DEF FourColumns
    <2>. QED BY <1>1, <1>2, <1>3, <1>4, <2>1 DEF Where
  <1>. QED BY <1>6, <1>7

LEMMA WhereIntoTiles ==
  ASSUME IInv, function \in IntoTiles, WholeTiles \/ RowsBelow \/ NothingThere
  PROVE  Where'
  <1>1. Picture /\ i \in Nat /\ j \in Nat /\ aligned_x_size \in Nat
        /\ (pass # "strips" => strip = 0)
    BY DEF IInv, Where
  <1>2. UNCHANGED <<function, width, height, strip, aligned_x_size>>
    BY DEF WholeTiles, RowsBelow, NothingThere, NextTile
  <1>3. Picture' /\ wholeColumns' = wholeColumns BY <1>1, <1>2 DEF Picture, wholeColumns
  <1>4. wholeColumns \in Nat /\ wholeColumns <= width /\ wholeColumns % 64 = 0
        /\ aligned_y_size \in Nat /\ aligned_y_size % 32 = 0
    BY <1>1 DEF Picture, wholeColumns, aligned_y_size
  <1>5. CASE WholeTiles
    <2>1. pass = "tiles" /\ i % 32 = 0 /\ j % 64 = 0 BY <1>5 DEF WholeTiles, IInv, Where
    <2>2. CASE j + 64 < wholeColumns
      <3>1. j' = j + 64 /\ i' = i /\ pass' = pass /\ i < aligned_y_size
        BY <1>5, <2>2 DEF WholeTiles, NextTile
      <3>. QED BY <1>1, <1>2, <1>3, <1>4, <2>1, <2>2, <3>1 DEF Where, aligned_y_size
    <2>3. CASE ~(j + 64 < wholeColumns) /\ i + 32 < aligned_y_size
      <3>1. j' = 0 /\ i' = i + 32 /\ pass' = pass
        BY <1>5, <2>3 DEF WholeTiles, NextTile
      <3>. QED BY <1>1, <1>2, <1>3, <2>1, <3>1 DEF Where
    <2>4. CASE ~(j + 64 < wholeColumns) /\ ~(i + 32 < aligned_y_size)
      <3>1. j' = 0 /\ i' = aligned_y_size /\ pass' = "rows"
        BY <1>5, <2>4 DEF WholeTiles, NextTile
      <3>2. aligned_y_size % 4 = 0 BY <1>4
      <3>. QED BY <1>1, <1>2, <1>3, <1>4, <2>1, <3>1, <3>2 DEF Where
    <2>. QED BY <2>2, <2>3, <2>4
  <1>6. CASE RowsBelow
    <2>1. pass = "rows" /\ i % 4 = 0 /\ j % 64 = 0 BY <1>6 DEF RowsBelow, IInv, Where
    <2>2. CASE j + 64 < wholeColumns
      <3>1. j' = j + 64 /\ i' = i /\ pass' = pass /\ i < height
        BY <1>6, <2>2 DEF RowsBelow, NextTile
      <3>. QED BY <1>1, <1>2, <1>3, <1>4, <2>1, <2>2, <3>1 DEF Where
    <2>3. CASE ~(j + 64 < wholeColumns) /\ i + 4 < height
      <3>1. j' = 0 /\ i' = i + 4 /\ pass' = pass
        BY <1>6, <2>3 DEF RowsBelow, NextTile
      <3>. QED BY <1>1, <1>2, <1>3, <2>1, <3>1 DEF Where
    <2>4. CASE ~(j + 64 < wholeColumns) /\ ~(i + 4 < height)
      <3>1. j' = 0 /\ i' = 0 /\ pass' = "columns"
        BY <1>6, <2>4 DEF RowsBelow, NextTile
      <3>2. InColumns(wholeColumns)'
        BY <1>1, <1>2, <1>3, <1>4, <3>1 DEF InColumns, Picture
      <3>. QED BY <1>1, <1>2, <1>3, <2>1, <3>1, <3>2 DEF Where
    <2>. QED BY <2>2, <2>3, <2>4
  <1>7. CASE NothingThere
    <2>0. j' = j BY <1>7 DEF NothingThere
    <2>1. CASE pass = "tiles" /\ (aligned_y_size = 0 \/ wholeColumns = 0)
               /\ pass' = "rows" /\ i' = aligned_y_size
      <3>1. j = 0 BY <1>1, <2>1 DEF IInv, Where
      <3>2. aligned_y_size % 4 = 0 BY <1>4
      <3>. QED BY <1>1, <1>2, <1>3, <1>4, <2>0, <2>1, <3>1, <3>2 DEF Where
    <2>2. CASE pass = "rows" /\ (i >= height \/ wholeColumns = 0)
               /\ pass' = "columns" /\ i' = 0
      <3>1. j = 0 BY <1>1, <2>2 DEF IInv, Where, Picture
      <3>2. InColumns(wholeColumns)'
        BY <1>1, <1>2, <1>3, <1>4, <2>0, <2>2, <3>1 DEF InColumns, Picture
      <3>. QED BY <1>1, <1>2, <1>3, <1>4, <2>0, <2>2, <3>1, <3>2 DEF Where
    <2>3. CASE pass' = "done" /\ i' = 0 /\ pass = "columns"
      BY <1>1, <1>2, <1>3, <2>0, <2>3 DEF Where
    <2>. QED BY <1>7, <2>1, <2>2, <2>3 DEF NothingThere
  <1>. QED BY <1>5, <1>6, <1>7

-----------------------------------------------------------------------------
LEMMA PlacesNext == IInv /\ [ConvertNext]_convertVars => IInv'
  <1>. SUFFICES ASSUME IInv, [ConvertNext]_convertVars PROVE IInv' OBVIOUS
  <1>a. Picture /\ i \in Nat /\ j \in Nat /\ aligned_x_size \in Nat BY DEF IInv, Where
  <1>b. wholeColumns \in Nat BY <1>a DEF wholeColumns, Picture
  <1>1. ASSUME NEW columns \in {1024, 512, 256, 128}, WideStrip(columns) PROVE IInv'
    <2>1. UNCHANGED <<function, width, height>> BY <1>1 DEF WideStrip, NextRows
    <2>2. pass = "strips" BY <1>1 DEF WideStrip, IInv, Where
    <2>3. Where' BY <1>1, <2>2, WhereNextRows DEF WideStrip
    <2>. QED BY <1>1, <2>1, <2>3, WideStripPlaces, PlacedStays DEF IInv
  <1>2. CASE Strip64
    <2>1. UNCHANGED <<function, width, height>> BY <1>2 DEF Strip64, NextRows
    <2>2. pass = "strips" BY <1>2 DEF Strip64, IInv, Where
    <2>3. Where' BY <1>2, <2>2, WhereNextRows DEF Strip64
    <2>. QED BY <1>2, <2>1, <2>3, Strip64Places, PlacedStays DEF IInv
  <1>3. CASE Rest
    <2>1. pass = "rest" /\ function \in FromTiles /\ InColumns(aligned_x_size)
          /\ strip = 0 /\ aligned_x_size # width
      BY <1>3 DEF Rest, IInv, Where
    <2>2. RowsAtOnce \in {2, 4}
          /\ (function = "csc_tiled_to_linear_deinterleave" <=> RowsAtOnce = 2)
      BY <2>1 DEF RowsAtOnce
    <2>3. FourColumns(aligned_x_size) BY <1>3 DEF Rest
    <2>4. Where' BY <1>a, <2>1, <2>2, <2>3, WhereFourColumns
    <2>5. UNCHANGED <<function, width, height>> BY <2>3 DEF FourColumns
    <2>6. \A c \in copies' : Placed(c) BY <1>a, <2>1, <2>2, <2>3, FourColumnsPlaces
    <2>. QED BY <2>4, <2>5, <2>6, PlacedStays DEF IInv
  <1>4. CASE ColumnsBeside
    <2>1. pass = "columns" /\ function \in IntoTiles /\ InColumns(wholeColumns)
          /\ strip = 0 /\ wholeColumns # width
      BY <1>4, <1>a, <1>b DEF ColumnsBeside, IInv, Where, Picture
    <2>2. RowsAtOnce \in {2, 4}
          /\ (function = "csc_tiled_to_linear_deinterleave" <=> RowsAtOnce = 2)
      BY <2>1 DEF RowsAtOnce, IntoTiles
    <2>3. FourColumns(wholeColumns) BY <1>4 DEF ColumnsBeside
    <2>4. Where' BY <1>b, <2>1, <2>2, <2>3, WhereFourColumns
    <2>5. UNCHANGED <<function, width, height>> BY <2>3 DEF FourColumns
    <2>6. \A c \in copies' : Placed(c) BY <1>b, <2>1, <2>2, <2>3, FourColumnsPlaces
    <2>. QED BY <2>4, <2>5, <2>6, PlacedStays DEF IInv
  <1>5. CASE function \in IntoTiles /\ WholeTiles
    <2>1. i % 32 = 0 /\ j % 64 = 0 /\ i < height /\ j < wholeColumns /\ TileRows(32)
          /\ UNCHANGED <<function, width, height>>
      BY <1>5, <1>a DEF WholeTiles, NextTile, IInv, Where, aligned_y_size, Picture
    <2>2. \A c \in copies' : Placed(c) BY <2>1, TileRowsPlaces
    <2>. QED BY <1>5, <2>1, <2>2, WhereIntoTiles, PlacedStays DEF IInv
  <1>6. CASE function \in IntoTiles /\ RowsBelow
    <2>1. i % 4 = 0 /\ j % 64 = 0 /\ i < height /\ j < wholeColumns /\ TileRows(4)
          /\ UNCHANGED <<function, width, height>>
      BY <1>6 DEF RowsBelow, NextTile, IInv, Where
    <2>2. \A c \in copies' : Placed(c) BY <2>1, TileRowsPlaces
    <2>. QED BY <1>6, <2>1, <2>2, WhereIntoTiles, PlacedStays DEF IInv
  <1>7. CASE function \in IntoTiles /\ NothingThere
    <2>1. copies' = {} /\ UNCHANGED <<function, width, height>> BY <1>7 DEF NothingThere
    <2>. QED BY <1>7, <2>1, WhereIntoTiles DEF IInv, RightPlace
  <1>8. CASE SkipStrip
    <2>1. copies' = {} BY <1>8 DEF SkipStrip
    <2>. QED BY <1>8, <2>1, WhereSkipStrip DEF IInv, RightPlace
  <1>9. CASE NoRest
    <2>1. copies' = {} /\ pass' = "done" /\ pass = "rest"
          /\ UNCHANGED <<function, width, height, strip, aligned_x_size, i, j>>
      BY <1>9 DEF NoRest
    <2>2. Where' BY <1>a, <2>1 DEF IInv, Where, Picture
    <2>. QED BY <2>1, <2>2 DEF IInv, RightPlace
  <1>10. CASE UNCHANGED convertVars
    <2>1. Where'
      BY <1>10 DEF convertVars, IInv, Where, Picture, InStrips, InColumns, RowsAtOnce,
                   wholeColumns, aligned_y_size
    <2>2. \A c \in copies' : Placed(c) BY <1>10 DEF convertVars, IInv, RightPlace
    <2>. QED BY <1>10, <2>1, <2>2, PlacedStays DEF IInv, convertVars
  <1>. QED
    BY <1>1, <1>2, <1>3, <1>4, <1>5, <1>6, <1>7, <1>8, <1>9, <1>10
    DEF ConvertNext, csc_tiled_to_linear, csc_tiled_to_linear_deinterleave, csc_linear_to_tiled,
        csc_linear_to_tiled_interleave, IntoTiles, Strip1024, Strip512, Strip256, Strip128

(* Whatever the size of a picture, every byte the converter moves goes between
   its place in the picture and the place the hardware has for it. *)
THEOREM EveryByteInPlace == ConvertSpec => []RightPlace
  <1>1. IInv => RightPlace BY DEF IInv
  <1>. QED BY <1>1, WhereInit, PlacesNext, PTL DEF ConvertSpec
-----------------------------------------------------------------------------
(* Nothing is left out: how far each row is finished follows from where the
   loops are. *)
Planes == IF function \in Planar THEN 2 ELSE 1
RowsOf == IF function = "csc_tiled_to_linear_deinterleave" THEN 2 ELSE 4
Divided == width % 4 = 0 /\ height % RowsOf = 0

(* The columns of row y finished when the columns before from are, and the loop
   takes the others by four; and when a loop over tiles takes some rows. *)
BesideColumns(from, y) ==
  IF y < i THEN width ELSE IF y < i + RowsOf THEN from + j ELSE from
TileColumns(rows, y) ==
  IF y < i THEN wholeColumns ELSE IF y < i + rows THEN j ELSE 0

Finished(y) ==
  CASE pass = "strips" -> IF y < i THEN aligned_x_size + strip ELSE aligned_x_size
    [] pass = "rest" -> BesideColumns(aligned_x_size, y)
    [] pass = "tiles" -> TileColumns(32, y)
    [] pass = "rows" -> TileColumns(4, y)
    [] pass = "columns" -> BesideColumns(wholeColumns, y)
    [] OTHER -> width

Columns(y) == IF y < height THEN Finished(y) ELSE 0

Filled == Divided => filled = [y \in 0 .. height + 2 |-> Columns(y) \div Planes]

(* The copies of row y are K adjoining ones of n bytes each, from column at on. *)
Adjoining(f, K, moved, y, at, n) ==
  /\ \A k \in 0 .. K - 1 : f[k] \in moved /\ f[k].row = y
  /\ \A c \in moved : c.row = y => \E k \in 0 .. K - 1 : c = f[k]
  /\ \A k \in 0 .. K - 1 : f[k].at = at + n * k /\ f[k].n = n

LEMMA TimesInjective ==
  ASSUME NEW n \in Nat \ {0}, NEW a \in Nat, NEW b \in Nat, n * a = n * b
  PROVE  a = b
  <1>1. ASSUME NEW c \in Nat, NEW d \in Nat, c < d PROVE n * c < n * d
    <2>1. PICK e \in Nat : d = c + 1 + e
      <3>1. d - c - 1 \in Nat /\ d = c + 1 + (d - c - 1)
        BY <1>1
      <3>. QED BY <3>1
    <2>2. n * d = n * c + n + n * e
      BY <2>1
    <2>3. n * c \in Nat /\ n * e \in Nat
      OBVIOUS
    <2>. QED BY <2>2, <2>3
  <1>2. ~(a < b) /\ ~(b < a)
    BY <1>1
  <1>. QED BY <1>2

LEMMA IntervalSize ==
  ASSUME NEW K \in Nat \ {0}
  PROVE  IsFiniteSet(0 .. K - 1) /\ Cardinality(0 .. K - 1) = K
  BY FS_Interval

(* Such copies carry the row on. *)
LEMMA ExtendRow ==
  ASSUME NEW y, NEW moved, NEW n \in Nat \ {0}, NEW K \in Nat \ {0}, NEW at \in Nat, NEW f,
         Adjoining(f, K, moved, y, at, n),
         filled[y] = at
  PROVE  Extend(y, moved) = at + n * K
  <1>. DEFINE new == {c \in moved : c.row = y}
              starts == {c.at : c \in new}
              g == [k \in 0 .. K - 1 |-> f[k]]
  <1>. USE DEF Adjoining
  <1>0. IsFiniteSet(0 .. K - 1) /\ Cardinality(0 .. K - 1) = K
    BY IntervalSize
  <1>1. g \in [0 .. K - 1 -> new]
    OBVIOUS
  <1>2. \A a, b \in 0 .. K - 1 : g[a] = g[b] => a = b
    <2>. SUFFICES ASSUME NEW a \in 0 .. K - 1, NEW b \in 0 .. K - 1, g[a] = g[b] PROVE a = b
      OBVIOUS
    <2>1. at + n * a = at + n * b
      OBVIOUS
    <2>2. n * a = n * b
      <3>1. n * a \in Nat /\ n * b \in Nat OBVIOUS
      <3>. QED BY <2>1, <3>1
    <2>3. a \in Nat /\ b \in Nat
      OBVIOUS
    <2>. QED BY <2>2, <2>3, TimesInjective, Zenon
  <1>3. \A c \in new : \E k \in 0 .. K - 1 : g[k] = c
    OBVIOUS
  <1>. HIDE DEF g, new
  <1>4. ExistsBijection(0 .. K - 1, new)
    <2>1. g \in Bijection(0 .. K - 1, new)
      BY <1>1, <1>2, <1>3, Fun_IsBij
    <2>. QED BY <2>1, Fun_ExistsBij
  <1>5. Cardinality(new) = K
    BY <1>0, <1>4, FS_Bijection
  <1>6. (\A c \in new : \E k \in 0 .. K - 1 : c = f[k]) /\ \A k \in 0 .. K - 1 : f[k] \in new
    BY DEF new
  <1>7. 0 \in 0 .. K - 1
    OBVIOUS
  <1>8. new # {}
    BY <1>6, <1>7
  <1>9. (CHOOSE c \in new : TRUE).n = n
    BY <1>6, <1>8
  <1>10. starts = {at + n * k : k \in 0 .. K - 1}
    <2>1. ASSUME NEW s \in starts PROVE s \in {at + n * k : k \in 0 .. K - 1}
      BY <1>6
    <2>2. ASSUME NEW k \in 0 .. K - 1 PROVE at + n * k \in starts
      <3>1. f[k] \in new /\ f[k].at = at + n * k
        BY <1>6
      <3>. QED BY <3>1
    <2>. HIDE DEF starts
    <2>. QED BY <2>1, <2>2
  <1>. DEFINE m == IF new = {} THEN 0 ELSE (CHOOSE c \in new : TRUE).n
  <1>11. Extend(y, moved) =
           IF new = {} THEN filled[y]
           ELSE IF starts = {filled[y] + m * k : k \in 0 .. Cardinality(new) - 1}
           THEN filled[y] + m * Cardinality(new) ELSE Hole
    BY DEF Extend, new
  <1>12. m = n
    BY <1>8, <1>9
  <1>. HIDE DEF m, starts
  <1>. QED BY <1>5, <1>8, <1>10, <1>11, <1>12

LEMMA ExtendNothing ==
  ASSUME NEW y, NEW moved, \A c \in moved : c.row # y
  PROVE  Extend(y, moved) = filled[y]
  <1>1. {c \in moved : c.row = y} = {}
    OBVIOUS
  <1>. QED BY <1>1 DEF Extend

(* Half of an even number of bytes, plane by plane. *)
LEMMA HalfOf ==
  ASSUME NEW p \in {1, 2}, NEW x \in Nat, x % 2 = 0, NEW w \in {4, 64}, NEW k \in Nat
  PROVE  /\ x \div p \in Nat /\ w \div p \in Nat \ {0}
         /\ (x + w * k) \div p = x \div p + (w \div p) * k
  <1>1. CASE p = 1
    BY <1>1
  <1>2. CASE p = 2 /\ w = 4
    BY <1>2
  <1>3. CASE p = 2 /\ w = 64
    BY <1>3
  <1>. QED BY <1>1, <1>2, <1>3

LEMMA CopyFields ==
  ASSUME NEW x, NEW y, NEW tile, NEW n
  PROVE  /\ Copy(x, y, tile, n).row = y
         /\ Copy(x, y, tile, n).at = x \div Planes
         /\ Copy(x, y, tile, n).n = n \div Planes
  BY DEF Copy, Planes

(* K copies of w bytes, side by side, in each of R rows. *)
Moved(x, w, K, R, t) ==
  {Copy(x + w * k, i + r, t[k], w) : k \in 0 .. K - 1, r \in 0 .. R - 1}

LEMMA CopiesExtend ==
  ASSUME i \in Nat, NEW x \in Nat, x % 2 = 0, NEW w \in {4, 64},
         NEW K \in Nat \ {0}, NEW R \in Nat \ {0}, NEW t, NEW moved, NEW y \in Nat,
         moved = Moved(x, w, K, R, t)
  PROVE  /\ i <= y /\ y < i + R /\ filled[y] = x \div Planes
              => Extend(y, moved) = (x + w * K) \div Planes
         /\ ~(i <= y /\ y < i + R) => Extend(y, moved) = filled[y]
  <1>. DEFINE f == [k \in 0 .. K - 1 |-> Copy(x + w * k, y, t[k], w)]
  <1>1. \A c \in moved : \E k \in 0 .. K - 1, r \in 0 .. R - 1 :
           c = Copy(x + w * k, i + r, t[k], w) /\ c.row = i + r
    BY CopyFields DEF Moved
  <1>2. ASSUME i <= y, y < i + R, filled[y] = x \div Planes
        PROVE  Extend(y, moved) = (x + w * K) \div Planes
    <2>0. Planes \in {1, 2}
      BY DEF Planes
    <2>1. \A k \in Nat : (x + w * k) \div Planes = x \div Planes + (w \div Planes) * k
      BY <2>0, HalfOf
    <2>2. x \div Planes \in Nat /\ w \div Planes \in Nat \ {0}
      BY <2>0, HalfOf
    <2>3. \A k \in 0 .. K - 1 : /\ f[k].at = x \div Planes + (w \div Planes) * k
                                /\ f[k].n = w \div Planes
      BY <2>1, CopyFields
    <2>4. \A k \in 0 .. K - 1 : f[k] \in moved /\ f[k].row = y
      <3>. SUFFICES ASSUME NEW k \in 0 .. K - 1 PROVE f[k] \in moved /\ f[k].row = y
        OBVIOUS
      <3>1. y - i \in 0 .. R - 1 /\ i + (y - i) = y
        BY <1>2
      <3>. QED BY <3>1, CopyFields DEF Moved
    <2>5. ASSUME NEW c \in moved, c.row = y PROVE \E k \in 0 .. K - 1 : c = f[k]
      BY <1>1, <2>5
    <2>. DEFINE at == x \div Planes
                n == w \div Planes
    <2>. HIDE DEF f, at, n
    <2>6. at \in Nat /\ n \in Nat \ {0} /\ filled[y] = at
      BY <1>2, <2>2 DEF at, n
    <2>7. Adjoining(f, K, moved, y, at, n)
      BY <2>3, <2>4, <2>5 DEF Adjoining, at, n
    <2>8. Extend(y, moved) = at + n * K
      BY <2>6, <2>7, ExtendRow
    <2>. QED BY <2>1, <2>8 DEF at, n
  <1>3. ASSUME ~(i <= y /\ y < i + R)
        PROVE  Extend(y, moved) = filled[y]
    <2>1. \A c \in moved : c.row # y
      BY <1>1, <1>3
    <2>. QED BY <2>1, ExtendNothing
  <1>. QED BY <1>2, <1>3

(* A turn of a loop: R rows go on from column x by K times w bytes. *)
LEMMA RowsFilled ==
  ASSUME Filled, Divided, height \in Nat, UNCHANGED <<function, width, height>>,
         i \in Nat, NEW x \in Nat, x % 2 = 0, NEW w \in {4, 64},
         NEW K \in Nat \ {0}, NEW R \in Nat \ {0}, NEW t, NEW moved, Move(moved),
         moved = Moved(x, w, K, R, t),
         \A y \in 0 .. height + 2 :
            IF i <= y /\ y < i + R THEN Columns(y) = x /\ Columns(y)' = x + w * K
                                   ELSE Columns(y)' = Columns(y)
  PROVE  Filled'
  <1>1. Planes' = Planes
    BY DEF Planes
  <1>2. filled = [y \in 0 .. height + 2 |-> Columns(y) \div Planes]
    BY DEF Filled
  <1>3. filled' = [y \in 0 .. height + 2 |-> Extend(y, moved)]
    BY <1>2 DEF Move
  <1>4. ASSUME NEW y \in 0 .. height + 2 PROVE Extend(y, moved) = Columns(y)' \div Planes
    <2>1. filled[y] = Columns(y) \div Planes
      BY <1>2
    <2>2. y \in Nat
      OBVIOUS
    <2>3. CASE i <= y /\ y < i + R
      BY <2>1, <2>2, <2>3, CopiesExtend
    <2>4. CASE ~(i <= y /\ y < i + R)
      BY <2>1, <2>2, <2>4, CopiesExtend
    <2>. QED BY <2>3, <2>4
  <1>5. filled' = [y \in 0 .. height + 2 |-> Columns(y)' \div Planes]
    BY <1>3, <1>4
  <1>. QED BY <1>1, <1>5 DEF Filled

-----------------------------------------------------------------------------
(* What the loops owe to their guards. *)
Turning ==
  /\ pass = "strips" /\ i # 0 => width - aligned_x_size >= strip
  /\ pass = "tiles" => i = 0 \/ i < aligned_y_size
  /\ pass = "rest" /\ aligned_x_size = width => j = 0
  /\ pass = "columns" /\ wholeColumns = width => j = 0

WholeInv == IInv /\ Turning /\ Filled

(* A turn stays within what its rows divide. *)
LEMMA TurnInside ==
  ASSUME NEW m \in {1, 2, 4, 32}, NEW a \in Nat, NEW b \in Nat, a < b, a % m = 0, b % m = 0
  PROVE  a + m <= b
  OBVIOUS

(* A step that moves no column keeps what is filled in. *)
LEMMA NothingMoved ==
  ASSUME Filled, UNCHANGED <<filled, function, width, height>>,
         Divided => \A y \in 0 .. height + 2 : Columns(y)' = Columns(y)
  PROVE  Filled'
  <1>. SUFFICES ASSUME Divided' PROVE filled' = [y \in 0 .. height' + 2 |-> Columns(y)' \div Planes']
    BY DEF Filled
  <1>1. Divided
    BY DEF Divided, RowsOf
  <1>2. Planes' = Planes
    BY DEF Planes
  <1>3. [y \in 0 .. height + 2 |-> Columns(y)' \div Planes']
          = [y \in 0 .. height + 2 |-> Columns(y) \div Planes]
    BY <1>1, <1>2
  <1>. QED BY <1>1, <1>3 DEF Filled

(* In the loops over strips. *)
LEMMA NextRowsFill ==
  ASSUME IInv, Filled, pass = "strips", width - aligned_x_size >= strip,
         NEW K \in Nat \ {0}, strip = 64 * K, NEW t, NEW moved,
         moved = Moved(aligned_x_size, 64, K, RowsAtOnce, t), NextRows(moved)
  PROVE  Turning' /\ Filled'
  <1>1. /\ width \in Nat /\ height \in Nat /\ i \in Nat /\ aligned_x_size \in Nat
        /\ strip \in Strips /\ i < height /\ i % RowsAtOnce = 0 /\ aligned_x_size % 64 = 0
    BY DEF IInv, Where, InStrips, Picture
  <1>2. UNCHANGED <<function, width, height>> /\ Move(moved)
    BY DEF NextRows
  <1>3. RowsAtOnce \in {1, 2, 4} /\ RowsOf \in {2, 4}
        /\ (strip = 64 => RowsAtOnce = RowsOf) /\ (strip # 64 => RowsAtOnce # 4)
    BY <1>1 DEF RowsAtOnce, RowsOf, Strips
  <1>4. Turning'
    <2>1. CASE i + RowsAtOnce < height
      BY <1>2, <2>1 DEF NextRows, Turning
    <2>2. CASE ~(i + RowsAtOnce < height)
      <3>1. i' = 0 /\ j' = 0 /\ pass' \in {"strips", "rest"}
        BY <2>2 DEF NextRows, EndStrip
      <3>. QED BY <3>1 DEF Turning
    <2>. QED BY <2>1, <2>2
  <1>5. ASSUME Divided PROVE Filled'
    <2>1. i + RowsAtOnce <= height
      <3>1. height % RowsAtOnce = 0
        BY <1>1, <1>3, <1>5 DEF Divided
      <3>. QED BY <1>1, <1>3, <3>1, TurnInside
    <2>2. ASSUME NEW y \in 0 .. height + 2
          PROVE IF i <= y /\ y < i + RowsAtOnce
                THEN Columns(y) = aligned_x_size /\ Columns(y)' = aligned_x_size + 64 * K
                ELSE Columns(y)' = Columns(y)
      <3>1. Columns(y) = IF y < height
                         THEN IF y < i THEN aligned_x_size + strip ELSE aligned_x_size ELSE 0
        BY DEF Columns, Finished
      <3>2. CASE i + RowsAtOnce < height
        <4>1. i' = i + RowsAtOnce /\ UNCHANGED <<pass, strip, aligned_x_size>>
          BY <3>2 DEF NextRows
        <4>2. Columns(y)' = IF y < height
                            THEN IF y < i + RowsAtOnce THEN aligned_x_size + strip
                                 ELSE aligned_x_size ELSE 0
          BY <1>2, <4>1 DEF Columns, Finished
        <4>. QED BY <1>1, <1>3, <2>1, <3>1, <4>2
      <3>3. CASE ~(i + RowsAtOnce < height)
        <4>1. i' = 0 /\ j' = 0 /\ pass' \in {"strips", "rest"}
              /\ aligned_x_size' = aligned_x_size + strip
          BY <3>3 DEF NextRows, EndStrip
        <4>2. Columns(y)' = IF y < height THEN aligned_x_size + strip ELSE 0
          <5>1. CASE pass' = "strips"
            BY <1>2, <4>1, <5>1 DEF Columns, Finished
          <5>2. CASE pass' = "rest"
            <6>1. Finished(y)' = IF y < 0 THEN width
                                 ELSE IF y < 0 + RowsOf' THEN aligned_x_size + strip + 0
                                 ELSE aligned_x_size + strip
              BY <1>2, <4>1, <5>2 DEF Finished, BesideColumns
            <6>2. aligned_x_size + strip + 0 = aligned_x_size + strip /\ ~(y < 0)
              BY <1>1 DEF Strips
            <6>. QED BY <1>2, <6>1, <6>2 DEF Columns
          <5>. QED BY <4>1, <5>1, <5>2
        <4>. QED BY <1>1, <1>3, <2>1, <3>1, <3>3, <4>2
      <3>. QED BY <3>2, <3>3
    <2>3. aligned_x_size % 2 = 0 /\ RowsAtOnce \in Nat \ {0}
      BY <1>1, <1>3
    <2>. QED BY <1>1, <1>2, <1>5, <2>2, <2>3, RowsFilled
  <1>6. ASSUME ~Divided PROVE Filled'
    BY <1>2, <1>6 DEF Filled, Divided, RowsOf
  <1>. QED BY <1>4, <1>5, <1>6

(* One copy in each of R rows. *)
Only(tile) == [k \in {0} |-> tile]
RowsMoved(x, w, R, tile) == {Copy(x, i + r, tile, w) : r \in 0 .. R - 1}

LEMMA OneMoved ==
  ASSUME NEW x \in Nat, NEW w \in {4, 64}, NEW R, NEW tile, i \in Nat
  PROVE  RowsMoved(x, w, R, tile) = Moved(x, w, 1, R, Only(tile))
  <1>1. 0 .. 1 - 1 = {0} /\ x + w * 0 = x
    OBVIOUS
  <1>2. \A k \in {0} : x + w * k = x /\ Only(tile)[k] = tile
    BY <1>1 DEF Only
  <1>3. Moved(x, w, 1, R, Only(tile))
          = {Copy(x + w * k, i + r, Only(tile)[k], w) : k \in {0}, r \in 0 .. R - 1}
    BY <1>1 DEF Moved
  <1>. QED BY <1>2, <1>3 DEF RowsMoved

LEMMA WideStripFill ==
  ASSUME IInv, Filled, NEW columns \in {1024, 512, 256, 128}, WideStrip(columns)
  PROVE  Turning' /\ Filled'
  <1>. DEFINE K == columns \div 64
              t == [k \in 0 .. K - 1 |-> StripTile(k, i \div 32)]
              moved == {Copy(aligned_x_size + 64 * k, i + r, StripTile(k, i \div 32), 64) :
                          k \in 0 .. columns \div 64 - 1, r \in 0 .. RowsAtOnce - 1}
  <1>1. strip = columns /\ width - aligned_x_size >= strip /\ NextRows(moved)
    BY DEF WideStrip
  <1>2. K \in Nat \ {0} /\ columns = 64 * K
    OBVIOUS
  <1>3. moved = Moved(aligned_x_size, 64, K, RowsAtOnce, t)
    BY DEF Moved
  <1>4. pass = "strips"
    BY <1>1 DEF IInv, Where
  <1>. HIDE DEF K, t, moved
  <1>. QED BY <1>1, <1>2, <1>3, <1>4, NextRowsFill

LEMMA Strip64Fill ==
  ASSUME IInv, Filled, Strip64
  PROVE  Turning' /\ Filled'
  <1>. DEFINE tile == TileOf(aligned_x_size \div 64, i \div 32)
              t == Only(tile)
              moved == RowsMoved(aligned_x_size, 64, RowsAtOnce, tile)
  <1>1. strip = 64 /\ width - aligned_x_size >= strip /\ NextRows(moved)
    BY DEF Strip64, RowsMoved
  <1>2. pass = "strips" /\ aligned_x_size \in Nat /\ i \in Nat
    BY <1>1 DEF IInv, Where
  <1>. HIDE DEF tile
  <1>3. moved = Moved(aligned_x_size, 64, 1, RowsAtOnce, t)
    BY <1>2, OneMoved
  <1>4. 1 \in Nat \ {0} /\ strip = 64 * 1
    BY <1>1
  <1>. HIDE DEF t, moved
  <1>. QED BY <1>1, <1>2, <1>3, <1>4, NextRowsFill

(* In the loops that take the last columns by four. *)
LEMMA FourColumnsFill ==
  ASSUME IInv, Turning, Filled, NEW from \in Nat, pass \in {"rest", "columns"},
         InColumns(from), from # width, strip = 0,
         pass = "rest" => from = aligned_x_size,
         pass = "columns" => from = wholeColumns,
         FourColumns(from)
  PROVE  Turning' /\ Filled'
  <1>. DEFINE tile == TileOf((from + j) \div 64, i \div 32)
              t == Only(tile)
              moved == RowsMoved(from + j, 4, RowsAtOnce, tile)
  <1>1. /\ width \in Nat /\ height \in Nat /\ i \in Nat /\ j \in Nat
        /\ i < height /\ from % 64 = 0 /\ j % 4 = 0 /\ from + j < width /\ from <= width
    BY DEF IInv, Where, Picture, InColumns
  <1>2. UNCHANGED <<function, width, height, strip, aligned_x_size>> /\ Move(moved)
    BY DEF FourColumns, RowsMoved
  <1>. HIDE DEF tile
  <1>3. moved = Moved(from + j, 4, 1, RowsAtOnce, t)
    BY <1>1, OneMoved
  <1>. HIDE DEF t, moved
  <1>4. RowsAtOnce = RowsOf /\ RowsOf \in {2, 4} /\ i % RowsOf = 0
    BY DEF RowsAtOnce, RowsOf, InColumns
  <1>5. wholeColumns' = wholeColumns /\ RowsOf' = RowsOf
    BY <1>2 DEF wholeColumns, RowsOf
  <1>6. Turning'
    <2>1. pass' \in {pass, "done"}
      BY DEF FourColumns
    <2>. QED BY <1>2, <1>5, <2>1 DEF Turning
  <1>7. ASSUME Divided PROVE Filled'
    <2>1. i + RowsOf <= height
      BY <1>1, <1>4, <1>7, TurnInside DEF Divided
    <2>2. from + j + 4 <= width
      BY <1>1, <1>7 DEF Divided
    <2>3. ASSUME NEW y \in 0 .. height + 2
          PROVE IF i <= y /\ y < i + RowsOf
                THEN Columns(y) = from + j /\ Columns(y)' = (from + j) + 4 * 1
                ELSE Columns(y)' = Columns(y)
      <3>1. Columns(y) = IF y < height
                         THEN IF y < i THEN width
                              ELSE IF y < i + RowsOf THEN from + j ELSE from
                         ELSE 0
        BY DEF Columns, Finished, BesideColumns
      <3>2. CASE from + j + 4 < width
        <4>1. j' = j + 4 /\ UNCHANGED <<pass, i>>
          BY <3>2 DEF FourColumns
        <4>2. Columns(y)' = IF y < height
                            THEN IF y < i THEN width
                                 ELSE IF y < i + RowsOf THEN from + (j + 4) ELSE from
                            ELSE 0
          BY <1>2, <1>5, <4>1 DEF Columns, Finished, BesideColumns
        <4>. QED BY <1>1, <1>4, <2>1, <3>1, <4>2
      <3>3. CASE ~(from + j + 4 < width) /\ i + RowsOf < height
        <4>1. j' = 0 /\ i' = i + RowsOf /\ UNCHANGED pass
          BY <1>4, <3>3 DEF FourColumns
        <4>2. Columns(y)' = IF y < height
                            THEN IF y < i + RowsOf THEN width
                                 ELSE IF y < i + RowsOf + RowsOf THEN from + 0 ELSE from
                            ELSE 0
          BY <1>2, <1>5, <4>1 DEF Columns, Finished, BesideColumns
        <4>. QED BY <1>1, <1>4, <2>1, <2>2, <3>1, <3>3, <4>2
      <3>4. CASE ~(from + j + 4 < width) /\ ~(i + RowsOf < height)
        <4>1. pass' = "done"
          BY <1>4, <3>4 DEF FourColumns
        <4>2. Columns(y)' = IF y < height THEN width ELSE 0
          BY <1>2, <4>1 DEF Columns, Finished
        <4>. QED BY <1>1, <1>4, <2>1, <2>2, <3>1, <3>4, <4>2
      <3>. QED BY <3>2, <3>3, <3>4
    <2>4. (from + j) % 2 = 0 /\ from + j \in Nat /\ RowsOf \in Nat \ {0} /\ 1 \in Nat \ {0}
      BY <1>1, <1>4
    <2>. QED BY <1>1, <1>2, <1>3, <1>4, <1>7, <2>3, <2>4, RowsFilled
  <1>8. ASSUME ~Divided PROVE Filled'
    BY <1>2, <1>5, <1>8 DEF Filled, Divided
  <1>. QED BY <1>6, <1>7, <1>8

(* In the loops over tiles: rows of them, then the rows below. *)
LEMMA TilesFill ==
  ASSUME IInv, Turning, Filled, NEW rows \in {4, 32}, NEW end \in Nat,
         pass = (IF rows = 32 THEN "tiles" ELSE "rows"),
         end = (IF rows = 32 THEN aligned_y_size ELSE height),
         function \in IntoTiles, i < end, j < wholeColumns,
         TileRows(rows), UNCHANGED <<function, width, height, strip, aligned_x_size>>,
         IF j + 64 < wholeColumns THEN j' = j + 64 /\ UNCHANGED <<pass, i>>
         ELSE /\ j' = 0
              /\ IF i + rows < end THEN i' = i + rows /\ UNCHANGED pass
                 ELSE IF rows = 32 THEN pass' = "rows" /\ i' = end
                 ELSE pass' = "columns" /\ i' = 0
  PROVE  Turning' /\ Filled'
  <1>. DEFINE tile == TileOf(j \div 64, i \div 32)
              t == Only(tile)
              moved == RowsMoved(j, 64, rows, tile)
  <1>1. /\ width \in Nat /\ height \in Nat /\ i \in Nat /\ j \in Nat /\ j % 64 = 0
        /\ i % rows = 0
    BY DEF IInv, Where, Picture
  <1>2. Move(moved)
    BY DEF TileRows, RowsMoved
  <1>. HIDE DEF tile
  <1>3. moved = Moved(j, 64, 1, rows, t)
    BY <1>1, OneMoved
  <1>. HIDE DEF t, moved
  <1>4. /\ wholeColumns \in Nat /\ wholeColumns % 64 = 0 /\ wholeColumns <= width
        /\ aligned_y_size \in Nat /\ aligned_y_size % 32 = 0 /\ aligned_y_size <= height
    BY <1>1 DEF wholeColumns, aligned_y_size
  <1>5. wholeColumns' = wholeColumns /\ aligned_y_size' = aligned_y_size
    BY DEF wholeColumns, aligned_y_size
  <1>6. Turning'
    BY <1>5 DEF Turning
  <1>7. ASSUME Divided PROVE Filled'
    <2>1. i + rows <= end
      <3>1. end % rows = 0
        BY <1>4, <1>7 DEF Divided, RowsOf, IntoTiles
      <3>. QED BY <1>1, <3>1, TurnInside
    <2>2. j + 64 <= wholeColumns
      BY <1>1, <1>4
    <2>3. ASSUME NEW y \in 0 .. height + 2
          PROVE IF i <= y /\ y < i + rows
                THEN Columns(y) = j /\ Columns(y)' = j + 64 * 1
                ELSE Columns(y)' = Columns(y)
      <3>1. Columns(y) = IF y < height
                         THEN IF y < i THEN wholeColumns ELSE IF y < i + rows THEN j ELSE 0
                         ELSE 0
        BY DEF Columns, Finished, TileColumns
      <3>2. CASE j + 64 < wholeColumns
        <4>1. j' = j + 64 /\ UNCHANGED <<pass, i>>
          BY <3>2
        <4>2. Columns(y)' = IF y < height
                            THEN IF y < i THEN wholeColumns
                                 ELSE IF y < i + rows THEN j + 64 ELSE 0
                            ELSE 0
          BY <1>5, <4>1 DEF Columns, Finished, TileColumns
        <4>. QED BY <1>1, <1>4, <2>1, <3>1, <4>2
      <3>3. CASE ~(j + 64 < wholeColumns) /\ i + rows < end
        <4>1. j' = 0 /\ i' = i + rows /\ UNCHANGED pass
          BY <3>3
        <4>2. Columns(y)' = IF y < height
                            THEN IF y < i + rows THEN wholeColumns
                                 ELSE IF y < i + rows + rows THEN 0 ELSE 0
                            ELSE 0
          BY <1>5, <4>1 DEF Columns, Finished, TileColumns
        <4>. QED BY <1>1, <1>4, <2>1, <2>2, <3>1, <3>3, <4>2
      <3>4. CASE ~(j + 64 < wholeColumns) /\ ~(i + rows < end) /\ rows = 32
        <4>1. j' = 0 /\ i' = end /\ pass' = "rows"
          BY <3>4
        <4>2. Columns(y)' = IF y < height
                            THEN IF y < end THEN wholeColumns ELSE IF y < end + 4 THEN 0 ELSE 0
                            ELSE 0
          BY <1>5, <4>1 DEF Columns, Finished, TileColumns
        <4>. QED BY <1>1, <1>4, <2>1, <2>2, <3>1, <3>4, <4>2
      <3>5. CASE ~(j + 64 < wholeColumns) /\ ~(i + rows < end) /\ rows = 4
        <4>1. j' = 0 /\ i' = 0 /\ pass' = "columns"
          BY <3>5
        <4>2. Columns(y)' = IF y < height
                            THEN IF y < 0 THEN width
                                 ELSE IF y < 0 + RowsOf' THEN wholeColumns + 0 ELSE wholeColumns
                            ELSE 0
          BY <1>5, <4>1 DEF Columns, Finished, BesideColumns
        <4>3. Columns(y)' = IF y < height THEN wholeColumns ELSE 0
          BY <1>4, <4>2
        <4>. QED BY <1>1, <1>4, <2>1, <2>2, <3>1, <3>5, <4>3
      <3>. QED BY <3>2, <3>3, <3>4, <3>5
    <2>4. j % 2 = 0 /\ rows \in Nat \ {0} /\ 1 \in Nat \ {0}
      BY <1>1
    <2>. QED BY <1>1, <1>2, <1>3, <1>7, <2>3, <2>4, RowsFilled
  <1>8. ASSUME ~Divided PROVE Filled'
    BY <1>8 DEF Filled, Divided, RowsOf
  <1>. QED BY <1>6, <1>7, <1>8

(* In the turns that move nothing. *)
LEMMA SkipStripFill ==
  ASSUME IInv, Turning, Filled, SkipStrip
  PROVE  Turning' /\ Filled'
  <1>1. /\ height \in Nat /\ aligned_x_size \in Nat /\ strip \in Strips /\ i = 0
        /\ width \in Nat /\ i' = 0 /\ j' = 0 /\ pass' \in {"strips", "rest"}
        /\ pass = "strips" /\ UNCHANGED <<filled, function, width, height, aligned_x_size>>
    <2>1. pass = "strips" /\ width - aligned_x_size < strip /\ EndStrip
          /\ UNCHANGED <<filled, function, width, height, aligned_x_size>>
      BY DEF SkipStrip
    <2>2. width \in Nat /\ height \in Nat /\ aligned_x_size \in Nat /\ strip \in Strips
      BY <2>1 DEF IInv, Where, InStrips, Picture
    <2>3. i = 0
      BY <2>1, <2>2 DEF Turning, Strips
    <2>. QED BY <2>1, <2>2, <2>3 DEF EndStrip
  <1>2. Turning'
    BY <1>1 DEF Turning
  <1>3. ASSUME NEW y \in 0 .. height + 2 PROVE Columns(y)' = Columns(y)
    <2>1. Columns(y) = IF y < height THEN aligned_x_size ELSE 0
      BY <1>1 DEF Columns, Finished
    <2>2. CASE pass' = "strips"
      BY <1>1, <2>1, <2>2 DEF Columns, Finished
    <2>3. CASE pass' = "rest"
      <3>1. Columns(y)' = IF y < height
                          THEN IF y < 0 THEN width
                               ELSE IF y < 0 + RowsOf' THEN aligned_x_size + 0 ELSE aligned_x_size
                          ELSE 0
        BY <1>1, <2>3 DEF Columns, Finished, BesideColumns
      <3>. QED BY <1>1, <2>1, <3>1
    <2>. QED BY <1>1, <2>2, <2>3
  <1>. QED BY <1>1, <1>2, <1>3, NothingMoved

LEMMA NoRestFill ==
  ASSUME IInv, Turning, Filled, NoRest
  PROVE  Turning' /\ Filled'
  <1>1. /\ pass = "rest" /\ width = aligned_x_size /\ pass' = "done" /\ j = 0
        /\ width \in Nat /\ UNCHANGED <<filled, function, width, height>>
    BY DEF NoRest, IInv, Where, Picture, Turning
  <1>2. Turning'
    BY <1>1 DEF Turning
  <1>3. ASSUME NEW y \in 0 .. height + 2 PROVE Columns(y)' = Columns(y)
    <2>1. Columns(y) = IF y < height
                       THEN IF y < i THEN width
                            ELSE IF y < i + RowsOf THEN width + 0 ELSE width
                       ELSE 0
      BY <1>1 DEF Columns, Finished, BesideColumns
    <2>2. Columns(y)' = IF y < height THEN width ELSE 0
      BY <1>1 DEF Columns, Finished
    <2>. QED BY <1>1, <2>1, <2>2
  <1>. QED BY <1>1, <1>2, <1>3, NothingMoved

LEMMA NothingThereFill ==
  ASSUME IInv, Turning, Filled, NothingThere
  PROVE  Turning' /\ Filled'
  <1>1. /\ width \in Nat /\ height \in Nat /\ i \in Nat /\ j \in Nat
        /\ wholeColumns \in Nat /\ aligned_y_size \in Nat
    BY DEF IInv, Where, Picture, wholeColumns, aligned_y_size
  <1>2. UNCHANGED <<filled, function, width, height, j>> /\ wholeColumns' = wholeColumns
    BY DEF NothingThere, wholeColumns
  <1>3. CASE /\ pass = "tiles" /\ (aligned_y_size = 0 \/ wholeColumns = 0)
             /\ pass' = "rows" /\ i' = aligned_y_size
    <2>1. j = 0 /\ (aligned_y_size = 0 => i = 0)
      BY <1>1, <1>3 DEF IInv, Where, Turning
    <2>2. Turning'
      BY <1>3 DEF Turning
    <2>3. ASSUME NEW y \in 0 .. height + 2 PROVE Columns(y)' = Columns(y)
      <3>1. Columns(y) = IF y < height
                         THEN IF y < i THEN wholeColumns ELSE IF y < i + 32 THEN 0 ELSE 0
                         ELSE 0
        BY <1>3, <2>1 DEF Columns, Finished, TileColumns
      <3>2. Columns(y)' = IF y < height
                          THEN IF y < aligned_y_size THEN wholeColumns
                               ELSE IF y < aligned_y_size + 4 THEN 0 ELSE 0
                          ELSE 0
        BY <1>2, <1>3, <2>1 DEF Columns, Finished, TileColumns
      <3>. QED BY <1>1, <1>3, <2>1, <3>1, <3>2
    <2>. QED BY <1>2, <2>2, <2>3, NothingMoved
  <1>4. CASE /\ pass = "rows" /\ (i >= height \/ wholeColumns = 0)
             /\ pass' = "columns" /\ i' = 0
    <2>1. j = 0
      BY <1>1, <1>4 DEF IInv, Where
    <2>2. Turning'
      BY <1>2, <1>4, <2>1 DEF Turning
    <2>3. ASSUME NEW y \in 0 .. height + 2 PROVE Columns(y)' = Columns(y)
      <3>1. Columns(y) = IF y < height
                         THEN IF y < i THEN wholeColumns ELSE IF y < i + 4 THEN 0 ELSE 0
                         ELSE 0
        BY <1>4, <2>1 DEF Columns, Finished, TileColumns
      <3>2. Columns(y)' = IF y < height
                          THEN IF y < 0 THEN width
                               ELSE IF y < 0 + RowsOf' THEN wholeColumns + 0 ELSE wholeColumns
                          ELSE 0
        BY <1>2, <1>4, <2>1 DEF Columns, Finished, BesideColumns
      <3>. QED BY <1>1, <1>4, <3>1, <3>2
    <2>. QED BY <1>2, <2>2, <2>3, NothingMoved
  <1>5. CASE /\ pass = "columns" /\ wholeColumns = width
             /\ pass' = "done" /\ i' = 0
    <2>1. j = 0
      BY <1>5 DEF Turning
    <2>2. Turning'
      BY <1>5 DEF Turning
    <2>3. ASSUME NEW y \in 0 .. height + 2 PROVE Columns(y)' = Columns(y)
      <3>1. Columns(y) = IF y < height
                         THEN IF y < i THEN width
                              ELSE IF y < i + RowsOf THEN width + 0 ELSE width
                         ELSE 0
        BY <1>5, <2>1 DEF Columns, Finished, BesideColumns
      <3>2. Columns(y)' = IF y < height THEN width ELSE 0
        BY <1>2, <1>5 DEF Columns, Finished
      <3>. QED BY <1>1, <3>1, <3>2
    <2>. QED BY <1>2, <2>2, <2>3, NothingMoved
  <1>. QED BY <1>3, <1>4, <1>5 DEF NothingThere

LEMMA WholeInit == ConvertInit => WholeInv
  <1>. SUFFICES ASSUME ConvertInit PROVE WholeInv OBVIOUS
  <1>1. IInv
    BY WhereInit
  <1>2. /\ height \in Nat /\ pass \in {"strips", "tiles"} /\ i = 0 /\ j = 0
        /\ aligned_x_size = 0 /\ filled = [y \in 0 .. height + 2 |-> 0]
    BY ColorConvertAssumption DEF ConvertInit
  <1>3. Turning
    BY <1>2 DEF Turning
  <1>4. ASSUME NEW y \in 0 .. height + 2 PROVE Columns(y) \div Planes = 0
    <2>1. Columns(y) = 0
      BY <1>2 DEF Columns, Finished, TileColumns
    <2>. QED BY <2>1 DEF Planes
  <1>5. Filled
    BY <1>2, <1>4 DEF Filled
  <1>. QED BY <1>1, <1>3, <1>5 DEF WholeInv

(* Every step of the conversion preserves the invariant that all is placed. *)
LEMMA WholeNext == WholeInv /\ [ConvertNext]_convertVars => WholeInv'
  <1>. SUFFICES ASSUME WholeInv, [ConvertNext]_convertVars PROVE WholeInv' OBVIOUS
  <1>0. IInv /\ Turning /\ Filled /\ IInv'
    BY PlacesNext DEF WholeInv
  <1>. SUFFICES Turning' /\ Filled'
    BY <1>0 DEF WholeInv
  <1>1. ASSUME NEW columns \in {1024, 512, 256, 128}, WideStrip(columns)
        PROVE  Turning' /\ Filled'
    BY <1>0, <1>1, WideStripFill
  <1>2. CASE Strip64
    BY <1>0, <1>2, Strip64Fill
  <1>3. CASE Rest
    <2>1. /\ pass = "rest" /\ InColumns(aligned_x_size) /\ strip = 0
          /\ aligned_x_size # width /\ aligned_x_size \in Nat /\ FourColumns(aligned_x_size)
      BY <1>0, <1>3 DEF Rest, IInv, Where
    <2>. QED BY <1>0, <2>1, FourColumnsFill
  <1>4. CASE ColumnsBeside
    <2>1. /\ pass = "columns" /\ InColumns(wholeColumns) /\ strip = 0
          /\ wholeColumns # width /\ wholeColumns \in Nat /\ FourColumns(wholeColumns)
      BY <1>0, <1>4 DEF ColumnsBeside, IInv, Where, wholeColumns, Picture
    <2>. QED BY <1>0, <2>1, FourColumnsFill
  <1>5. CASE function \in IntoTiles /\ WholeTiles
    <2>1. aligned_y_size \in Nat
      BY <1>0 DEF IInv, Where, Picture, aligned_y_size
    <2>2. /\ pass = "tiles" /\ i < aligned_y_size /\ j < wholeColumns /\ TileRows(32)
          /\ NextTile(32, aligned_y_size, pass' = "rows" /\ i' = aligned_y_size)
      BY <1>5 DEF WholeTiles
    <2>. QED BY <1>0, <1>5, <2>1, <2>2, TilesFill DEF NextTile
  <1>6. CASE function \in IntoTiles /\ RowsBelow
    <2>1. height \in Nat
      BY <1>0 DEF IInv, Where, Picture
    <2>2. /\ pass = "rows" /\ i < height /\ j < wholeColumns /\ TileRows(4)
          /\ NextTile(4, height, pass' = "columns" /\ i' = 0)
      BY <1>6 DEF RowsBelow
    <2>. QED BY <1>0, <1>6, <2>1, <2>2, TilesFill DEF NextTile
  <1>7. CASE NothingThere
    BY <1>0, <1>7, NothingThereFill
  <1>8. CASE SkipStrip
    BY <1>0, <1>8, SkipStripFill
  <1>9. CASE NoRest
    BY <1>0, <1>9, NoRestFill
  <1>10. CASE UNCHANGED convertVars
    <2>1. Turning'
      BY <1>0, <1>10 DEF convertVars, Turning, aligned_y_size, wholeColumns
    <2>2. UNCHANGED <<filled, function, width, height>>
      BY <1>10 DEF convertVars
    <2>3. \A y \in 0 .. height + 2 : Columns(y)' = Columns(y)
      BY <1>10 DEF convertVars, Columns, Finished, BesideColumns, TileColumns, RowsOf,
                   wholeColumns
    <2>. QED BY <1>0, <2>1, <2>2, <2>3, NothingMoved
  <1>. QED
    BY <1>1, <1>2, <1>3, <1>4, <1>5, <1>6, <1>7, <1>8, <1>9, <1>10
    DEF ConvertNext, csc_tiled_to_linear, csc_tiled_to_linear_deinterleave, csc_linear_to_tiled,
        csc_linear_to_tiled_interleave, IntoTiles, Strip1024, Strip512, Strip256, Strip128

LEMMA ColumnsInRange == ASSUME IInv, NEW y PROVE Columns(y) \in Nat
  <1>1. /\ width \in Nat /\ i \in Nat /\ j \in Nat /\ aligned_x_size \in Nat
        /\ wholeColumns \in Nat
        /\ (pass = "strips" => strip \in Nat)
    BY DEF IInv, Where, Picture, InStrips, Strips, wholeColumns
  <1>2. Finished(y) \in Nat
    BY <1>1 DEF Finished, BesideColumns, TileColumns
  <1>. QED BY <1>2 DEF Columns

(* For pictures of every width and height the steps divide, the four functions
   also finish every row up to its width, leave nothing out, move nothing twice
   and touch no row outside the picture; together with EveryByteInPlace, a
   picture is converted. *)
THEOREM PicturesAreConverted == ConvertSpec => []PictureConverted
  <1>1. ASSUME WholeInv PROVE PictureConverted
    <2>1. IInv /\ Filled /\ RightPlace
      BY <1>1 DEF WholeInv, IInv
    <2>2. ASSUME Divided
          PROVE  /\ \A y \in DOMAIN filled : filled[y] # Hole
                 /\ pass = "done" => \A y \in DOMAIN filled :
                      filled[y] = IF y < height THEN width \div Planes ELSE 0
      <3>1. filled = [y \in 0 .. height + 2 |-> Columns(y) \div Planes]
        BY <2>1, <2>2 DEF Filled
      <3>2. ASSUME NEW y \in 0 .. height + 2 PROVE filled[y] # Hole
        <4>1. Columns(y) \in Nat
          BY <2>1, ColumnsInRange
        <4>2. Columns(y) \div Planes \in Nat
          BY <4>1 DEF Planes
        <4>. QED BY <3>1, <4>2 DEF Hole
      <3>3. ASSUME pass = "done", NEW y \in 0 .. height + 2
            PROVE  filled[y] = IF y < height THEN width \div Planes ELSE 0
        <4>1. Columns(y) = IF y < height THEN width ELSE 0
          BY <3>3 DEF Columns, Finished
        <4>2. 0 \div Planes = 0
          BY DEF Planes
        <4>. QED BY <3>1, <4>1, <4>2
      <3>. QED BY <3>1, <3>2, <3>3
    <2>. QED BY <2>1, <2>2 DEF PictureConverted, WholePicture, Divided, RowsOf, Planes
  <1>. QED BY <1>1, WholeInit, WholeNext, PTL DEF ConvertSpec

-----------------------------------------------------------------------------
(* Types. *)

\* A buffer as the client queues it.
Buffer == [valid : {TRUE}, len : 0 .. 1, n : 1 .. Stale, eos : BOOLEAN]

\* There is a buffer for every token; while the stream goes on the client's next
\* picture is the one after those it sent.
ClientOK ==
  /\ mode \in {"picture", "address"} /\ framed \in BOOLEAN
  /\ pos \in 1 .. Frames + 2 /\ fed \in 0 .. Frames
  /\ queue \in Seq(Buffer)
  /\ Len(queue) <= Ahead /\ tokens \in Nat /\ eosOut \in BOOLEAN
  /\ got \in Seq([c : Contents, time : -1 .. Stale])
  /\ pos <= Frames + 1 => pos = fed + 1
  /\ tokens <= Len(queue)

DataOK ==
  /\ cur \in [valid : BOOLEAN, len : 0 .. 1, n : 1 .. Stale, eos : BOOLEAN]
  /\ inp \in [len : 0 .. 1, time : 0 .. Stale, eos : BOOLEAN, n : 1 .. Stale]
  /\ out \in [len : 0 .. 1, half : Halves, time : -1 .. Stale, eos : BOOLEAN, split : BOOLEAN]

Places == {"input", "encode", "await", "read", "send", "sent", "done", "output",
           "stop", "join", "closed"}

FlagsOK ==
  /\ bUseFlagEOF \in BOOLEAN /\ bSaveFlagEOS \in BOOLEAN /\ getAllDelayBuffer \in BOOLEAN
  /\ reInputData \in BOOLEAN /\ remainOutputData \in BOOLEAN
  /\ bConfiguredMFC \in BOOLEAN /\ bFirstFrame \in BOOLEAN /\ bEncoderRun \in BOOLEAN
  /\ bExitEncodeThread \in BOOLEAN
  /\ pc \in Places /\ result \in {"none", "yet", "error"} /\ returnCodec \in {"ok", "error"}

CodecOK ==
  /\ source \in Source /\ ctx \in [source : Source, tag : Tags]
  /\ indexInputBuffer \in Halves /\ picture \in [Halves -> Contents]
  /\ indexTimestamp \in Tags /\ timeStamp \in [Tags -> -1 .. Stale]
  /\ nFlags \in [Tags -> BOOLEAN]

DeviceOK ==
  /\ epc \in {"wait", "exe", "post", "dead"} /\ hEncFrameStart \in Nat /\ hEncFrameEnd \in Nat
  /\ encode_cnt \in Halves /\ stream \in [Halves -> Contents]
  /\ job \in [source : Source, tag : Tags, half : Halves] /\ enc \in [c : Contents, tag : Tags]
  /\ encodeFaults \in 0 .. MaxEncodeFaults

Typed == ClientOK /\ DataOK /\ FlagsOK /\ CodecOK /\ DeviceOK

\* The groups together are the type invariant.
LEMMA TypedMeansTypeOK == Typed => EncodeTypeOK
BY DEF Typed, ClientOK, DataOK, FlagsOK, CodecOK, DeviceOK, Places, Buffer, EncodeTypeOK

\* The sets the types are made of.
LEMMA Values ==
  /\ Frames \in Nat /\ Frames >= 1 /\ Stale = Frames + 1 /\ Stale \in Contents
  /\ 1 .. Stale \subseteq Contents /\ Header = 0 /\ Header \in Contents
  /\ Torn = -1 /\ Torn \in Contents
  /\ Halves = {0, 1} /\ \A h \in Halves : Other(h) \in Halves /\ Other(h) # h
  /\ Tags = 0 .. MAX_TIMESTAMP - 1 /\ MAX_TIMESTAMP \in Nat /\ MAX_TIMESTAMP > 1
  /\ \A t \in Tags : (t + 1) % MAX_TIMESTAMP \in Tags /\ (t + 1) % MAX_TIMESTAMP # t
  /\ MaxEncodeFaults \in Nat /\ Ahead \in Nat
BY MfcEncodeAssumption DEF Stale, Contents, Header, Torn, Halves, Other, Tags

LEMMA TypedInit == EncodeInit => Typed
<1> SUFFICES ASSUME EncodeInit PROVE Typed
  OBVIOUS
<1>1. source \in Source
  BY Values DEF EncodeInit, Source
<1>2. ClientOK
  <2> DEFINE E == [c : Contents, time : -1 .. Stale]
  <2>1. queue = <<>> /\ got = <<>>
    BY DEF EncodeInit
  <2> HIDE DEF E
  <2>2. queue \in Seq(Buffer) /\ got \in Seq(E) /\ Len(queue) = 0
    BY <2>1
  <2>3. Len(queue) <= Ahead /\ tokens \in Nat /\ tokens <= Len(queue)
    BY <2>2, Values DEF EncodeInit
  <2>4. got \in Seq([c : Contents, time : -1 .. Stale])
    BY <2>2 DEF E
  <2>5. pos = 1 /\ fed = 0 /\ pos \in 1 .. Frames + 2 /\ fed \in 0 .. Frames
    BY Values DEF EncodeInit
  <2>6. mode \in {"picture", "address"} /\ framed \in BOOLEAN /\ eosOut \in BOOLEAN
    BY DEF EncodeInit
  <2> QED BY <2>2, <2>3, <2>4, <2>5, <2>6 DEF ClientOK
<1>3. DataOK
  BY Values DEF EncodeInit, DataOK, NoInput, NoData, NoOutput
<1>4. FlagsOK
  BY DEF EncodeInit, FlagsOK, Places
<1>5. CodecOK
  <2>1. 0 \in Tags /\ 0 \in Halves
    BY Values
  <2>2. ctx \in [source : Source, tag : Tags]
    BY <1>1, <2>1 DEF EncodeInit
  <2>3. picture \in [Halves -> Contents]
    BY Values DEF EncodeInit
  <2>4. timeStamp \in [Tags -> -1 .. Stale] /\ nFlags \in [Tags -> BOOLEAN]
    BY Values DEF EncodeInit
  <2> QED BY <1>1, <2>1, <2>2, <2>3, <2>4 DEF EncodeInit, CodecOK
<1>6. DeviceOK
  <2>1. 0 \in Tags /\ 0 \in Halves
    BY Values
  <2>2. job \in [source : Source, tag : Tags, half : Halves]
    BY <1>1, <2>1 DEF EncodeInit
  <2>3. stream \in [Halves -> Contents]
    BY Values DEF EncodeInit
  <2>4. enc \in [c : Contents, tag : Tags] /\ encodeFaults \in 0 .. MaxEncodeFaults
    BY <2>1, Values DEF EncodeInit
  <2> QED BY <2>1, <2>2, <2>3, <2>4 DEF EncodeInit, DeviceOK
<1> QED BY <1>2, <1>3, <1>4, <1>5, <1>6 DEF Typed

\* The first buffer of a queue and the rest.
LEMMA FirstOfQueue ==
  ASSUME NEW s \in Seq(Buffer), Len(s) > 0
  PROVE  /\ Head(s) \in Buffer /\ Tail(s) \in Seq(Buffer)
         /\ Len(Tail(s)) = Len(s) - 1 /\ Head(s) = s[1]
         /\ \A k \in 1 .. Len(s) - 1 : Tail(s)[k] = s[k + 1]
OBVIOUS

(* Every step of the encoder preserves its type. *)
LEMMA TypedStep == Typed /\ [EncodeNext]_encodeVars => Typed'
<1> SUFFICES ASSUME Typed, [EncodeNext]_encodeVars PROVE Typed'
  OBVIOUS
<1> USE DEF Typed
<1>0. ClientOK /\ DataOK /\ FlagsOK /\ CodecOK /\ DeviceOK
  OBVIOUS
<1>1. CASE SubmitEnd
  <2>1. ClientOK'
    BY <1>1, <1>0, Values DEF SubmitEnd, Submit, ClientOK, Buffer
  <2>2. DataOK'
    BY <1>1, <1>0 DEF SubmitEnd, Submit, DataOK
  <2>3. FlagsOK'
    BY <1>1, <1>0 DEF SubmitEnd, Submit, FlagsOK, flagVars, codecVars, threadVars
  <2>4. CodecOK'
    BY <1>1, <1>0 DEF SubmitEnd, Submit, CodecOK, codecVars
  <2>5. DeviceOK'
    BY <1>1, <1>0 DEF SubmitEnd, Submit, DeviceOK, threadVars, deviceVars
  <2> QED BY <2>1, <2>2, <2>3, <2>4, <2>5
<1>2. ASSUME NEW eos \in BOOLEAN, SubmitFrame(eos) PROVE Typed'
  <2>1. ClientOK'
    BY <1>2, <1>0, Values DEF SubmitFrame, Submit, ClientOK, Buffer
  <2>2. DataOK'
    BY <1>2, <1>0 DEF SubmitFrame, Submit, DataOK
  <2>3. FlagsOK'
    BY <1>2, <1>0 DEF SubmitFrame, Submit, FlagsOK, flagVars, codecVars, threadVars
  <2>4. CodecOK'
    BY <1>2, <1>0 DEF SubmitFrame, Submit, CodecOK, codecVars
  <2>5. DeviceOK'
    BY <1>2, <1>0 DEF SubmitFrame, Submit, DeviceOK, threadVars, deviceVars
  <2> QED BY <2>1, <2>2, <2>3, <2>4, <2>5
<1>3. CASE AskExit
  <2>1. ClientOK'
    BY <1>3, <1>0 DEF AskExit, ClientOK, clientVars, inputVars
  <2>2. DataOK'
    BY <1>3, <1>0 DEF AskExit, DataOK
  <2>3. FlagsOK'
    BY <1>3, <1>0 DEF AskExit, FlagsOK, Places, flagVars, codecVars
  <2>4. CodecOK'
    BY <1>3, <1>0 DEF AskExit, CodecOK, codecVars
  <2>5. DeviceOK'
    BY <1>3, <1>0 DEF AskExit, DeviceOK, deviceVars
  <2> QED BY <2>1, <2>2, <2>3, <2>4, <2>5
<1>4. CASE GetQueue
  <2>1. ClientOK'
    <3>1. tokens \in Nat /\ tokens > 0 /\ tokens' = tokens - 1 /\ queue \in Seq(Buffer)
      BY <1>4, <1>0 DEF GetQueue, ClientOK
    <3>2. Len(queue) \in Nat /\ Len(queue) >= tokens /\ Len(queue) <= Ahead
      BY <1>0, <3>1 DEF ClientOK
    <3>3. /\ queue' \in Seq(Buffer) /\ Len(queue') <= Ahead
          /\ tokens' <= Len(queue') /\ tokens' \in Nat
      <4>1. CASE cur.valid
        BY <1>4, <3>1, <3>2, <4>1 DEF GetQueue
      <4>2. CASE ~cur.valid
        <5>1. queue' = Tail(queue)
          BY <1>4, <4>2 DEF GetQueue
        <5>2. queue' \in Seq(Buffer) /\ Len(queue') = Len(queue) - 1
          BY <5>1, <3>1, <3>2, FirstOfQueue
        <5> QED BY <5>2, <3>1, <3>2, Values
      <4> QED BY <4>1, <4>2
    <3> QED BY <1>4, <1>0, <3>3 DEF GetQueue, ClientOK, clientVars
  <2>2. DataOK'
    <3>1. CASE cur.valid
      <4>1. inp' = NoData /\ cur' = cur /\ out' = out
        BY <1>4, <3>1 DEF GetQueue
      <4>2. NoData \in [len : 0 .. 1, time : 0 .. Stale, eos : BOOLEAN, n : 1 .. Stale]
        BY Values DEF NoData
      <4> QED BY <1>0, <4>1, <4>2 DEF DataOK
    <3>2. CASE ~cur.valid
      <4>1. queue \in Seq(Buffer) /\ Len(queue) > 0
        BY <1>4, <1>0 DEF GetQueue, ClientOK
      <4>2. cur' \in Buffer /\ inp' = inp /\ out' = out
        BY <1>4, <3>2, <4>1, FirstOfQueue DEF GetQueue
      <4> QED BY <1>0, <4>2 DEF DataOK, Buffer
    <3> QED BY <3>1, <3>2
  <2>3. FlagsOK'
    BY <1>4, <1>0 DEF GetQueue, FlagsOK, flagVars, codecVars, threadVars
  <2>4. CodecOK'
    BY <1>4, <1>0 DEF GetQueue, CodecOK, codecVars
  <2>5. DeviceOK'
    BY <1>4, <1>0 DEF GetQueue, DeviceOK, threadVars, deviceVars
  <2> QED BY <2>1, <2>2, <2>3, <2>4, <2>5
<1>5. CASE Preprocess
  <2>1. ClientOK'
    BY <1>5, <1>0 DEF Preprocess, Ends, ClientOK, clientVars, inputVars
  <2>2. DataOK'
    <3>1. cur.len \in 0 .. 1 /\ framed \in BOOLEAN /\ bUseFlagEOF \in BOOLEAN
      BY <1>0 DEF DataOK, ClientOK, FlagsOK
    <3>2. PictureSize(bUseFlagEOF \/ framed) \in 0 .. 1
      BY <3>1 DEF PictureSize
    <3> QED BY <1>5, <1>0, <3>2 DEF Preprocess, Ends, DataOK
  <2>3. FlagsOK'
    BY <1>5, <1>0 DEF Preprocess, Ends, FlagsOK, Places, codecVars, threadVars
  <2>4. CodecOK'
    <3>1. cur.n \in Contents /\ indexInputBuffer \in Halves
      BY <1>0, Values DEF DataOK, CodecOK
    <3>2. picture' \in [Halves -> Contents]
      BY <1>5, <1>0, <3>1 DEF Preprocess, CodecOK
    <3> QED BY <1>5, <1>0, <3>2 DEF Preprocess, CodecOK, codecVars
  <2>5. DeviceOK'
    BY <1>5, <1>0 DEF Preprocess, Ends, DeviceOK, threadVars, deviceVars
  <2> QED BY <2>1, <2>2, <2>3, <2>4, <2>5
<1>6. CASE SkipPreprocess
  <2>1. ClientOK'
    BY <1>6, <1>0 DEF SkipPreprocess, ClientOK, clientVars, inputVars
  <2>2. DataOK'
    BY <1>6, <1>0 DEF SkipPreprocess, DataOK
  <2>3. FlagsOK'
    BY <1>6, <1>0 DEF SkipPreprocess, FlagsOK, Places, flagVars, codecVars, threadVars
  <2>4. CodecOK'
    BY <1>6, <1>0 DEF SkipPreprocess, CodecOK, codecVars
  <2>5. DeviceOK'
    BY <1>6, <1>0 DEF SkipPreprocess, DeviceOK, threadVars, deviceVars
  <2> QED BY <2>1, <2>2, <2>3, <2>4, <2>5
<1>7. CASE SkipEncode
  <2>1. ClientOK'
    BY <1>7, <1>0 DEF SkipEncode, ClientOK, clientVars, inputVars
  <2>2. DataOK'
    BY <1>7, <1>0 DEF SkipEncode, DataOK
  <2>3. FlagsOK'
    BY <1>7, <1>0 DEF SkipEncode, FlagsOK, Places, flagVars, codecVars, threadVars
  <2>4. CodecOK'
    BY <1>7, <1>0 DEF SkipEncode, CodecOK, codecVars
  <2>5. DeviceOK'
    BY <1>7, <1>0 DEF SkipEncode, DeviceOK, threadVars, deviceVars
  <2> QED BY <2>1, <2>2, <2>3, <2>4, <2>5
<1>8. CASE Configure
  <2>1. ClientOK'
    BY <1>8, <1>0 DEF Configure, ClientOK, clientVars, inputVars
  <2>2. DataOK'
    <3>1. cur' = cur /\ inp' = inp
      BY <1>8 DEF Configure
    <3>2. \/ out' = out
          \/ out' = [len |-> 1, half |-> encode_cnt, time |-> 0, eos |-> FALSE,
                     split |-> FALSE]
      BY <1>8 DEF Configure, NoOutput
    <3>3. encode_cnt \in Halves
      BY <1>0 DEF DeviceOK
    <3>4. 0 \in -1 .. Stale /\ 1 \in 0 .. 1
      BY Values
    <3>5. [len |-> 1, half |-> encode_cnt, time |-> 0, eos |-> FALSE, split |-> FALSE]
            \in [len : 0 .. 1, half : Halves, time : -1 .. Stale, eos : BOOLEAN,
                 split : BOOLEAN]
      BY <3>3, <3>4
    <3> QED BY <1>0, <3>1, <3>2, <3>5 DEF DataOK
  <2>3. FlagsOK'
    BY <1>8, <1>0 DEF Configure, FlagsOK, Places, flagVars, threadVars
  <2>4. CodecOK'
    BY <1>8, <1>0 DEF Configure, CodecOK
  <2>5. DeviceOK'
    BY <1>8, <1>0, Values DEF Configure, NoOutput, DeviceOK, threadVars
  <2> QED BY <2>1, <2>2, <2>3, <2>4, <2>5
<1>9. CASE PassOn
  <2>1. ClientOK'
    BY <1>9, <1>0 DEF PassOn, ClientOK, clientVars, inputVars
  <2>2. DataOK'
    <3>1. cur' = cur /\ inp' = inp
      BY <1>9 DEF PassOn
    <3>2. out' = [len |-> 0, half |-> 0, time |-> inp.time, eos |-> inp.eos, split |-> FALSE]
      BY <1>9 DEF PassOn, NoOutput
    <3>3. inp.time \in -1 .. Stale /\ inp.eos \in BOOLEAN
      BY <1>0, Values DEF DataOK
    <3> QED BY <1>0, <3>1, <3>2, <3>3, Values DEF DataOK
  <2>3. FlagsOK'
    BY <1>9, <1>0 DEF PassOn, FlagsOK, Places, flagVars, codecVars, threadVars
  <2>4. CodecOK'
    BY <1>9, <1>0 DEF PassOn, CodecOK, codecVars
  <2>5. DeviceOK'
    BY <1>9, <1>0 DEF PassOn, DeviceOK, threadVars, deviceVars
  <2> QED BY <2>1, <2>2, <2>3, <2>4, <2>5
<1>10. CASE Begin
  <2>1. ClientOK'
    BY <1>10, <1>0 DEF Begin, Collect, ClientOK, clientVars, inputVars
  <2>2. DataOK'
    BY <1>10, <1>0 DEF Begin, Collect, DataOK
  <2>3. FlagsOK'
    BY <1>10, <1>0 DEF Begin, Collect, FlagsOK, Places, flagVars, threadVars
  <2>4. CodecOK'
    <3>1. /\ inp.eos \in BOOLEAN /\ inp.time \in -1 .. Stale /\ inp.n \in 1 .. Stale
          /\ getAllDelayBuffer \in BOOLEAN /\ mode \in {"picture", "address"}
          /\ indexInputBuffer \in Halves /\ indexTimestamp \in Tags
      BY <1>0 DEF DataOK, FlagsOK, ClientOK, CodecOK
    <3>2. source' \in Source
      <4> DEFINE own == (inp.eos \/ getAllDelayBuffer) \/ mode = "picture"
      <4>1. own \in BOOLEAN
        OBVIOUS
      <4>2. source' = [own |-> own, at |-> indexInputBuffer, n |-> inp.n]
        BY <1>10 DEF Begin
      <4> HIDE DEF own
      <4> QED BY <3>1, <4>1, <4>2 DEF Source
    <3>3. timeStamp' \in [Tags -> -1 .. Stale] /\ nFlags' \in [Tags -> BOOLEAN]
      <4>1. /\ timeStamp' = [timeStamp EXCEPT ![indexTimestamp] = inp.time]
            /\ nFlags' = [nFlags EXCEPT ![indexTimestamp] = inp.eos]
        BY <1>10 DEF Begin
      <4>2. timeStamp \in [Tags -> -1 .. Stale] /\ nFlags \in [Tags -> BOOLEAN]
        BY <1>0 DEF CodecOK
      <4> QED BY <3>1, <4>1, <4>2
    <3>4. UNCHANGED <<picture, indexInputBuffer, indexTimestamp, ctx>>
      BY <1>10 DEF Begin
    <3> QED BY <1>0, <3>2, <3>3, <3>4 DEF CodecOK
  <2>5. DeviceOK'
    BY <1>10, <1>0 DEF Begin, Collect, DeviceOK, threadVars, deviceVars
  <2> QED BY <2>1, <2>2, <2>3, <2>4, <2>5
<1>11. CASE Await
  <2>1. ClientOK'
    BY <1>11, <1>0 DEF Await, ClientOK, clientVars, inputVars
  <2>2. DataOK'
    BY <1>11, <1>0 DEF Await, DataOK
  <2>3. FlagsOK'
    BY <1>11, <1>0 DEF Await, FlagsOK, Places, flagVars
  <2>4. CodecOK'
    BY <1>11, <1>0 DEF Await, CodecOK
  <2>5. DeviceOK'
    BY <1>11, <1>0 DEF Await, DeviceOK, deviceVars
  <2> QED BY <2>1, <2>2, <2>3, <2>4, <2>5
<1>12. CASE Read
  <2>1. ClientOK'
    BY <1>12, <1>0 DEF Read, Drains, ClientOK, clientVars, inputVars
  <2>2. DataOK'
    <3> DEFINE eos == nFlags[enc.tag]
               time == timeStamp[enc.tag]
               len == IF eos THEN 0 ELSE 1
    <3>1. enc.tag \in Tags /\ encode_cnt \in Halves
      BY <1>0 DEF DeviceOK
    <3>2. eos \in BOOLEAN /\ time \in -1 .. Stale /\ len \in 0 .. 1
      BY <1>0, <3>1 DEF CodecOK
    <3>3. out' = [len |-> len, half |-> encode_cnt, time |-> time, eos |-> eos,
                  split |-> FALSE]
      BY <1>12 DEF Read, NoOutput
    <3> HIDE DEF eos, time, len
    <3>4. /\ cur' = cur
          /\ inp' \in [len : 0 .. 1, time : 0 .. Stale, eos : BOOLEAN, n : 1 .. Stale]
      BY <1>12, <1>0 DEF Read, DataOK
    <3> QED BY <1>0, <3>1, <3>2, <3>3, <3>4 DEF DataOK
  <2>3. FlagsOK'
    BY <1>12, <1>0 DEF Read, Drains, FlagsOK, Places, codecVars, threadVars
  <2>4. CodecOK'
    BY <1>12, <1>0 DEF Read, Drains, CodecOK, codecVars
  <2>5. DeviceOK'
    BY <1>12, <1>0, Values DEF Read, Drains, DeviceOK, threadVars, deviceVars
  <2> QED BY <2>1, <2>2, <2>3, <2>4, <2>5
<1>13. CASE Send
  <2>1. ClientOK'
    BY <1>13, <1>0 DEF Send, ClientOK, clientVars, inputVars
  <2>2. DataOK'
    BY <1>13, <1>0 DEF Send, DataOK
  <2>3. FlagsOK'
    BY <1>13, <1>0 DEF Send, FlagsOK, Places, flagVars
  <2>4. CodecOK'
    BY <1>13, <1>0, Values DEF Send, CodecOK
  <2>5. DeviceOK'
    BY <1>13, <1>0 DEF Send, DeviceOK, deviceVars
  <2> QED BY <2>1, <2>2, <2>3, <2>4, <2>5
<1>14. CASE Sent
  <2>1. ClientOK'
    BY <1>14, <1>0 DEF Sent, NextTag, ClientOK, clientVars, inputVars
  <2>2. DataOK'
    BY <1>14, <1>0 DEF Sent, NextTag, DataOK
  <2>3. FlagsOK'
    BY <1>14, <1>0 DEF Sent, NextTag, FlagsOK, Places, flagVars, threadVars
  <2>4. CodecOK'
    BY <1>14, <1>0, Values DEF Sent, NextTag, CodecOK
  <2>5. DeviceOK'
    BY <1>14, <1>0 DEF Sent, NextTag, DeviceOK, threadVars, deviceVars
  <2> QED BY <2>1, <2>2, <2>3, <2>4, <2>5
<1>15. CASE Done
  <2>1. ClientOK'
    BY <1>15, <1>0 DEF Done, NoInput, ClientOK, clientVars, inputVars
  <2>2. DataOK'
    BY <1>15, <1>0, Values DEF Done, NoInput, DataOK
  <2>3. FlagsOK'
    BY <1>15, <1>0 DEF Done, NoInput, FlagsOK, Places, codecVars, threadVars
  <2>4. CodecOK'
    BY <1>15, <1>0 DEF Done, NoInput, CodecOK, codecVars
  <2>5. DeviceOK'
    BY <1>15, <1>0 DEF Done, NoInput, DeviceOK, threadVars, deviceVars
  <2> QED BY <2>1, <2>2, <2>3, <2>4, <2>5
<1>16. CASE Deliver
  <2>1. ClientOK'
    <3> DEFINE piece == [c |-> stream[out.half], time |-> out.time]
    <3>1. piece \in [c : Contents, time : -1 .. Stale] /\ out.eos \in BOOLEAN
      BY <1>0 DEF DataOK, DeviceOK
    <3>2. got' = got \/ got' = Append(got, piece)
      BY <1>16 DEF Deliver
    <3> DEFINE E == [c : Contents, time : -1 .. Stale]
    <3>5. got \in Seq(E) /\ piece \in E
      BY <1>0, <3>1 DEF ClientOK
    <3> HIDE DEF piece, E
    <3>6. got' \in Seq(E)
      BY <3>2, <3>5
    <3>3. got' \in Seq([c : Contents, time : -1 .. Stale])
      BY <3>6 DEF E
    <3>4. eosOut' \in BOOLEAN
      BY <1>16 DEF Deliver
    <3> QED BY <1>16, <1>0, <3>3, <3>4 DEF Deliver, ClientOK, inputVars
  <2>2. DataOK'
    BY <1>16, <1>0, Values DEF Deliver, NoOutput, DataOK
  <2>3. FlagsOK'
    BY <1>16, <1>0 DEF Deliver, NoOutput, FlagsOK, Places, codecVars, threadVars
  <2>4. CodecOK'
    BY <1>16, <1>0 DEF Deliver, CodecOK, codecVars
  <2>5. DeviceOK'
    BY <1>16, <1>0 DEF Deliver, DeviceOK, threadVars, deviceVars
  <2> QED BY <2>1, <2>2, <2>3, <2>4, <2>5
<1>17. CASE DeliverPart
  <2>1. ClientOK'
    BY <1>17, <1>0 DEF DeliverPart, ClientOK, clientVars, inputVars
  <2>2. DataOK'
    BY <1>17, <1>0 DEF DeliverPart, DataOK
  <2>3. FlagsOK'
    BY <1>17, <1>0 DEF DeliverPart, FlagsOK, Places, codecVars, threadVars
  <2>4. CodecOK'
    BY <1>17, <1>0 DEF DeliverPart, CodecOK, codecVars
  <2>5. DeviceOK'
    BY <1>17, <1>0 DEF DeliverPart, DeviceOK, threadVars, deviceVars
  <2> QED BY <2>1, <2>2, <2>3, <2>4, <2>5
<1>18. CASE PostExit
  <2>1. ClientOK'
    BY <1>18, <1>0 DEF PostExit, ClientOK, clientVars, inputVars
  <2>2. DataOK'
    BY <1>18, <1>0 DEF PostExit, DataOK
  <2>3. FlagsOK'
    BY <1>18, <1>0 DEF PostExit, FlagsOK, Places, flagVars, codecVars
  <2>4. CodecOK'
    BY <1>18, <1>0 DEF PostExit, CodecOK, codecVars
  <2>5. DeviceOK'
    BY <1>18, <1>0 DEF PostExit, DeviceOK, deviceVars
  <2> QED BY <2>1, <2>2, <2>3, <2>4, <2>5
<1>19. CASE CloseDevice
  <2>1. ClientOK'
    BY <1>19, <1>0 DEF CloseDevice, ClientOK, clientVars, inputVars
  <2>2. DataOK'
    BY <1>19, <1>0 DEF CloseDevice, DataOK
  <2>3. FlagsOK'
    BY <1>19, <1>0 DEF CloseDevice, FlagsOK, Places, flagVars, codecVars, threadVars
  <2>4. CodecOK'
    BY <1>19, <1>0 DEF CloseDevice, CodecOK, codecVars
  <2>5. DeviceOK'
    BY <1>19, <1>0 DEF CloseDevice, DeviceOK, threadVars, deviceVars
  <2> QED BY <2>1, <2>2, <2>3, <2>4, <2>5
<1>20. CASE StartExe
  <2>1. ClientOK'
    BY <1>20, <1>0 DEF StartExe, ClientOK, clientVars, inputVars
  <2>2. DataOK'
    BY <1>20, <1>0 DEF StartExe, DataOK
  <2>3. FlagsOK'
    BY <1>20, <1>0 DEF StartExe, FlagsOK, flagVars, codecVars
  <2>4. CodecOK'
    BY <1>20, <1>0 DEF StartExe, CodecOK, codecVars
  <2>5. DeviceOK'
    <3>1. ctx.source \in Source /\ ctx.tag \in Tags /\ encode_cnt \in Halves
      BY <1>0 DEF CodecOK, DeviceOK
    <3>2. job' = [source |-> ctx.source, tag |-> ctx.tag, half |-> encode_cnt]
      BY <1>20 DEF StartExe
    <3>3. job' \in [source : Source, tag : Tags, half : Halves]
      BY <3>1, <3>2
    <3>4. stream' \in [Halves -> Contents]
      BY <1>20, <1>0, <3>1, Values DEF StartExe, DeviceOK
    <3>5. hEncFrameStart' \in Nat /\ epc' \in {"dead", "exe"}
      BY <1>20, <1>0 DEF StartExe, DeviceOK
    <3>6. UNCHANGED <<hEncFrameEnd, encode_cnt, enc, encodeFaults>>
      BY <1>20 DEF StartExe
    <3> QED BY <1>0, <3>3, <3>4, <3>5, <3>6 DEF DeviceOK
  <2> QED BY <2>1, <2>2, <2>3, <2>4, <2>5
<1>21. CASE Exe
  <2>1. ClientOK'
    BY <1>21, <1>0 DEF Exe, Encoded, ExeFails, Encodable, ClientOK, clientVars, inputVars
  <2>2. DataOK'
    BY <1>21, <1>0 DEF Exe, Encoded, ExeFails, Encodable, DataOK
  <2>3. FlagsOK'
    BY <1>21, <1>0 DEF Exe, Encoded, ExeFails, Encodable, FlagsOK, flagVars, codecVars
  <2>4. CodecOK'
    BY <1>21, <1>0 DEF Exe, Encoded, ExeFails, Encodable, CodecOK, codecVars
  <2>5. DeviceOK'
    <3>1. /\ job.half \in Halves /\ job.tag \in Tags
          /\ job.source.at \in Halves /\ job.source.n \in Contents
      BY <1>0, Values DEF DeviceOK, Source
    <3>2. Encodable \subseteq Contents
      <4>1. picture[job.source.at] \in Contents
        BY <1>0, <3>1 DEF CodecOK
      <4> QED BY <3>1, <4>1, Values DEF Encodable
    <3>3. /\ stream' \in [Halves -> Contents] /\ enc' \in [c : Contents, tag : Tags]
          /\ encodeFaults' \in 0 .. MaxEncodeFaults
      <4>1. CASE Encoded
        <5>1. PICK c \in Encodable : /\ stream' = [stream EXCEPT ![job.half] = c]
                                     /\ enc' = [c |-> c, tag |-> job.tag]
          BY <4>1 DEF Encoded
        <5>2. c \in Contents /\ encodeFaults' = encodeFaults
          BY <3>2, <4>1 DEF Encoded
        <5> QED BY <1>0, <3>1, <5>1, <5>2 DEF DeviceOK
      <4>2. CASE ExeFails
        BY <1>0, <4>2, Values DEF ExeFails, DeviceOK
      <4> QED BY <1>21, <4>1, <4>2 DEF Exe
    <3>4. epc' = "post" /\ UNCHANGED <<hEncFrameStart, hEncFrameEnd, encode_cnt, job>>
      BY <1>21 DEF Exe
    <3> QED BY <1>0, <3>3, <3>4 DEF DeviceOK
  <2> QED BY <2>1, <2>2, <2>3, <2>4, <2>5
<1>22. CASE PostEnd
  <2>1. ClientOK'
    BY <1>22, <1>0 DEF PostEnd, ClientOK, clientVars, inputVars
  <2>2. DataOK'
    BY <1>22, <1>0 DEF PostEnd, DataOK
  <2>3. FlagsOK'
    BY <1>22, <1>0 DEF PostEnd, FlagsOK, flagVars, codecVars
  <2>4. CodecOK'
    BY <1>22, <1>0 DEF PostEnd, CodecOK, codecVars
  <2>5. DeviceOK'
    BY <1>22, <1>0 DEF PostEnd, DeviceOK, deviceVars
  <2> QED BY <2>1, <2>2, <2>3, <2>4, <2>5
<1>23. CASE UNCHANGED encodeVars
  BY <1>23 DEF encodeVars, clientVars, inputVars, flagVars, codecVars, threadVars, deviceVars,
    ClientOK, DataOK, FlagsOK, CodecOK, DeviceOK
<1> QED
  BY <1>1, <1>2, <1>3, <1>4, <1>5, <1>6, <1>7, <1>8, <1>9, <1>10, <1>11, <1>12,
     <1>13, <1>14, <1>15, <1>16, <1>17, <1>18, <1>19, <1>20, <1>21, <1>22, <1>23
  DEF EncodeNext, EncodeClient, EncodeProcess, EncodeThread
-----------------------------------------------------------------------------
(* The hand-over. *)

\* No device call has failed, and the component is not being closed.
Calm == encodeFaults = 0 /\ ~bExitEncodeThread

\* The encodes that are asked for, run, or are done and not collected.
Running == IF epc \in {"exe", "post"} THEN 1 ELSE 0
Handed == hEncFrameStart + Running + hEncFrameEnd

Working == pc \in {"input", "encode", "done", "output"}

\* There is one encode from the moment that the thread is told to begin until its
\* outcome is waited for, and its picture is not in the buffer that is filled.
HandOver ==
  /\ returnCodec = "ok" /\ epc # "dead"
  /\ pc \in {"input", "encode", "await", "read", "send", "sent", "done", "output"}
  /\ ~bConfiguredMFC => bFirstFrame /\ pc \in {"input", "encode"} /\ ~remainOutputData
  /\ Working \/ pc = "await" => (bEncoderRun <=> ~bFirstFrame)
  /\ pc \in {"await", "read"} => ~bFirstFrame
  /\ pc \in {"read", "send", "sent"} => ~bEncoderRun
  /\ bEncoderRun \/ pc = "sent" => Handed = 1
  /\ ~(bEncoderRun \/ pc = "sent") => Handed = 0
  /\ Handed = 1 => ctx.source.at = Other(indexInputBuffer)
  /\ epc = "exe" => job.source = ctx.source /\ job.tag = ctx.tag /\ job.half = encode_cnt
  /\ pc \in {"await", "read", "send"} => source.at = indexInputBuffer

CalmHandOver == Calm => HandOver

\* The input port knows how long a picture is; where it does not, nothing of the
\* stream is ever encoded, and only the hand-over is of interest.
Sized == mode = "picture" \/ framed

\* The output port copies from the half that was written before.
HalvesInv == out.len > 0 => out.half = Other(encode_cnt)

\* Every step keeps the hand-over, as long as nothing fails.
LEMMA HandOverStep == Typed /\ CalmHandOver /\ [EncodeNext]_encodeVars => CalmHandOver'
<1> SUFFICES ASSUME Typed, CalmHandOver, [EncodeNext]_encodeVars PROVE CalmHandOver'
  OBVIOUS
<1>1. CASE SubmitEnd
  BY <1>1 DEF SubmitEnd, Submit, flagVars, codecVars, threadVars, deviceVars, CalmHandOver,
    Calm, HandOver, Handed, Running, Working
<1>2. ASSUME NEW eos \in BOOLEAN, SubmitFrame(eos) PROVE CalmHandOver'
  BY <1>2 DEF SubmitFrame, Submit, flagVars, codecVars, threadVars, deviceVars, CalmHandOver,
    Calm, HandOver, Handed, Running, Working
<1>3. CASE AskExit
  BY <1>3 DEF AskExit, CalmHandOver, Calm
<1>4. CASE GetQueue
  BY <1>4 DEF GetQueue, flagVars, codecVars, threadVars, deviceVars, CalmHandOver, Calm,
    HandOver, Handed, Running, Working
<1>5. CASE Preprocess
  BY <1>5 DEF Preprocess, Ends, codecVars, threadVars, deviceVars, CalmHandOver, Calm,
    HandOver, Handed, Running, Working
<1>6. CASE SkipPreprocess
  BY <1>6 DEF SkipPreprocess, flagVars, codecVars, threadVars, deviceVars, CalmHandOver, Calm,
    HandOver, Handed, Running, Working
<1>7. CASE SkipEncode

  <2>1. /\ pc = "input" /\ pc' = "output" /\ Working /\ Working'
        /\ UNCHANGED <<returnCodec, epc, bConfiguredMFC, bFirstFrame, bEncoderRun, source, job,
                       ctx, encode_cnt, hEncFrameStart, hEncFrameEnd, indexInputBuffer>>
        /\ Calm' <=> Calm
    BY <1>7 DEF SkipEncode, Working, Calm, codecVars, threadVars, deviceVars
  <2>2. Handed' = Handed
    BY <2>1 DEF Handed, Running
  <2>3. Calm => HandOver
    BY DEF CalmHandOver
  <2>4. HandOver => HandOver'
    <3> SUFFICES ASSUME HandOver PROVE HandOver'
      OBVIOUS
    <3>1. bConfiguredMFC
      BY <1>7, <2>1 DEF SkipEncode, HandOver
    <3> QED BY <2>1, <2>2, <3>1 DEF HandOver
  <2> QED BY <2>1, <2>3, <2>4 DEF CalmHandOver
<1>8. CASE Configure
  BY <1>8 DEF Configure, threadVars, Typed, CodecOK, DeviceOK, CalmHandOver, Calm, HandOver,
    Handed, Running, Working
<1>9. CASE PassOn
  BY <1>9 DEF PassOn, codecVars, threadVars, deviceVars, CalmHandOver, Calm, HandOver, Handed,
    Running, Working
<1>10. CASE Begin
  BY <1>10 DEF Begin, Collect, threadVars, deviceVars, CalmHandOver, Calm, HandOver, Handed,
    Running, Working
<1>11. CASE Await
  BY <1>11 DEF Await, deviceVars, Typed, CodecOK, DeviceOK, CalmHandOver, Calm, HandOver,
    Handed, Running, Working
<1>12. CASE Read
  BY <1>12 DEF Read, Drains, codecVars, threadVars, deviceVars, Typed, CodecOK, DeviceOK,
    CalmHandOver, Calm, HandOver, Handed, Running, Working
<1>13. CASE Send

  <2> SUFFICES ASSUME Calm' PROVE HandOver'
    BY DEF CalmHandOver
  <2>1. Calm /\ HandOver
    BY <1>13 DEF Send, Calm, CalmHandOver, deviceVars
  <2>2. /\ pc = "send" /\ pc' = "sent" /\ returnCodec' = "ok"
        /\ hEncFrameStart' = hEncFrameStart + 1
        /\ ctx' = [source |-> source, tag |-> indexTimestamp]
        /\ indexInputBuffer' = Other(indexInputBuffer)
        /\ UNCHANGED <<epc, hEncFrameEnd, bConfiguredMFC, bFirstFrame, bEncoderRun, source>>
    BY <1>13 DEF Send
  <2>3. hEncFrameStart = 0 /\ Running = 0 /\ hEncFrameEnd = 0 /\ epc = "wait"
    BY <2>1, <2>2 DEF HandOver, Handed, Running, Typed, DeviceOK
  <2>4. Handed' = 1
    BY <2>2, <2>3 DEF Handed, Running
  <2>5. ctx'.source.at = Other(indexInputBuffer')
    <3>1. source.at = indexInputBuffer /\ indexInputBuffer \in Halves
      BY <2>1, <2>2 DEF HandOver, Typed, CodecOK
    <3> QED BY <2>2, <3>1, Values DEF Other
  <2> QED BY <2>1, <2>2, <2>3, <2>4, <2>5 DEF HandOver, Working
<1>14. CASE Sent
  BY <1>14 DEF Sent, NextTag, threadVars, deviceVars, CalmHandOver, Calm, HandOver, Handed,
    Running, Working
<1>15. CASE Done
  BY <1>15 DEF Done, NoInput, codecVars, threadVars, deviceVars, CalmHandOver, Calm, HandOver,
    Handed, Running, Working
<1>16. CASE Deliver
  BY <1>16 DEF Deliver, codecVars, threadVars, deviceVars, CalmHandOver, Calm, HandOver,
    Handed, Running, Working
<1>17. CASE DeliverPart
  BY <1>17 DEF DeliverPart, codecVars, threadVars, deviceVars, CalmHandOver, Calm, HandOver,
    Handed, Running, Working
<1>18. CASE PostExit
  BY <1>18 DEF PostExit, deviceVars, CalmHandOver, Calm, HandOver, Handed, Running, Working
<1>19. CASE CloseDevice
  BY <1>19 DEF CloseDevice, threadVars, deviceVars, CalmHandOver, Calm, HandOver, Handed,
    Running, Working
<1>20. CASE StartExe
  BY <1>20 DEF StartExe, codecVars, Typed, CodecOK, DeviceOK, CalmHandOver, Calm, HandOver,
    Handed, Running, Working
<1>21. CASE Exe
  BY <1>21 DEF Exe, Encoded, ExeFails, Encodable, codecVars, Typed, CodecOK, DeviceOK,
    CalmHandOver, Calm, HandOver, Handed, Running, Working
<1>22. CASE PostEnd
  BY <1>22 DEF PostEnd, codecVars, deviceVars, Typed, CodecOK, DeviceOK, CalmHandOver, Calm,
    HandOver, Handed, Running, Working
<1>23. CASE UNCHANGED encodeVars
  BY <1>23 DEF encodeVars, flagVars, codecVars, threadVars, deviceVars, CalmHandOver, Calm,
    HandOver, Handed, Running, Working
<1> QED
  BY <1>1, <1>2, <1>3, <1>4, <1>5, <1>6, <1>7, <1>8, <1>9, <1>10, <1>11, <1>12, <1>13,
    <1>14, <1>15, <1>16, <1>17, <1>18, <1>19, <1>20, <1>21, <1>22, <1>23 DEF EncodeNext,
    EncodeClient, EncodeProcess, EncodeThread

\* encode_cnt turns with every piece that is to be delivered.
LEMMA HalvesStep == Typed /\ HalvesInv /\ [EncodeNext]_encodeVars => HalvesInv'
<1> SUFFICES ASSUME Typed, HalvesInv, [EncodeNext]_encodeVars PROVE HalvesInv'
  OBVIOUS
<1>1. CASE SubmitEnd
  BY <1>1 DEF SubmitEnd, Submit, HalvesInv
<1>2. ASSUME NEW eos \in BOOLEAN, SubmitFrame(eos) PROVE HalvesInv'
  BY <1>2 DEF SubmitFrame, Submit, HalvesInv
<1>3. CASE AskExit
  BY <1>3 DEF AskExit, deviceVars, HalvesInv
<1>4. CASE GetQueue
  BY <1>4 DEF GetQueue, HalvesInv
<1>5. CASE Preprocess
  BY <1>5 DEF Preprocess, Ends, HalvesInv
<1>6. CASE SkipPreprocess
  BY <1>6 DEF SkipPreprocess, deviceVars, HalvesInv
<1>7. CASE SkipEncode
  BY <1>7 DEF SkipEncode, deviceVars, HalvesInv
<1>8. CASE Configure
  BY <1>8, Values DEF Configure, NoOutput, Typed, DeviceOK, HalvesInv
<1>9. CASE PassOn
  BY <1>9 DEF PassOn, NoOutput, HalvesInv
<1>10. CASE Begin
  BY <1>10 DEF Begin, Collect, HalvesInv
<1>11. CASE Await
  BY <1>11 DEF Await, deviceVars, HalvesInv
<1>12. CASE Read
  BY <1>12, Values DEF Read, Drains, Typed, DeviceOK, HalvesInv
<1>13. CASE Send
  BY <1>13 DEF Send, deviceVars, HalvesInv
<1>14. CASE Sent
  BY <1>14 DEF Sent, NextTag, HalvesInv
<1>15. CASE Done
  BY <1>15 DEF Done, NoInput, HalvesInv
<1>16. CASE Deliver
  BY <1>16 DEF Deliver, NoOutput, HalvesInv
<1>17. CASE DeliverPart
  BY <1>17 DEF DeliverPart, deviceVars, HalvesInv
<1>18. CASE PostExit
  BY <1>18 DEF PostExit, deviceVars, HalvesInv
<1>19. CASE CloseDevice
  BY <1>19 DEF CloseDevice, deviceVars, HalvesInv
<1>20. CASE StartExe
  BY <1>20 DEF StartExe, codecVars, HalvesInv
<1>21. CASE Exe
  BY <1>21 DEF Exe, Encoded, ExeFails, Encodable, HalvesInv
<1>22. CASE PostEnd
  BY <1>22 DEF PostEnd, deviceVars, HalvesInv
<1>23. CASE UNCHANGED encodeVars
  BY <1>23 DEF encodeVars, deviceVars, HalvesInv
<1> QED
  BY <1>1, <1>2, <1>3, <1>4, <1>5, <1>6, <1>7, <1>8, <1>9, <1>10, <1>11, <1>12, <1>13,
    <1>14, <1>15, <1>16, <1>17, <1>18, <1>19, <1>20, <1>21, <1>22, <1>23 DEF EncodeNext,
    EncodeClient, EncodeProcess, EncodeThread
-----------------------------------------------------------------------------
(* The pictures on their way to the encoder. *)

\* The component is being closed.
Closing == bExitEncodeThread <=> pc \in {"stop", "join", "closed"}

\* What has been queued so far, and what of it has left the queue: the pictures
\* in the order of their numbers, and the end of the stream.
Total == IF pos = Frames + 2 THEN fed + 1 ELSE fed
Taken == Total - Len(queue)

\* The e-th buffer that the client queues holds picture e, as long as those it
\* sent before the end of the stream number at least e, and ends the stream else.
Element(b, e, sent) ==
  /\ e \in 1 .. sent + 1
  /\ b.valid /\ (b.eos <=> e = sent + 1)
  /\ b.len = 1 => b.n = e
  /\ b.len = 0 => e = sent + 1

QueueInv == \A k \in 1 .. Len(queue) : Element(queue[k], Taken + k, fed)

\* A picture that is queued stays where it is when the client sends another.
LEMMA ElementKept ==
  ASSUME NEW b, NEW e \in Int, NEW sent \in Nat, Element(b, e, sent), e <= sent
  PROVE  Element(b, e, sent + 1)
BY DEF Element

\* The client's and the port's counts.
LEMMA Numbers ==
  ASSUME Typed
  PROVE  /\ fed \in Nat /\ pos \in Nat /\ Len(queue) \in Nat /\ Len(got) \in Nat
         /\ Total \in Nat /\ Taken \in Int /\ Taken <= Total /\ Total <= fed + 1
         /\ pos <= Frames + 1 => Total = fed /\ pos = fed + 1
         /\ Taken = fed + 1 => pos = Frames + 2 /\ queue = <<>>
BY Values DEF Typed, ClientOK, Total, Taken

\* The steps that the queue and what the client has sent depend on.
LEMMA SubmitFrameStep ==
  ASSUME Typed, NEW eos \in BOOLEAN, SubmitFrame(eos)
  PROVE  /\ ~bExitEncodeThread /\ pos = fed + 1 /\ fed + 1 <= Frames /\ Taken <= fed
         /\ pos <= Frames + 1
         /\ queue' = Append(queue, [valid |-> TRUE, len |-> 1, n |-> fed + 1, eos |-> eos])
         /\ Len(queue') = Len(queue) + 1 /\ Total' = fed + 1 /\ Taken' = Taken
         /\ fed' = IF eos THEN fed ELSE fed + 1
<1>1. /\ fed \in Nat /\ pos \in Nat /\ Len(queue) \in Nat /\ queue \in Seq(Buffer)
      /\ pos <= Frames + 1 => pos = fed + 1
  BY DEF Typed, ClientOK
<1>2. pos \in 1 .. Frames /\ pos = fed + 1 /\ ~bExitEncodeThread
  BY <1>1, Values DEF SubmitFrame
<1>3. queue' = Append(queue, [valid |-> TRUE, len |-> 1, n |-> fed + 1, eos |-> eos])
  BY <1>2 DEF SubmitFrame, Submit
<1>4. Len(queue') = Len(queue) + 1
  BY <1>1, <1>3
<1>5. /\ fed' = IF eos THEN fed ELSE fed + 1
      /\ pos' = IF eos THEN Frames + 2 ELSE pos + 1
  BY DEF SubmitFrame
<1>6. Total = fed /\ Total' = fed + 1
  BY <1>1, <1>2, <1>5, Values DEF Total
<1>7. Taken <= fed /\ Taken' = Taken
  BY <1>1, <1>4, <1>6 DEF Taken
<1> QED BY <1>1, <1>2, <1>3, <1>4, <1>5, <1>6, <1>7, Values

LEMMA SubmitEndStep ==
  ASSUME Typed, SubmitEnd
  PROVE  /\ ~bExitEncodeThread /\ Taken <= fed
         /\ queue' = Append(queue, [valid |-> TRUE, len |-> 0, n |-> Stale, eos |-> TRUE])
         /\ Len(queue') = Len(queue) + 1 /\ Total' = fed + 1 /\ Taken' = Taken
         /\ fed' = fed /\ pos' = Frames + 2
<1>1. /\ fed \in Nat /\ pos \in Nat /\ Len(queue) \in Nat /\ queue \in Seq(Buffer)
  BY DEF Typed, ClientOK
<1>2. pos <= Frames + 1 /\ ~bExitEncodeThread /\ fed' = fed /\ pos' = Frames + 2
  BY <1>1, Values DEF SubmitEnd
<1>3. queue' = Append(queue, [valid |-> TRUE, len |-> 0, n |-> Stale, eos |-> TRUE])
  BY <1>2 DEF SubmitEnd, Submit
<1>4. Len(queue') = Len(queue) + 1
  BY <1>1, <1>3
<1>6. Total = fed /\ Total' = fed + 1
  BY <1>1, <1>2, Values DEF Total
<1>7. Taken <= fed /\ Taken' = Taken
  BY <1>1, <1>4, <1>6 DEF Taken
<1> QED BY <1>1, <1>2, <1>3, <1>4, <1>6, <1>7

\* The step that takes a buffer from the queue.
LEMMA GetQueueStep ==
  ASSUME Typed, GetQueue, ~cur.valid
  PROVE  /\ queue \in Seq(Buffer) /\ Len(queue) > 0
         /\ cur' = queue[1] /\ cur' \in Buffer
         /\ queue' = Tail(queue) /\ Len(queue') = Len(queue) - 1
         /\ \A k \in 1 .. Len(queue') : queue'[k] = queue[k + 1]
         /\ Taken' = Taken + 1 /\ Total' = Total /\ fed' = fed /\ pos' = pos /\ inp' = inp
<1>1. /\ queue \in Seq(Buffer) /\ Len(queue) \in Nat /\ tokens \in Nat /\ tokens <= Len(queue)
      /\ tokens > 0 /\ Total \in Nat
  BY Numbers DEF Typed, ClientOK, GetQueue
<1>2. /\ cur' = Head(queue) /\ queue' = Tail(queue) /\ inp' = inp /\ fed' = fed /\ pos' = pos
  BY DEF GetQueue, clientVars
<1>3. Len(queue) > 0
  BY <1>1
<1>4. Total' = Total
  BY <1>2 DEF Total
<1>5. /\ cur' = queue[1] /\ cur' \in Buffer /\ Len(queue') = Len(queue) - 1
      /\ \A k \in 1 .. Len(queue') : queue'[k] = queue[k + 1]
  BY <1>1, <1>2, <1>3, FirstOfQueue
<1>6. Taken' = Taken + 1
  BY <1>1, <1>4, <1>5 DEF Taken
<1> QED BY <1>1, <1>2, <1>3, <1>4, <1>5, <1>6

\* No other step touches the queue.
LEMMA OtherSteps ==
  ASSUME [EncodeNext]_encodeVars
  PROVE  \/ \E eos \in BOOLEAN : SubmitFrame(eos)
         \/ SubmitEnd
         \/ GetQueue /\ ~cur.valid
         \/ UNCHANGED <<queue, pos, fed, Total, Taken>>
<1>1. CASE GetQueue
  BY <1>1 DEF GetQueue, clientVars, Total, Taken
<1>2. CASE AskExit
  BY <1>2 DEF AskExit, clientVars, inputVars, Total, Taken
<1>3. CASE Preprocess
  BY <1>3 DEF Preprocess, clientVars, inputVars, Total, Taken
<1>4. CASE SkipPreprocess
  BY <1>4 DEF SkipPreprocess, clientVars, inputVars, Total, Taken
<1>5. CASE SkipEncode
  BY <1>5 DEF SkipEncode, clientVars, inputVars, Total, Taken
<1>6. CASE Configure
  BY <1>6 DEF Configure, clientVars, inputVars, Total, Taken
<1>7. CASE PassOn
  BY <1>7 DEF PassOn, clientVars, inputVars, Total, Taken
<1>8. CASE Begin
  BY <1>8 DEF Begin, clientVars, inputVars, Total, Taken
<1>9. CASE Await
  BY <1>9 DEF Await, clientVars, inputVars, Total, Taken
<1>10. CASE Read
  BY <1>10 DEF Read, clientVars, inputVars, Total, Taken
<1>11. CASE Send
  BY <1>11 DEF Send, clientVars, inputVars, Total, Taken
<1>12. CASE Sent
  BY <1>12 DEF Sent, clientVars, inputVars, Total, Taken
<1>13. CASE Done
  BY <1>13 DEF Done, clientVars, inputVars, Total, Taken
<1>14. CASE Deliver
  BY <1>14 DEF Deliver, inputVars, Total, Taken
<1>15. CASE DeliverPart
  BY <1>15 DEF DeliverPart, clientVars, inputVars, Total, Taken
<1>16. CASE PostExit
  BY <1>16 DEF PostExit, clientVars, inputVars, Total, Taken
<1>17. CASE CloseDevice
  BY <1>17 DEF CloseDevice, clientVars, inputVars, Total, Taken
<1>18. CASE StartExe
  BY <1>18 DEF StartExe, clientVars, inputVars, Total, Taken
<1>19. CASE Exe
  BY <1>19 DEF Exe, clientVars, inputVars, Total, Taken
<1>20. CASE PostEnd
  BY <1>20 DEF PostEnd, clientVars, inputVars, Total, Taken
<1>21. CASE UNCHANGED encodeVars
  BY <1>21 DEF encodeVars, clientVars, inputVars, Total, Taken
<1> QED
  BY <1>1, <1>2, <1>3, <1>4, <1>5, <1>6, <1>7, <1>8, <1>9, <1>10, <1>11, <1>12, <1>13,
    <1>14, <1>15, <1>16, <1>17, <1>18, <1>19, <1>20, <1>21 DEF EncodeNext, EncodeClient,
    EncodeProcess, EncodeThread

\* The queue holds the next elements of the stream, in their order.
LEMMA QueueStep == Typed /\ QueueInv /\ [EncodeNext]_encodeVars => QueueInv'
<1> SUFFICES ASSUME Typed, QueueInv, [EncodeNext]_encodeVars PROVE QueueInv'
  OBVIOUS
<1>0. fed \in Nat /\ Len(queue) \in Nat /\ Taken \in Int /\ queue \in Seq(Buffer)
  BY Numbers DEF Typed, ClientOK
<1>1. ASSUME NEW eos \in BOOLEAN, SubmitFrame(eos) PROVE QueueInv'
  <2> SUFFICES ASSUME NEW k \in 1 .. Len(queue') PROVE Element(queue'[k], Taken' + k, fed')
    BY DEF QueueInv
  <2> DEFINE b == [valid |-> TRUE, len |-> 1, n |-> fed + 1, eos |-> eos]
  <2>1. /\ queue' = Append(queue, b) /\ Len(queue') = Len(queue) + 1 /\ Taken' = Taken
        /\ Taken + Len(queue) = fed /\ fed' = IF eos THEN fed ELSE fed + 1
    <3>1. pos <= Frames + 1 /\ fed' = (IF eos THEN fed ELSE fed + 1)
      BY <1>1, SubmitFrameStep
    <3>2. Total = fed
      BY <3>1, Numbers
    <3> QED BY <1>0, <1>1, <3>1, <3>2, SubmitFrameStep DEF Taken
  <2>2. CASE k = Len(queue) + 1
    <3>1. queue'[k] = b
      BY <1>0, <2>1, <2>2
    <3>2. Element(b, fed + 1, fed')
      BY <1>0, <2>1 DEF Element
    <3> QED BY <1>0, <2>1, <2>2, <3>1, <3>2
  <2>3. CASE k \in 1 .. Len(queue)
    <3>1. queue'[k] = queue[k]
      BY <1>0, <2>1, <2>3
    <3>2. Element(queue[k], Taken + k, fed)
      BY <2>3 DEF QueueInv
    <3>3. Taken + k \in Int /\ Taken + k <= fed
      BY <1>0, <2>1, <2>3
    <3>4. Element(queue[k], Taken + k, fed')
      BY <1>0, <2>1, <3>2, <3>3, ElementKept
    <3> QED BY <2>1, <3>1, <3>4
  <2> QED BY <1>0, <2>1, <2>2, <2>3
<1>2. CASE SubmitEnd
  <2> SUFFICES ASSUME NEW k \in 1 .. Len(queue') PROVE Element(queue'[k], Taken' + k, fed')
    BY DEF QueueInv
  <2> DEFINE b == [valid |-> TRUE, len |-> 0, n |-> Stale, eos |-> TRUE]
  <2>1. /\ queue' = Append(queue, b) /\ Len(queue') = Len(queue) + 1 /\ Taken' = Taken
        /\ Taken + Len(queue) = fed /\ fed' = fed
    BY <1>0, <1>2, SubmitEndStep DEF Total, Taken
  <2>2. CASE k = Len(queue) + 1
    <3>1. queue'[k] = b
      BY <1>0, <2>1, <2>2
    <3>2. Element(b, fed + 1, fed')
      BY <1>0, <2>1 DEF Element
    <3> QED BY <1>0, <2>1, <2>2, <3>1, <3>2
  <2>3. CASE k \in 1 .. Len(queue)
    BY <1>0, <2>1, <2>3 DEF QueueInv
  <2> QED BY <1>0, <2>1, <2>2, <2>3
<1>3. CASE GetQueue /\ ~cur.valid
  <2> SUFFICES ASSUME NEW k \in 1 .. Len(queue') PROVE Element(queue'[k], Taken' + k, fed')
    BY DEF QueueInv
  <2>1. /\ queue'[k] = queue[k + 1] /\ Len(queue') = Len(queue) - 1
        /\ Taken' = Taken + 1 /\ fed' = fed
    BY <1>3, GetQueueStep
  <2>2. k + 1 \in 1 .. Len(queue) /\ Taken' + k = Taken + (k + 1)
    BY <1>0, <2>1
  <2> QED BY <2>1, <2>2 DEF QueueInv
<1>4. CASE UNCHANGED <<queue, pos, fed, Total, Taken>>
  BY <1>4 DEF QueueInv
<1> QED BY <1>1, <1>2, <1>3, <1>4, OtherSteps

\* The flag and the place of the buffer process thread go together.
LEMMA ClosingStep == Typed /\ Closing /\ [EncodeNext]_encodeVars => Closing'
<1> SUFFICES ASSUME Typed, Closing, [EncodeNext]_encodeVars PROVE Closing'
  OBVIOUS
<1>1. CASE SubmitEnd
  BY <1>1 DEF SubmitEnd, Submit, threadVars, Closing
<1>2. ASSUME NEW eos \in BOOLEAN, SubmitFrame(eos) PROVE Closing'
  BY <1>2 DEF SubmitFrame, Submit, threadVars, Closing
<1>3. CASE AskExit
  BY <1>3 DEF AskExit, deviceVars, Closing
<1>4. CASE GetQueue
  BY <1>4 DEF GetQueue, threadVars, Closing
<1>5. CASE Preprocess
  BY <1>5 DEF Preprocess, Ends, threadVars, Closing
<1>6. CASE SkipPreprocess
  BY <1>6 DEF SkipPreprocess, threadVars, Closing
<1>7. CASE SkipEncode
  BY <1>7 DEF SkipEncode, threadVars, Closing
<1>8. CASE Configure
  BY <1>8 DEF Configure, threadVars, Closing
<1>9. CASE PassOn
  BY <1>9 DEF PassOn, threadVars, Closing
<1>10. CASE Begin
  BY <1>10 DEF Begin, Collect, threadVars, Closing
<1>11. CASE Await
  BY <1>11 DEF Await, deviceVars, Closing
<1>12. CASE Read
  BY <1>12 DEF Read, Drains, threadVars, Closing
<1>13. CASE Send
  BY <1>13 DEF Send, deviceVars, Closing
<1>14. CASE Sent
  BY <1>14 DEF Sent, NextTag, threadVars, Closing
<1>15. CASE Done
  BY <1>15 DEF Done, NoInput, threadVars, Closing
<1>16. CASE Deliver
  BY <1>16 DEF Deliver, threadVars, Closing
<1>17. CASE DeliverPart
  BY <1>17 DEF DeliverPart, threadVars, Closing
<1>18. CASE PostExit
  BY <1>18 DEF PostExit, deviceVars, Closing
<1>19. CASE CloseDevice
  BY <1>19 DEF CloseDevice, threadVars, Closing
<1>20. CASE StartExe
  BY <1>20 DEF StartExe, codecVars, Closing
<1>21. CASE Exe
  BY <1>21 DEF Exe, Encoded, ExeFails, Encodable, Closing
<1>22. CASE PostEnd
  BY <1>22 DEF PostEnd, deviceVars, Closing
<1>23. CASE UNCHANGED encodeVars
  BY <1>23 DEF encodeVars, threadVars, Closing
<1> QED
  BY <1>1, <1>2, <1>3, <1>4, <1>5, <1>6, <1>7, <1>8, <1>9, <1>10, <1>11, <1>12, <1>13,
    <1>14, <1>15, <1>16, <1>17, <1>18, <1>19, <1>20, <1>21, <1>22, <1>23 DEF EncodeNext,
    EncodeClient, EncodeProcess, EncodeThread
-----------------------------------------------------------------------------
(* The input and the output of the two ports. *)

\* What is at hand of the input and of the output at each place of the buffer
\* process thread.  The buffer that it takes a picture from has the next number.
InputInv ==
  /\ ~bSaveFlagEOS /\ result # "error"
  /\ bUseFlagEOF => framed
  /\ pc \in {"input", "output"} /\ ~reInputData => inp.len = 0
  /\ pc # "input" \/ ~cur.valid => cur.len = 0
  /\ pc = "output" \/ (pc = "input" /\ (reInputData \/ remainOutputData)) => ~cur.valid
  /\ pc \in {"input", "output"} => (reInputData <=> result = "yet")
  /\ pc \in {"await", "read"} => inp.len = 1
  /\ remainOutputData => out.len = 1 /\ pc \in {"input", "output"}
  /\ out.split => remainOutputData
  /\ pc \in {"encode", "await", "read"} \/ (pc = "input" /\ ~remainOutputData) => out.len = 0

CurInv == pc = "input" /\ cur.valid => Element(cur, Taken, fed)

\* Where the input port knows how long a picture is, it takes all there is at hand.
LEMMA PreprocessTakes ==
  ASSUME Preprocess, Sized, inp.len = 0, cur.len \in 0 .. 1, ~bSaveFlagEOS
  PROVE  /\ inp'.len = IF bUseFlagEOF \/ framed THEN 1 ELSE cur.len
         /\ inp'.time = cur.n /\ inp'.n = cur.n
         /\ inp'.eos <=> (cur.eos \/ ((bUseFlagEOF \/ framed) /\ cur.len = 0))
         /\ cur' = [cur EXCEPT !.len = 0] /\ ~bSaveFlagEOS'
<1> DEFINE useEOF == bUseFlagEOF \/ framed
           size == PictureSize(useEOF)
           all == cur.len = 0 \/ (inp.len = 0 /\ size > 0)
           eos == Ends(cur.eos \/ (useEOF /\ cur.len = 0))
<1>1. size = IF useEOF THEN 1 ELSE cur.len
  <2>1. CASE mode = "picture"
    BY <2>1 DEF PictureSize
  <2>2. CASE framed
    BY <2>2 DEF PictureSize
  <2> QED BY <2>1, <2>2 DEF Sized
<1>2. all
  BY <1>1
<1>3. eos <=> (cur.eos \/ (useEOF /\ cur.len = 0))
  BY DEF Ends
<1>4. /\ inp' = [len |-> IF inp.len = 0 THEN size ELSE inp.len,
                 time |-> IF inp.len = 0 THEN cur.n ELSE inp.time, n |-> cur.n,
                 eos |-> all /\ eos]
      /\ cur' = [cur EXCEPT !.len = IF all THEN 0 ELSE @]
      /\ bSaveFlagEOS' = (~all /\ eos)
  BY DEF Preprocess
<1>5. inp'.len = size /\ inp'.time = cur.n /\ inp'.n = cur.n
  <2> HIDE DEF all, size, eos
  <2> QED BY <1>4
<1>6. /\ inp'.eos <=> (all /\ eos)
      /\ cur' = [cur EXCEPT !.len = IF all THEN 0 ELSE @]
      /\ bSaveFlagEOS' <=> (~all /\ eos)
  <2> HIDE DEF all, size, eos
  <2> QED BY <1>4
<1>7. cur' = [cur EXCEPT !.len = 0]
  <2> HIDE DEF all, size, eos
  <2> QED BY <1>2, <1>6
<1>8. (inp'.eos <=> (cur.eos \/ (useEOF /\ cur.len = 0))) /\ ~bSaveFlagEOS'
  <2> HIDE DEF all, size, eos
  <2> QED BY <1>2, <1>3, <1>6
<1> QED BY <1>1, <1>5, <1>7, <1>8


\* Nothing is taken from a buffer while there is an input to be encoded again or an
\* output to be delivered, and an input that was encoded is gone.
LEMMA InputStep ==
  Typed /\ HandOver /\ InputInv /\ Sized /\ Calm' /\ [EncodeNext]_encodeVars
    => InputInv'
<1> SUFFICES ASSUME Typed, HandOver, InputInv, Sized, Calm', [EncodeNext]_encodeVars
             PROVE  InputInv'
  OBVIOUS
<1>1. CASE SubmitEnd
  BY <1>1 DEF SubmitEnd, Submit, flagVars, InputInv
<1>2. ASSUME NEW eos \in BOOLEAN, SubmitFrame(eos) PROVE InputInv'
  BY <1>2 DEF SubmitFrame, Submit, flagVars, InputInv
<1>3. CASE AskExit
  BY <1>3 DEF AskExit, deviceVars, Calm
<1>4. CASE GetQueue

  <2>1. /\ ~cur.valid /\ inp.len = 0 /\ inp' = inp
        /\ UNCHANGED <<out, flagVars, pc, result, framed>>
    BY <1>4 DEF GetQueue, InputInv, Overflows, clientVars
  <2>2. cur'.valid
    BY <1>4, <2>1, GetQueueStep DEF Buffer
  <2>3. pc = "input" /\ ~reInputData /\ ~remainOutputData
    BY <1>4 DEF GetQueue
  <2> QED BY <2>1, <2>2, <2>3 DEF InputInv, flagVars
<1>5. CASE Preprocess
  <2>1. inp.len = 0 /\ cur.len \in 0 .. 1 /\ (framed \in BOOLEAN) /\ bUseFlagEOF \in BOOLEAN
    BY <1>5 DEF Preprocess, InputInv, Typed, DataOK, ClientOK, FlagsOK
  <2>2. ~bSaveFlagEOS
    BY DEF InputInv
  <2>3. cur'.len = 0 /\ ~bSaveFlagEOS'
    BY <1>5, <2>1, <2>2, PreprocessTakes DEF Typed, DataOK, Buffer
  <2> QED BY <1>5, <2>1, <2>2, <2>3 DEF Preprocess, clientVars, InputInv
<1>6. CASE SkipPreprocess
  BY <1>6 DEF SkipPreprocess, clientVars, flagVars, InputInv
<1>7. CASE SkipEncode
  BY <1>7 DEF SkipEncode, clientVars, flagVars, InputInv
<1>8. CASE Configure

  <2>1. result' = "yet" /\ out'.split = FALSE /\ pc = "encode" /\ pc' = "done"
    <3>1. encodeFaults' = 0 /\ encodeFaults \in Nat
      BY Values DEF Calm, Typed, DeviceOK
    <3>2. encodeFaults' # encodeFaults + 1
      BY <3>1
    <3> QED BY <1>8, <3>2 DEF Configure, NoOutput
  <2>2. UNCHANGED <<cur, inp, flagVars, framed>>
    BY <1>8 DEF Configure, clientVars
  <2> QED BY <2>1, <2>2 DEF InputInv, flagVars
<1>9. CASE PassOn
  BY <1>9 DEF PassOn, NoOutput, clientVars, flagVars, InputInv
<1>10. CASE Begin
  BY <1>10 DEF Begin, Collect, clientVars, flagVars, Typed, ClientOK, DataOK, HandOver,
    InputInv
<1>11. CASE Await
  BY <1>11 DEF Await, clientVars, flagVars, InputInv
<1>12. CASE Read
  BY <1>12 DEF Read, Drains, NoOutput, clientVars, InputInv
<1>13. CASE Send
  BY <1>13 DEF Send, clientVars, flagVars, InputInv
<1>14. CASE Sent
  BY <1>14 DEF Sent, NextTag, clientVars, flagVars, InputInv
<1>15. CASE Done
  BY <1>15 DEF Done, NoInput, clientVars, Typed, ClientOK, DataOK, FlagsOK, InputInv
<1>16. CASE Deliver
  BY <1>16 DEF Deliver, NoOutput, InputInv
<1>17. CASE DeliverPart
  BY <1>17 DEF DeliverPart, clientVars, Typed, ClientOK, DataOK, InputInv
<1>18. CASE PostExit
  BY <1>18 DEF PostExit, clientVars, flagVars, InputInv
<1>19. CASE CloseDevice
  BY <1>19 DEF CloseDevice, clientVars, flagVars, InputInv
<1>20. CASE StartExe
  BY <1>20 DEF StartExe, clientVars, flagVars, InputInv
<1>21. CASE Exe
  BY <1>21 DEF Exe, Encoded, ExeFails, Encodable, clientVars, flagVars, InputInv
<1>22. CASE PostEnd
  BY <1>22 DEF PostEnd, clientVars, flagVars, InputInv
<1>23. CASE UNCHANGED encodeVars
  BY <1>23 DEF encodeVars, clientVars, flagVars, InputInv
<1> QED
  BY <1>1, <1>2, <1>3, <1>4, <1>5, <1>6, <1>7, <1>8, <1>9, <1>10, <1>11, <1>12, <1>13,
    <1>14, <1>15, <1>16, <1>17, <1>18, <1>19, <1>20, <1>21, <1>22, <1>23 DEF EncodeNext,
    EncodeClient, EncodeProcess, EncodeThread

\* The buffer that was taken is the next element of the stream.
LEMMA CurStep ==
  Typed /\ HandOver /\ QueueInv /\ InputInv /\ CurInv /\ Calm' /\ [EncodeNext]_encodeVars
    => CurInv'
<1> SUFFICES ASSUME Typed, HandOver, QueueInv, InputInv, CurInv, Calm',
                    [EncodeNext]_encodeVars
             PROVE  CurInv'
  OBVIOUS
<1>1. CASE SubmitEnd

  <2>1. UNCHANGED <<pc, cur, fed, Taken>>
    BY <1>1, SubmitEndStep DEF SubmitEnd, Submit
  <2> QED BY <2>1 DEF CurInv
<1>2. ASSUME NEW eos \in BOOLEAN, SubmitFrame(eos) PROVE CurInv'

  <2>1. UNCHANGED <<pc, cur, Taken>> /\ Taken <= fed /\ fed' \in {fed, fed + 1}
    BY <1>2, SubmitFrameStep DEF SubmitFrame, Submit
  <2>2. CASE pc = "input" /\ cur.valid
    <3>1. Element(cur, Taken, fed) /\ Taken \in Int /\ fed \in Nat
      BY <2>2, Numbers DEF CurInv
    <3>2. Element(cur, Taken, fed')
      BY <2>1, <3>1, ElementKept
    <3> QED BY <2>1, <3>2 DEF CurInv
  <2> QED BY <2>1, <2>2 DEF CurInv
<1>3. CASE AskExit
  BY <1>3 DEF AskExit, CurInv, Taken, Total
<1>4. CASE GetQueue

  <2>1. CASE cur.valid
    BY <1>4, <2>1 DEF GetQueue, InputInv, Overflows
  <2>2. CASE ~cur.valid
    <3>1. cur' = queue[1] /\ Taken' = Taken + 1 /\ fed' = fed /\ 1 \in 1 .. Len(queue)
      BY <1>4, <2>2, GetQueueStep
    <3>2. Element(queue[1], Taken + 1, fed)
      BY <3>1 DEF QueueInv
    <3> QED BY <3>1, <3>2 DEF CurInv
  <2> QED BY <2>1, <2>2
<1>5. CASE Preprocess
  BY <1>5 DEF Preprocess, Ends, CurInv, Taken, Total
<1>6. CASE SkipPreprocess
  BY <1>6 DEF SkipPreprocess, CurInv, Taken, Total
<1>7. CASE SkipEncode
  BY <1>7 DEF SkipEncode, CurInv, Taken, Total
<1>8. CASE Configure
  BY <1>8 DEF Configure, CurInv, Taken, Total
<1>9. CASE PassOn
  BY <1>9 DEF PassOn, CurInv, Taken, Total
<1>10. CASE Begin
  BY <1>10 DEF Begin, Collect, CurInv, Taken, Total
<1>11. CASE Await
  BY <1>11 DEF Await, CurInv, Taken, Total
<1>12. CASE Read
  BY <1>12 DEF Read, Drains, CurInv, Taken, Total
<1>13. CASE Send
  BY <1>13 DEF Send, CurInv, Taken, Total
<1>14. CASE Sent
  BY <1>14 DEF Sent, NextTag, CurInv, Taken, Total
<1>15. CASE Done
  BY <1>15 DEF Done, NoInput, CurInv, Taken, Total
<1>16. CASE Deliver
  BY <1>16 DEF Deliver, InputInv, CurInv, Taken, Total
<1>17. CASE DeliverPart
  BY <1>17 DEF DeliverPart, InputInv, CurInv, Taken, Total
<1>18. CASE PostExit
  BY <1>18 DEF PostExit, CurInv, Taken, Total
<1>19. CASE CloseDevice
  BY <1>19 DEF CloseDevice, CurInv, Taken, Total
<1>20. CASE StartExe
  BY <1>20 DEF StartExe, clientVars, inputVars, CurInv, Taken, Total
<1>21. CASE Exe
  BY <1>21 DEF Exe, Encoded, ExeFails, Encodable, clientVars, inputVars, CurInv, Taken, Total
<1>22. CASE PostEnd
  BY <1>22 DEF PostEnd, clientVars, inputVars, CurInv, Taken, Total
<1>23. CASE UNCHANGED encodeVars
  BY <1>23 DEF encodeVars, clientVars, inputVars, CurInv, Taken, Total
<1> QED
  BY <1>1, <1>2, <1>3, <1>4, <1>5, <1>6, <1>7, <1>8, <1>9, <1>10, <1>11, <1>12, <1>13,
    <1>14, <1>15, <1>16, <1>17, <1>18, <1>19, <1>20, <1>21, <1>22, <1>23 DEF EncodeNext,
    EncodeClient, EncodeProcess, EncodeThread
-----------------------------------------------------------------------------
(* How far the stream has come. *)

\* The end of the stream is told, or about to be.
Over == eosOut \/ out.eos

\* What the client has been given, with what is about to be.
R == Len(got) + out.len

\* There is an element of the stream at hand that the thread has not turned from
\* yet to the one before it.
Behind ==
  \/ pc = "input" /\ cur.valid
  \/ /\ pc \in {"encode", "await", "read"} /\ ~getAllDelayBuffer
     /\ ~(bConfiguredMFC /\ bFirstFrame)

\* The input is the k-th element of the stream: a picture or its end.
AtHand(k) ==
  /\ inp.eos <=> k = fed + 1
  /\ k <= fed => inp.len = 1 /\ inp.time = k /\ inp.n = k
  /\ k <= fed /\ mode = "picture" => picture[indexInputBuffer] = k
  /\ inp.len = 0 => ~framed

\* The stages of a stream: nothing has been encoded yet; the header is delivered
\* and the first picture is to be encoded; each picture delivers the one before
\* it; the last one is collected; the end is told.
Fresh ==
  /\ got = <<>> /\ out.len = 0 /\ ~getAllDelayBuffer /\ ~reInputData /\ ~remainOutputData
  /\ Taken = IF Behind THEN 1 ELSE 0
  /\ pc = "encode" => AtHand(1)

First ==
  /\ R = 1 /\ Taken = 1
  /\ pc \in {"input", "output"} => reInputData
  /\ pc = "done" => result = "yet"
  /\ pc \in {"input", "encode", "done", "output"} => AtHand(1)
  /\ pc \in {"send", "sent"} => result = "none"

Run ==
  /\ R = IF Behind THEN Taken - 1 ELSE Taken
  /\ R >= 1
  /\ pc \in {"input", "output"} => ~reInputData
  /\ pc \in {"encode", "await", "read"} => AtHand(Taken)
  /\ pc \in {"send", "sent", "done"} => result = "none"

Drain ==
  /\ R = Taken /\ Taken = fed + 1
  /\ ~bFirstFrame /\ ~inp.eos /\ inp.len = 1
  /\ pc \in {"input", "output"} => reInputData
  /\ pc \in {"send", "sent", "done"} => result = "yet"

Ended ==
  /\ queue = <<>> /\ pos = Frames + 2 /\ ~getAllDelayBuffer /\ out.len = 0
  /\ pc \in {"send", "sent", "done", "output", "input"}
  /\ pc \in {"input", "output"} => ~reInputData
  /\ pc \in {"send", "sent", "done"} => result = "none"
  /\ pc = "input" => ~cur.valid
  /\ framed => R = fed + 1

StageInv ==
  /\ Over => Ended
  /\ ~Over /\ ~bConfiguredMFC => Fresh
  /\ ~Over /\ bConfiguredMFC /\ getAllDelayBuffer => Drain
  /\ ~Over /\ bConfiguredMFC /\ ~getAllDelayBuffer /\ bFirstFrame => First
  /\ ~Over /\ bConfiguredMFC /\ ~getAllDelayBuffer /\ ~bFirstFrame => Run

\* What the pictures, tags and halves hold.
Shown(s, k) == mode = "picture" /\ k <= fed => s.own /\ picture[s.at] = k
Tagged(t, k) == (nFlags[t] <=> k = fed + 1) /\ (k <= fed => timeStamp[t] = k)
Reported(k) ==
  /\ enc.tag = ctx.tag
  /\ mode = "picture" /\ k <= fed => stream[encode_cnt] = k
Held(k) ==
  /\ out.time = k
  /\ mode = "picture" => stream[out.half] = k

\* The picture that is to be sent, the one the device has, and the one that is
\* about to be delivered.
ToSend ==
  /\ pc \in {"await", "read"} /\ ~getAllDelayBuffer =>
       Tagged(indexTimestamp, Taken) /\ Shown(source, Taken)
  /\ pc = "send" => Tagged(indexTimestamp, R) /\ Shown(source, R)
AtDevice ==
  Handed = 1 \/ pc = "read" =>
    /\ Tagged(ctx.tag, R) /\ Shown(ctx.source, R)
    /\ (pc = "sent") <=> (ctx.tag = indexTimestamp)
    /\ hEncFrameStart = 0 /\ epc # "exe" => Reported(R)
ToDeliver == out.len = 1 => Held(Len(got))

ContentInv == ~Over => ToSend /\ AtDevice /\ ToDeliver

Counts == <<queue, pos, fed, Taken>>

\* When an outcome is collected it is that of the picture before the one at hand, or
\* of the last one.
LEMMA ReadStep ==
  ASSUME Typed, HandOver, InputInv, StageInv, ContentInv, Read
  PROVE  /\ inp.len = 1 /\ out.len = 0 /\ ~bFirstFrame /\ bConfiguredMFC /\ ~Over
         /\ R = Len(got) /\ R >= 1 /\ R \in Nat /\ fed \in Nat /\ Taken \in Int /\ Handed = 0
         /\ Tagged(ctx.tag, R) /\ Reported(R) /\ (nFlags[enc.tag] <=> getAllDelayBuffer)
         /\ getAllDelayBuffer => Drain
         /\ ~getAllDelayBuffer => AtHand(Taken) /\ R = Taken - 1 /\ R <= fed
<1>1. pc = "read"
  BY DEF Read
<1>2. inp.len = 1 /\ out.len = 0 /\ ~bFirstFrame /\ bConfiguredMFC /\ ~Over
  BY <1>1 DEF InputInv, HandOver, StageInv, Ended
<1>3. Handed = 0 /\ hEncFrameStart = 0 /\ epc # "exe"
  BY <1>1 DEF HandOver, Handed, Running, Typed, DeviceOK
<1>4. Tagged(ctx.tag, R) /\ Reported(R)
  BY <1>1, <1>2, <1>3 DEF ContentInv, AtDevice
<1>5. R = Len(got) /\ R \in Nat /\ fed \in Nat /\ Taken \in Int /\ Taken <= fed + 1
  BY <1>2, Numbers DEF R
<1>6. nFlags[enc.tag] <=> R = fed + 1
  BY <1>4 DEF Tagged, Reported
<1>7. CASE getAllDelayBuffer
  <2>1. Drain
    BY <1>2, <1>7 DEF StageInv
  <2>2. R = fed + 1
    BY <2>1 DEF Drain
  <2> QED BY <1>2, <1>3, <1>4, <1>5, <1>6, <1>7, <2>1, <2>2
<1>8. CASE ~getAllDelayBuffer
  <2>1. Run
    BY <1>2, <1>8 DEF StageInv
  <2>2. R = Taken - 1 /\ AtHand(Taken) /\ R >= 1
    BY <1>1, <1>2, <1>8, <2>1 DEF Run, Behind
  <2>3. R <= fed /\ R # fed + 1
    BY <1>5, <2>2
  <2> QED BY <1>2, <1>3, <1>4, <1>5, <1>6, <1>8, <2>2, <2>3
<1> QED BY <1>7, <1>8

\* What is delivered is what was to be.
LEMMA DeliverStep ==
  ASSUME Typed, HandOver, InputInv, StageInv, Deliver
  PROVE  /\ pc = "output" /\ (Over' <=> Over) /\ R' = R /\ out'.len = 0 /\ bConfiguredMFC
         /\ UNCHANGED Counts
         /\ out.len = 0 => got' = got
         /\ out.len = 1 =>
              ~Over /\ got' = Append(got, [c |-> stream[out.half], time |-> out.time])
<1>1. UNCHANGED Counts
  BY DEF Deliver, inputVars, Counts, Total, Taken
<1>2. /\ pc = "output" /\ out'.len = 0 /\ out'.eos = FALSE /\ eosOut' = (eosOut \/ out.eos)
      /\ bConfiguredMFC
  BY DEF Deliver, NoOutput, HandOver
<1>3. /\ out.len \in 0 .. 1 /\ Len(got) \in Nat /\ fed \in Nat /\ fed <= Frames
      /\ Taken <= fed + 1 /\ Taken \in Int
  BY Numbers DEF Typed, ClientOK, DataOK
<1>4. Over' <=> Over
  BY <1>2 DEF Over
<1>5. CASE out.len = 0
  <2>1. got' = got
    BY <1>5 DEF Deliver
  <2> QED BY <1>1, <1>2, <1>4, <1>5, <2>1 DEF R
<1>6. CASE out.len = 1
  <2> DEFINE piece == [c |-> stream[out.half], time |-> out.time]
             E == [c : Contents, time : -1 .. Stale]
  <2>1. ~Over
    BY <1>6 DEF StageInv, Ended
  <2>2. R <= Taken
    BY <1>2, <1>3, <2>1 DEF StageInv, First, Run, Drain, Behind
  <2>3. R = Len(got) + 1
    BY <1>6 DEF R
  <2>4. Len(got) <= Frames + 1
    BY <1>3, <2>2, <2>3, Values
  <2>5. got' = Append(got, piece)
    BY <1>6, <2>4 DEF Deliver
  <2>6. got \in Seq(E)
    BY DEF Typed, ClientOK
  <2>7. Len(got') = Len(got) + 1
    <3> HIDE DEF piece, E
    <3> QED BY <2>5, <2>6
  <2>8. R' = R
    BY <1>2, <1>3, <2>3, <2>7 DEF R
  <2> QED BY <1>1, <1>2, <1>4, <1>6, <2>1, <2>5, <2>8
<1> QED BY <1>3, <1>5, <1>6

\* The stages follow each other.
LEMMA StageStep ==
  Typed /\ HandOver /\ InputInv /\ CurInv /\ StageInv /\ ContentInv /\ Sized /\ Calm'
    /\ [EncodeNext]_encodeVars
    => StageInv'
<1> SUFFICES ASSUME Typed, HandOver, InputInv, CurInv, StageInv, ContentInv, Sized, Calm',
                    [EncodeNext]_encodeVars
             PROVE  StageInv'
  OBVIOUS
<1>1. CASE SubmitEnd

  <2>1. /\ UNCHANGED <<fed, Taken>> /\ Taken <= fed /\ pos # Frames + 2
        /\ UNCHANGED <<mode, framed, got, eosOut, cur, inp, out, flagVars, pc, result, picture,
                       codecVars>>
    BY <1>1, SubmitEndStep, Values DEF SubmitEnd, Submit
  <2>2. ~Over /\ ~Over'
    BY <2>1 DEF StageInv, Ended, Over
  <2>3. ~Drain
    BY <2>1, Numbers DEF Drain
  <2> QED BY <2>1, <2>2, <2>3 DEF StageInv, Fresh, First, Run, AtHand, Behind, R, flagVars,
    codecVars
<1>2. ASSUME NEW eos \in BOOLEAN, SubmitFrame(eos) PROVE StageInv'

  <2>1. /\ Taken' = Taken /\ Taken <= fed /\ fed' \in {fed, fed + 1} /\ pos # Frames + 2
        /\ fed \in Nat
        /\ UNCHANGED <<mode, framed, got, eosOut, cur, inp, out, flagVars, pc, result, picture,
                       codecVars>>
    <3>1. UNCHANGED <<mode, framed, got, eosOut, cur, inp, out, flagVars, pc, result, picture,
                      codecVars>>
      BY <1>2 DEF SubmitFrame, Submit
    <3>2. /\ Taken' = Taken /\ Taken <= fed /\ pos <= Frames + 1
          /\ fed' = IF eos THEN fed ELSE fed + 1
      BY <1>2, SubmitFrameStep
    <3>3. fed \in Nat /\ pos # Frames + 2
      BY <3>2, Numbers, Values
    <3> QED BY <3>1, <3>2, <3>3
  <2>2. ~Over /\ ~Over'
    BY <2>1 DEF StageInv, Ended, Over
  <2>3. ~Drain
    BY <2>1, Numbers DEF Drain
  <2>4. AtHand(Taken) => AtHand(Taken)'
    BY <2>1, Numbers DEF AtHand, codecVars
  <2>5. Taken = 1 /\ AtHand(1) => AtHand(1)'
    BY <2>1, <2>4
  <2>6. Behind' = Behind /\ R' = R
    BY <2>1 DEF Behind, R, flagVars, codecVars
  <2>7. ~bConfiguredMFC /\ Fresh => Fresh'
    <3>1. pc = "encode" /\ ~bConfiguredMFC /\ Fresh => Taken = 1
      BY DEF Fresh, Behind
    <3> QED BY <2>1, <2>5, <2>6, <3>1 DEF Fresh, flagVars
  <2> QED BY <2>1, <2>2, <2>3, <2>4, <2>5, <2>6, <2>7 DEF StageInv, First, Run, flagVars,
    codecVars
<1>3. CASE AskExit
  BY <1>3 DEF AskExit, HandOver, Calm
<1>4. CASE GetQueue

  <2>1. pc = "input" /\ ~reInputData /\ ~remainOutputData /\ ~cur.valid
    BY <1>4 DEF GetQueue, InputInv, Overflows
  <2>2. /\ Taken' = Taken + 1 /\ fed' = fed /\ pos' = pos /\ Taken \in Int /\ Len(queue) > 0
        /\ cur'.valid /\ inp' = inp
    BY <1>4, <2>1, GetQueueStep, Numbers DEF Buffer
  <2>3. UNCHANGED <<mode, framed, got, eosOut, out, flagVars, pc, result, picture, codecVars>>
    BY <1>4 DEF GetQueue, clientVars
  <2>4. ~Over /\ ~Over'
    <3>1. queue # <<>>
      BY <2>2
    <3> QED BY <2>3, <3>1 DEF StageInv, Ended, Over
  <2>5. ~First /\ ~Drain
    BY <2>1 DEF First, Drain
  <2>6. ~Behind /\ Behind' /\ R' = R
    BY <2>1, <2>2, <2>3 DEF Behind, R
  <2>7. Fresh => Fresh'
    BY <2>1, <2>2, <2>3, <2>6 DEF Fresh, flagVars
  <2>8. Run => Run'
    BY <2>1, <2>2, <2>3, <2>6 DEF Run, flagVars
  <2> QED BY <2>3, <2>4, <2>5, <2>7, <2>8 DEF StageInv, flagVars, codecVars
<1>5. CASE Preprocess

  <2>0. UNCHANGED Counts
    BY <1>5 DEF Preprocess, clientVars, inputVars, Counts, Total, Taken
  <2>1. /\ pc = "input" /\ ~reInputData /\ ~remainOutputData /\ cur.valid /\ inp.len = 0
        /\ ~bSaveFlagEOS /\ cur.len \in 0 .. 1 /\ cur.n \in Nat /\ cur.eos \in BOOLEAN
        /\ Taken \in Int /\ fed \in Nat
    BY <1>5, Numbers DEF Preprocess, InputInv, Typed, DataOK
  <2>2. Element(cur, Taken, fed)
    BY <2>1 DEF CurInv
  <2>3. AtHand(Taken)'
    <3>1. /\ inp'.eos <=> (cur.eos \/ ((bUseFlagEOF \/ framed) /\ cur.len = 0))
          /\ inp'.n = cur.n /\ inp'.time = cur.n
          /\ inp'.len = IF bUseFlagEOF \/ framed THEN 1 ELSE cur.len
      BY <1>5, <2>1, PreprocessTakes
    <3>2. mode = "picture" => picture'[indexInputBuffer] = cur.n
      BY <1>5 DEF Preprocess, Typed, CodecOK
    <3>3. UNCHANGED <<mode, framed, indexInputBuffer, fed, Taken>>
      BY <1>5, <2>0 DEF Preprocess, clientVars, codecVars, Counts
    <3> QED BY <2>1, <2>2, <3>1, <3>2, <3>3 DEF AtHand, Element
  <2>4. /\ pc' = "encode"
        /\ UNCHANGED <<got, eosOut, out, getAllDelayBuffer, reInputData, remainOutputData,
                       bConfiguredMFC, bFirstFrame, fed, Taken, queue, pos>>
    BY <1>5, <2>0 DEF Preprocess, clientVars, codecVars, Counts
  <2>5. ~Over /\ ~Over'
    BY <2>1, <2>4 DEF StageInv, Ended, Over
  <2>6. ~First /\ ~Drain
    BY <2>1 DEF First, Drain
  <2>7. ~bConfiguredMFC /\ Fresh => Fresh'
    <3> SUFFICES ASSUME ~bConfiguredMFC, Fresh PROVE Fresh'
      OBVIOUS
    <3>1. Taken = 1 /\ Taken' = 1
      BY <2>1, <2>4 DEF Fresh, Behind
    <3>2. Behind'
      BY <2>4 DEF Fresh, Behind
    <3>3. AtHand(1)'
      BY <2>3, <3>1
    <3> QED BY <2>4, <3>1, <3>2, <3>3 DEF Fresh
  <2>8. ~getAllDelayBuffer /\ ~bFirstFrame /\ Run => Run'
    BY <2>1, <2>3, <2>4 DEF Run, Behind, R
  <2> QED BY <2>4, <2>5, <2>6, <2>7, <2>8 DEF StageInv
<1>6. CASE SkipPreprocess
  <2>1. UNCHANGED Counts
    BY <1>6 DEF SkipPreprocess, clientVars, inputVars, Counts, Total, Taken
  <2> QED BY <1>6, <2>1 DEF Counts, SkipPreprocess, clientVars, flagVars, codecVars, StageInv,
    Ended, Fresh, First, Run, Drain, AtHand, Behind, Over, R
<1>7. CASE SkipEncode
  <2>1. UNCHANGED Counts
    BY <1>7 DEF SkipEncode, clientVars, inputVars, Counts, Total, Taken
  <2> QED BY <1>7, <2>1 DEF Counts, SkipEncode, clientVars, flagVars, codecVars, InputInv,
    StageInv, Ended, Fresh, First, Run, Drain, AtHand, Behind, Over, R
<1>8. CASE Configure

  <2>0. UNCHANGED Counts
    BY <1>8 DEF Configure, clientVars, inputVars, Counts, Total, Taken
  <2>1. encodeFaults' # encodeFaults + 1
    <3>1. encodeFaults' = 0 /\ encodeFaults \in Nat
      BY Values DEF Calm, Typed, DeviceOK
    <3> QED BY <3>1
  <2>2. /\ pc = "encode" /\ pc' = "done" /\ ~bConfiguredMFC /\ bConfiguredMFC'
        /\ result' = "yet" /\ out'.len = 1 /\ out'.eos = FALSE /\ bFirstFrame
    BY <1>8, <2>1 DEF Configure, NoOutput, HandOver
  <2>3. UNCHANGED <<mode, framed, got, eosOut, inp, getAllDelayBuffer, picture, bFirstFrame,
                    indexInputBuffer, fed, Taken>>
    BY <1>8, <2>0 DEF Configure, clientVars, flagVars, Counts
  <2>4. ~Over /\ ~Over'
    BY <2>2, <2>3 DEF StageInv, Ended, Over
  <2>5. Fresh
    BY <2>2, <2>4 DEF StageInv
  <2>6. Taken = 1 /\ AtHand(1) /\ AtHand(1)'
    BY <2>2, <2>3, <2>5 DEF Fresh, Behind, AtHand
  <2>7. R' = 1
    <3>1. Len(got') = 0
      BY <2>3, <2>5 DEF Fresh
    <3> QED BY <2>2, <3>1 DEF R
  <2>8. First' /\ ~getAllDelayBuffer'
    BY <2>2, <2>3, <2>5, <2>6, <2>7 DEF First, Fresh
  <2> QED BY <2>2, <2>3, <2>4, <2>8 DEF StageInv
<1>9. CASE PassOn
  <2>1. UNCHANGED Counts
    BY <1>9 DEF PassOn, clientVars, inputVars, Counts, Total, Taken
  <2> QED BY <1>9, <2>1, Numbers DEF Counts, PassOn, NoOutput, clientVars, flagVars, StageInv,
    Ended, Fresh, First, Run, Drain, AtHand, Behind, Over, R
<1>10. CASE Begin
  <2>1. UNCHANGED Counts
    BY <1>10 DEF Begin, clientVars, inputVars, Counts, Total, Taken
  <2> QED BY <1>10, <2>1 DEF Counts, Begin, Collect, clientVars, flagVars, HandOver, StageInv,
    Ended, Fresh, First, Run, Drain, AtHand, Behind, Over, R
<1>11. CASE Await
  <2>1. UNCHANGED Counts
    BY <1>11 DEF Await, clientVars, inputVars, Counts, Total, Taken
  <2> QED BY <1>11, <2>1 DEF Counts, Await, clientVars, flagVars, StageInv, Ended, Fresh,
    First, Run, Drain, AtHand, Behind, Over, R
<1>12. CASE Read

  <2>0. UNCHANGED Counts
    BY <1>12 DEF Read, clientVars, inputVars, Counts, Total, Taken
  <2> DEFINE eos == nFlags[enc.tag]
  <2>1. /\ pc = "read" /\ pc' = "send"
        /\ out'.len = (IF eos THEN 0 ELSE 1) /\ out'.eos = eos
        /\ result' = (IF Drains(eos) THEN "yet" ELSE "none")
        /\ getAllDelayBuffer' = Drains(eos)
    BY <1>12 DEF Read, NoOutput
  <2>2. /\ inp'.len = inp.len /\ inp'.eos = FALSE
    BY <1>12 DEF Read, Typed, DataOK
  <2>3. UNCHANGED <<framed, got, eosOut, bConfiguredMFC, bFirstFrame, fed, Taken, queue, pos>>
    BY <1>12, <2>0 DEF Read, clientVars, codecVars, Counts
  <2>4. /\ inp.len = 1 /\ out.len = 0 /\ ~bFirstFrame /\ bConfiguredMFC /\ ~Over
        /\ R = Len(got) /\ R \in Nat /\ fed \in Nat /\ Taken \in Int /\ R >= 1
    BY <1>12, ReadStep
  <2>8. CASE getAllDelayBuffer
    <3>1. Drain /\ eos
      BY <1>12, <2>8, ReadStep
    <3>3. ~getAllDelayBuffer' /\ result' = "none" /\ out'.len = 0 /\ out'.eos
      BY <2>1, <3>1 DEF Drains
    <3>4. queue = <<>> /\ pos = Frames + 2 /\ R = fed + 1
      BY <3>1, Numbers DEF Drain
    <3>5. R' = R
      BY <2>3, <2>4, <3>3 DEF R
    <3>6. Ended'
      BY <2>1, <2>3, <3>3, <3>4, <3>5 DEF Ended
    <3> QED BY <3>3, <3>6 DEF StageInv, Over
  <2>9. CASE ~getAllDelayBuffer
    <3>2. R = Taken - 1 /\ AtHand(Taken)
      BY <1>12, <2>9, ReadStep
    <3>3. eos = FALSE
      <4>1. eos \in BOOLEAN /\ ~eos
        BY <1>12, <2>9, ReadStep DEF Typed, CodecOK, DeviceOK
      <4> QED BY <4>1
    <3>4. /\ out'.len = 1 /\ out'.eos = FALSE /\ (Drains(eos) <=> inp.eos)
          /\ (getAllDelayBuffer' <=> inp.eos)
      BY <2>1, <2>9, <3>3 DEF Drains
    <3>5. R' = Taken'
      BY <2>3, <2>4, <3>2, <3>4 DEF R
    <3>6. ~Over'
      BY <2>3, <2>4, <3>4 DEF Over
    <3>7. CASE inp.eos
      <4>1. Drain'
        BY <2>1, <2>2, <2>3, <2>4, <3>2, <3>4, <3>5, <3>7 DEF Drain, AtHand
      <4> QED BY <2>3, <2>4, <3>4, <3>6, <3>7, <4>1 DEF StageInv
    <3>8. CASE ~inp.eos
      <4>1. Run'
        BY <2>1, <2>3, <2>4, <3>2, <3>4, <3>5, <3>8 DEF Run, Behind
      <4> QED BY <2>3, <2>4, <3>4, <3>6, <3>8, <4>1 DEF StageInv
    <3> QED BY <3>7, <3>8
  <2> QED BY <2>8, <2>9
<1>13. CASE Send
  <2>1. UNCHANGED Counts
    BY <1>13 DEF Send, clientVars, inputVars, Counts, Total, Taken
  <2> QED BY <1>13, <2>1 DEF Counts, Send, clientVars, flagVars, StageInv, Ended, Fresh,
    First, Run, Drain, AtHand, Behind, Over, R
<1>14. CASE Sent
  <2>1. UNCHANGED Counts
    BY <1>14 DEF Sent, clientVars, inputVars, Counts, Total, Taken
  <2> QED BY <1>14, <2>1 DEF Counts, Sent, NextTag, clientVars, flagVars, StageInv, Ended,
    Fresh, First, Run, Drain, AtHand, Behind, Over, R
<1>15. CASE Done
  <2>1. UNCHANGED Counts
    BY <1>15 DEF Done, clientVars, inputVars, Counts, Total, Taken
  <2> QED BY <1>15, <2>1 DEF Counts, Done, NoInput, clientVars, codecVars, HandOver, StageInv,
    Ended, Fresh, First, Run, Drain, AtHand, Behind, Over, R
<1>16. CASE Deliver

  <2>1. /\ pc = "output" /\ pc' = "input" /\ ~remainOutputData' /\ ~cur.valid
        /\ UNCHANGED <<mode, framed, cur, inp, getAllDelayBuffer, reInputData, result, picture,
                       bConfiguredMFC, bFirstFrame, indexInputBuffer>>
    BY <1>16 DEF Deliver, codecVars, InputInv
  <2>2. /\ (Over' <=> Over) /\ R' = R /\ out'.len = 0 /\ bConfiguredMFC
        /\ UNCHANGED <<fed, Taken, queue, pos>>
    BY <1>16, DeliverStep DEF Counts
  <2> QED BY <2>1, <2>2 DEF StageInv, Ended, First, Run, Drain, AtHand, Behind
<1>17. CASE DeliverPart
  <2>1. UNCHANGED Counts
    BY <1>17 DEF DeliverPart, clientVars, inputVars, Counts, Total, Taken
  <2> QED BY <1>17, <2>1 DEF Counts, DeliverPart, clientVars, codecVars, InputInv, StageInv,
    Ended, Fresh, First, Run, Drain, AtHand, Behind, Over, R
<1>18. CASE PostExit
  BY <1>18 DEF PostExit, HandOver, Calm
<1>19. CASE CloseDevice
  BY <1>19 DEF CloseDevice, HandOver, Calm
<1>20. CASE StartExe
  <2>1. UNCHANGED Counts
    BY <1>20 DEF StartExe, clientVars, inputVars, Counts, Total, Taken
  <2> QED BY <1>20, <2>1 DEF Counts, StartExe, clientVars, flagVars, codecVars, StageInv,
    Ended, Fresh, First, Run, Drain, AtHand, Behind, Over, R
<1>21. CASE Exe
  <2>1. UNCHANGED Counts
    BY <1>21 DEF Exe, clientVars, inputVars, Counts, Total, Taken
  <2> QED BY <1>21, <2>1 DEF Counts, Exe, Encoded, ExeFails, Encodable, clientVars, flagVars,
    codecVars, StageInv, Ended, Fresh, First, Run, Drain, AtHand, Behind, Over, R
<1>22. CASE PostEnd
  <2>1. UNCHANGED Counts
    BY <1>22 DEF PostEnd, clientVars, inputVars, Counts, Total, Taken
  <2> QED BY <1>22, <2>1 DEF Counts, PostEnd, clientVars, flagVars, codecVars, StageInv,
    Ended, Fresh, First, Run, Drain, AtHand, Behind, Over, R
<1>23. CASE UNCHANGED encodeVars
  BY <1>23 DEF encodeVars, clientVars, inputVars, flagVars, codecVars, Total, Taken, StageInv,
    Ended, Fresh, First, Run, Drain, AtHand, Behind, Over, R
<1> QED
  BY <1>1, <1>2, <1>3, <1>4, <1>5, <1>6, <1>7, <1>8, <1>9, <1>10, <1>11, <1>12, <1>13,
    <1>14, <1>15, <1>16, <1>17, <1>18, <1>19, <1>20, <1>21, <1>22, <1>23 DEF EncodeNext,
    EncodeClient, EncodeProcess, EncodeThread
-----------------------------------------------------------------------------
(* What the client is given. *)

\* The client has never been given more than was taken of the queue.
LEMMA NotAhead ==
  ASSUME Typed, StageInv, ~Over
  PROVE  R <= Taken /\ R \in Nat /\ Taken \in Int
<1>1. out.len \in Nat /\ R \in Nat /\ Taken \in Int /\ fed \in Nat
  BY Numbers DEF R, Typed, DataOK
<1>2. CASE ~bConfiguredMFC
  <2>1. Fresh
    BY <1>2 DEF StageInv
  <2>2. R = 0
    BY <2>1 DEF Fresh, R
  <2> QED BY <1>1, <2>1, <2>2 DEF Fresh
<1>3. CASE bConfiguredMFC
  BY <1>1, <1>3 DEF StageInv, First, Run, Drain, Behind
<1> QED BY <1>2, <1>3 DEF Typed, FlagsOK

\* A picture that is behind those the client has sent stays there.
LEMMA StillBehind ==
  ASSUME NEW r \in Int, NEW t \in Int, NEW f \in Int, NEW g \in {f, f + 1}, r <= t, t <= f
  PROVE  t # f + 1 /\ t # g + 1 /\ r # f + 1 /\ r # g + 1 /\ r <= f /\ t <= g /\ r <= g
OBVIOUS

\* What the client queues changes nothing about the pictures that are on their way.
LEMMA SubmitKeeps ==
  ASSUME Typed, StageInv, SubmitEnd \/ \E eos \in BOOLEAN : SubmitFrame(eos)
  PROVE  /\ ~Over /\ Taken \in Int /\ R \in Nat /\ fed \in Nat /\ R <= Taken /\ Taken <= fed
         /\ Taken # fed + 1 /\ Taken # fed' + 1 /\ R # fed + 1 /\ R # fed' + 1 /\ R <= fed
         /\ Taken' = Taken /\ R' = R /\ fed' \in {fed, fed + 1} /\ (Over' <=> Over)
         /\ UNCHANGED <<mode, got, eosOut, cur, inp, out, flagVars, pc, picture, codecVars,
                        threadVars, encode_cnt, deviceVars>>
<1>1. UNCHANGED <<mode, got, eosOut, cur, inp, out, flagVars, pc, picture, codecVars,
                  threadVars, encode_cnt, deviceVars>>
  BY DEF SubmitEnd, SubmitFrame, Submit
<1>2. /\ Taken' = Taken /\ Taken <= fed /\ fed' \in {fed, fed + 1} /\ pos # Frames + 2
      /\ fed \in Nat
  <2>1. CASE SubmitEnd
    BY <2>1, SubmitEndStep, Numbers, Values DEF SubmitEnd
  <2>2. ASSUME NEW eos \in BOOLEAN, SubmitFrame(eos) 
               PROVE  /\ Taken' = Taken /\ Taken <= fed /\ fed' \in {fed, fed + 1}
                      /\ pos # Frames + 2 /\ fed \in Nat
    <3>1. /\ Taken' = Taken /\ Taken <= fed /\ pos <= Frames + 1
          /\ fed' = IF eos THEN fed ELSE fed + 1
      BY <2>2, SubmitFrameStep
    <3> QED BY <3>1, Numbers, Values
  <2> QED BY <2>1, <2>2
<1>3. ~Over
  BY <1>2 DEF StageInv, Ended
<1>4. R' = R /\ (Over' <=> Over)
  BY <1>1 DEF R, Over
<1>5. R <= Taken /\ R \in Nat /\ Taken \in Int
  BY <1>3, NotAhead
<1>6. Taken # fed + 1 /\ Taken # fed' + 1 /\ R # fed + 1 /\ R # fed' + 1 /\ R <= fed
  <2>1. R \in Int /\ fed \in Int /\ fed' \in {fed, fed + 1} /\ R <= Taken /\ Taken <= fed
    BY <1>2, <1>5
  <2> QED BY <1>5, <2>1, StillBehind
<1> QED BY <1>1, <1>2, <1>3, <1>4, <1>5, <1>6

\* As long as nothing has failed, the device encodes.
LEMMA OnlyEncoded ==
  ASSUME Typed, Calm', Exe
  PROVE  Encoded
<1>1. encodeFaults' = 0 /\ encodeFaults \in Nat
  BY Values DEF Calm, Typed, DeviceOK
<1>2. ~ExeFails
  BY <1>1 DEF ExeFails
<1> QED BY <1>2 DEF Exe

(* The three parts of ContentInv, with a lemma each. *)

SendInv == ~Over => ToSend

LEMMA SendInvStep ==
  Typed /\ HalvesInv /\ HandOver /\ InputInv /\ CurInv /\ StageInv /\ ContentInv /\ Calm'
    /\ [EncodeNext]_encodeVars
    => SendInv'
<1> SUFFICES ASSUME Typed, HalvesInv, HandOver, InputInv, CurInv, StageInv, ContentInv,
                    Calm', [EncodeNext]_encodeVars
             PROVE  SendInv'
  OBVIOUS
<1>1. CASE SubmitEnd

  <2>1. /\ ~Over /\ Taken \in Int /\ R \in Nat /\ fed \in Nat /\ R <= Taken /\ Taken <= fed
        /\ Taken' = Taken /\ R' = R /\ fed' \in {fed, fed + 1} /\ (Over' <=> Over)
        /\ UNCHANGED <<mode, got, eosOut, cur, inp, out, flagVars, pc, picture, codecVars,
                       threadVars, encode_cnt, deviceVars>>
    BY <1>1, SubmitKeeps
  <2>2. /\ Taken # fed + 1 /\ Taken' # fed' + 1 /\ R # fed + 1 /\ R' # fed' + 1 /\ R <= fed
        /\ Taken' = Taken /\ R' = R
    BY <1>1, SubmitKeeps
  <2>3. Tagged(indexTimestamp, Taken) => Tagged(indexTimestamp, Taken)'
    BY <2>1, <2>2 DEF Tagged, codecVars
  <2>4. Tagged(indexTimestamp, R) => Tagged(indexTimestamp, R)'
    BY <2>1, <2>2 DEF Tagged, codecVars
  <2>5. Shown(source, Taken) => Shown(source, Taken)'
    BY <2>1 DEF Shown, codecVars
  <2>6. Shown(source, R) => Shown(source, R)'
    BY <2>1, <2>2 DEF Shown, codecVars
  <2> QED BY <2>1, <2>3, <2>4, <2>5, <2>6 DEF SendInv, ContentInv, ToSend, flagVars
<1>2. ASSUME NEW eos \in BOOLEAN, SubmitFrame(eos) PROVE SendInv'

  <2>1. /\ ~Over /\ Taken \in Int /\ R \in Nat /\ fed \in Nat /\ R <= Taken /\ Taken <= fed
        /\ Taken' = Taken /\ R' = R /\ fed' \in {fed, fed + 1} /\ (Over' <=> Over)
        /\ UNCHANGED <<mode, got, eosOut, cur, inp, out, flagVars, pc, picture, codecVars,
                       threadVars, encode_cnt, deviceVars>>
    BY <1>2, SubmitKeeps
  <2>2. /\ Taken # fed + 1 /\ Taken' # fed' + 1 /\ R # fed + 1 /\ R' # fed' + 1 /\ R <= fed
        /\ Taken' = Taken /\ R' = R
    BY <1>2, SubmitKeeps
  <2>3. Tagged(indexTimestamp, Taken) => Tagged(indexTimestamp, Taken)'
    BY <2>1, <2>2 DEF Tagged, codecVars
  <2>4. Tagged(indexTimestamp, R) => Tagged(indexTimestamp, R)'
    BY <2>1, <2>2 DEF Tagged, codecVars
  <2>5. Shown(source, Taken) => Shown(source, Taken)'
    BY <2>1 DEF Shown, codecVars
  <2>6. Shown(source, R) => Shown(source, R)'
    BY <2>1, <2>2 DEF Shown, codecVars
  <2> QED BY <2>1, <2>3, <2>4, <2>5, <2>6 DEF SendInv, ContentInv, ToSend, flagVars
<1>3. CASE AskExit
  BY <1>3 DEF AskExit, HandOver, Calm
<1>4. CASE GetQueue

  <2>1. UNCHANGED <<mode, fed, got, eosOut, out, flagVars, pc, picture, codecVars, threadVars,
                    encode_cnt, deviceVars>>
    BY <1>4 DEF GetQueue, clientVars
  <2>2. R' = R /\ (Over' <=> Over) /\ pc = "input"
    BY <1>4, <2>1 DEF R, Over, GetQueue
  <2> QED BY <2>1, <2>2 DEF SendInv, ToSend
<1>5. CASE Preprocess
  <2>1. UNCHANGED Counts
    BY <1>5 DEF Preprocess, clientVars, inputVars, Counts, Total, Taken
  <2> QED BY <1>5, <2>1 DEF Counts, Preprocess, Ends, SendInv, ToSend
<1>6. CASE SkipPreprocess
  <2>1. UNCHANGED Counts
    BY <1>6 DEF SkipPreprocess, clientVars, inputVars, Counts, Total, Taken
  <2> QED BY <1>6, <2>1 DEF Counts, SkipPreprocess, SendInv, ToSend
<1>7. CASE SkipEncode
  <2>1. UNCHANGED Counts
    BY <1>7 DEF SkipEncode, clientVars, inputVars, Counts, Total, Taken
  <2> QED BY <1>7, <2>1 DEF Counts, SkipEncode, SendInv, ToSend
<1>8. CASE Configure
  <2>1. UNCHANGED Counts
    BY <1>8 DEF Configure, clientVars, inputVars, Counts, Total, Taken
  <2> QED BY <1>8, <2>1 DEF Counts, Configure, SendInv, ToSend
<1>9. CASE PassOn
  <2>1. UNCHANGED Counts
    BY <1>9 DEF PassOn, clientVars, inputVars, Counts, Total, Taken
  <2> QED BY <1>9, <2>1 DEF Counts, PassOn, SendInv, ToSend
<1>10. CASE Begin
  <2>1. UNCHANGED Counts
    BY <1>10 DEF Begin, clientVars, inputVars, Counts, Total, Taken
  <2> QED BY <1>10, <2>1 DEF Counts, Begin, Collect, clientVars, flagVars, SendInv, StageInv,
    Over, R, ToSend, Shown, Tagged, HandOver, Typed, CodecOK, AtHand, Run, Drain, First,
    Behind
<1>11. CASE Await
  <2>1. UNCHANGED Counts
    BY <1>11 DEF Await, clientVars, inputVars, Counts, Total, Taken
  <2> QED BY <1>11, <2>1 DEF Counts, Await, clientVars, flagVars, SendInv, ContentInv, Over,
    R, ToSend, Shown, Tagged
<1>12. CASE Read

  <2> SUFFICES ASSUME ~Over' PROVE ToSend'
    BY DEF SendInv
  <2>1. /\ pc = "read" /\ pc' = "send" /\ UNCHANGED <<mode, fed, got, picture, codecVars>>
        /\ (out'.eos <=> nFlags[enc.tag]) /\ out'.len = (IF nFlags[enc.tag] THEN 0 ELSE 1)
    <3>1. nFlags[enc.tag] \in BOOLEAN
      BY DEF Typed, CodecOK, DeviceOK
    <3> QED BY <1>12, <3>1 DEF Read, clientVars
  <2>2. ~nFlags[enc.tag] /\ out'.len = 1
    BY <2>1 DEF Over
  <2>3. /\ ~Over /\ ~getAllDelayBuffer /\ R = Len(got) /\ R \in Nat /\ Taken \in Int
        /\ R = Taken - 1
    BY <1>12, <2>2, ReadStep
  <2>4. R' = Taken
    BY <2>1, <2>2, <2>3 DEF R
  <2>5. Tagged(indexTimestamp, Taken) /\ Shown(source, Taken)
    BY <2>1, <2>3 DEF ContentInv, ToSend
  <2> QED BY <2>1, <2>4, <2>5 DEF ToSend, Tagged, Shown, codecVars
<1>13. CASE Send
  <2>1. UNCHANGED Counts
    BY <1>13 DEF Send, clientVars, inputVars, Counts, Total, Taken
  <2> QED BY <1>13, <2>1 DEF Counts, Send, SendInv, ToSend
<1>14. CASE Sent
  <2>1. UNCHANGED Counts
    BY <1>14 DEF Sent, clientVars, inputVars, Counts, Total, Taken
  <2> QED BY <1>14, <2>1 DEF Counts, Sent, NextTag, SendInv, ToSend
<1>15. CASE Done
  <2>1. UNCHANGED Counts
    BY <1>15 DEF Done, clientVars, inputVars, Counts, Total, Taken
  <2> QED BY <1>15, <2>1 DEF Counts, Done, NoInput, SendInv, ToSend
<1>16. CASE Deliver
  <2>1. UNCHANGED Counts
    BY <1>16 DEF Deliver, inputVars, Counts, Total, Taken
  <2> QED BY <1>16, <2>1 DEF Counts, Deliver, SendInv, ToSend
<1>17. CASE DeliverPart
  <2>1. UNCHANGED Counts
    BY <1>17 DEF DeliverPart, clientVars, inputVars, Counts, Total, Taken
  <2> QED BY <1>17, <2>1 DEF Counts, DeliverPart, SendInv, ToSend
<1>18. CASE PostExit
  BY <1>18 DEF PostExit, HandOver, Calm
<1>19. CASE CloseDevice
  BY <1>19 DEF CloseDevice, HandOver, Calm
<1>20. CASE StartExe
  <2>1. UNCHANGED Counts
    BY <1>20 DEF StartExe, clientVars, inputVars, Counts, Total, Taken
  <2> QED BY <1>20, <2>1 DEF Counts, StartExe, clientVars, flagVars, codecVars, SendInv,
    ContentInv, Over, R, ToSend, Shown, Tagged
<1>21. CASE Exe
  <2>1. UNCHANGED Counts
    BY <1>21 DEF Exe, clientVars, inputVars, Counts, Total, Taken
  <2> QED BY <1>21, <2>1 DEF Counts, Exe, Encoded, ExeFails, Encodable, clientVars, flagVars,
    codecVars, SendInv, ContentInv, Over, R, ToSend, Shown, Tagged
<1>22. CASE PostEnd
  <2>1. UNCHANGED Counts
    BY <1>22 DEF PostEnd, clientVars, inputVars, Counts, Total, Taken
  <2> QED BY <1>22, <2>1 DEF Counts, PostEnd, clientVars, flagVars, codecVars, SendInv,
    ContentInv, Over, R, ToSend, Shown, Tagged
<1>23. CASE UNCHANGED encodeVars
  BY <1>23 DEF encodeVars, clientVars, inputVars, flagVars, codecVars, Total, Taken, SendInv,
    ContentInv, Over, R, ToSend, Shown, Tagged
<1> QED
  BY <1>1, <1>2, <1>3, <1>4, <1>5, <1>6, <1>7, <1>8, <1>9, <1>10, <1>11, <1>12, <1>13,
    <1>14, <1>15, <1>16, <1>17, <1>18, <1>19, <1>20, <1>21, <1>22, <1>23 DEF EncodeNext,
    EncodeClient, EncodeProcess, EncodeThread

DeviceInv == ~Over => AtDevice

LEMMA DeviceInvStep ==
  Typed /\ HalvesInv /\ HandOver /\ InputInv /\ CurInv /\ StageInv /\ ContentInv /\ Calm'
    /\ [EncodeNext]_encodeVars
    => DeviceInv'
<1> SUFFICES ASSUME Typed, HalvesInv, HandOver, InputInv, CurInv, StageInv, ContentInv,
                    Calm', [EncodeNext]_encodeVars
             PROVE  DeviceInv'
  OBVIOUS
<1>1. CASE SubmitEnd

  <2>1. /\ ~Over /\ Taken \in Int /\ R \in Nat /\ fed \in Nat /\ R <= Taken /\ Taken <= fed
        /\ Taken' = Taken /\ R' = R /\ fed' \in {fed, fed + 1} /\ (Over' <=> Over)
        /\ UNCHANGED <<mode, got, eosOut, cur, inp, out, flagVars, pc, picture, codecVars,
                       threadVars, encode_cnt, deviceVars>>
    BY <1>1, SubmitKeeps
  <2>2. R # fed + 1 /\ R' # fed' + 1 /\ R <= fed
    BY <1>1, SubmitKeeps
  <2>3. Tagged(ctx.tag, R) => Tagged(ctx.tag, R)'
    BY <2>1, <2>2 DEF Tagged, codecVars
  <2>4. Shown(ctx.source, R) => Shown(ctx.source, R)'
    BY <2>1, <2>2 DEF Shown, codecVars
  <2>5. Reported(R) => Reported(R)'
    BY <2>1, <2>2 DEF Reported, codecVars, deviceVars
  <2>6. Handed' = Handed /\ UNCHANGED <<hEncFrameStart, epc, ctx, indexTimestamp>>
    BY <2>1 DEF Handed, Running, threadVars, codecVars
  <2> QED BY <2>1, <2>3, <2>4, <2>5, <2>6 DEF DeviceInv, ContentInv, AtDevice
<1>2. ASSUME NEW eos \in BOOLEAN, SubmitFrame(eos) PROVE DeviceInv'

  <2>1. /\ ~Over /\ Taken \in Int /\ R \in Nat /\ fed \in Nat /\ R <= Taken /\ Taken <= fed
        /\ Taken' = Taken /\ R' = R /\ fed' \in {fed, fed + 1} /\ (Over' <=> Over)
        /\ UNCHANGED <<mode, got, eosOut, cur, inp, out, flagVars, pc, picture, codecVars,
                       threadVars, encode_cnt, deviceVars>>
    BY <1>2, SubmitKeeps
  <2>2. R # fed + 1 /\ R' # fed' + 1 /\ R <= fed
    BY <1>2, SubmitKeeps
  <2>3. Tagged(ctx.tag, R) => Tagged(ctx.tag, R)'
    BY <2>1, <2>2 DEF Tagged, codecVars
  <2>4. Shown(ctx.source, R) => Shown(ctx.source, R)'
    BY <2>1, <2>2 DEF Shown, codecVars
  <2>5. Reported(R) => Reported(R)'
    BY <2>1, <2>2 DEF Reported, codecVars, deviceVars
  <2>6. Handed' = Handed /\ UNCHANGED <<hEncFrameStart, epc, ctx, indexTimestamp>>
    BY <2>1 DEF Handed, Running, threadVars, codecVars
  <2> QED BY <2>1, <2>3, <2>4, <2>5, <2>6 DEF DeviceInv, ContentInv, AtDevice
<1>3. CASE AskExit
  BY <1>3 DEF AskExit, HandOver, Calm
<1>4. CASE GetQueue

  <2>1. UNCHANGED <<mode, fed, got, eosOut, out, flagVars, pc, picture, codecVars, threadVars,
                    encode_cnt, deviceVars>>
    BY <1>4 DEF GetQueue, clientVars
  <2>2. R' = R /\ (Over' <=> Over) /\ pc = "input"
    BY <1>4, <2>1 DEF R, Over, GetQueue
  <2> QED BY <2>1, <2>2 DEF DeviceInv, ContentInv, AtDevice, Shown, Tagged, Reported, Handed,
    Running, codecVars, threadVars, deviceVars
<1>5. CASE Preprocess
  <2>1. UNCHANGED Counts
    BY <1>5 DEF Preprocess, clientVars, inputVars, Counts, Total, Taken
  <2> QED BY <1>5, <2>1, Values DEF Counts, Preprocess, Ends, Overflows, clientVars,
    inputVars, codecVars, threadVars, deviceVars, DeviceInv, ContentInv, StageInv, Ended,
    Over, R, AtDevice, Shown, Tagged, Reported, HandOver, Handed, Running, InputInv, Typed,
    CodecOK, DeviceOK
<1>6. CASE SkipPreprocess
  <2>1. UNCHANGED Counts
    BY <1>6 DEF SkipPreprocess, clientVars, inputVars, Counts, Total, Taken
  <2> QED BY <1>6, <2>1 DEF Counts, SkipPreprocess, clientVars, codecVars, threadVars,
    deviceVars, DeviceInv, ContentInv, Over, R, AtDevice, Shown, Tagged, Reported, HandOver,
    Handed, Running
<1>7. CASE SkipEncode
  <2>1. UNCHANGED Counts
    BY <1>7 DEF SkipEncode, clientVars, inputVars, Counts, Total, Taken
  <2> QED BY <1>7, <2>1 DEF Counts, SkipEncode, clientVars, codecVars, threadVars, deviceVars,
    DeviceInv, ContentInv, Over, R, AtDevice, Shown, Tagged, Reported, HandOver, Handed,
    Running
<1>8. CASE Configure

  <2>1. Handed = 0 /\ pc' = "done"
    BY <1>8 DEF Configure, HandOver, Working
  <2>2. Handed' = Handed
    BY <1>8 DEF Configure, Handed, Running, threadVars
  <2> QED BY <2>1, <2>2 DEF DeviceInv, AtDevice
<1>9. CASE PassOn
  <2>1. UNCHANGED Counts
    BY <1>9 DEF PassOn, clientVars, inputVars, Counts, Total, Taken
  <2> QED BY <1>9, <2>1 DEF Counts, PassOn, NoOutput, clientVars, codecVars, threadVars,
    deviceVars, DeviceInv, ContentInv, StageInv, Ended, Over, R, AtDevice, Shown, Tagged,
    Reported, HandOver, Handed, Running, InputInv
<1>10. CASE Begin

  <2> SUFFICES ASSUME ~Over', Handed' = 1 \/ pc' = "read" PROVE AtDevice'
    BY DEF DeviceInv, AtDevice
  <2>1. /\ pc = "encode" /\ pc' \in {"send", "await", "read"}
        /\ (pc' = "read" => ~bFirstFrame /\ ~bEncoderRun)
        /\ UNCHANGED <<fed, mode, got, out, eosOut, picture, ctx, indexTimestamp, enc, stream,
                       encode_cnt, hEncFrameStart, hEncFrameEnd, epc>>
        /\ timeStamp' = [timeStamp EXCEPT ![indexTimestamp] = inp.time]
        /\ nFlags' = [nFlags EXCEPT ![indexTimestamp] = inp.eos]
    BY <1>10 DEF Begin, Collect, clientVars, threadVars, deviceVars
  <2>2. Handed' = Handed /\ R' = R /\ (Over' <=> Over)
    BY <2>1 DEF Handed, Running, R, Over
  <2>3. Handed = 1
    BY <2>1, <2>2 DEF HandOver, Working
  <2>4. /\ ctx.tag # indexTimestamp /\ Tagged(ctx.tag, R) /\ Shown(ctx.source, R)
        /\ hEncFrameStart = 0 /\ epc # "exe" => Reported(R)
    BY <2>1, <2>2, <2>3 DEF ContentInv, AtDevice
  <2>5. nFlags'[ctx.tag] = nFlags[ctx.tag] /\ timeStamp'[ctx.tag] = timeStamp[ctx.tag]
    BY <2>1, <2>4 DEF Typed, CodecOK
  <2> QED BY <2>1, <2>2, <2>4, <2>5 DEF AtDevice, Tagged, Shown, Reported
<1>11. CASE Await
  <2>1. UNCHANGED Counts
    BY <1>11 DEF Await, clientVars, inputVars, Counts, Total, Taken
  <2> QED BY <1>11, <2>1 DEF Counts, Await, clientVars, deviceVars, DeviceInv, ContentInv,
    Over, R, AtDevice, Shown, Tagged, Reported, HandOver, Handed, Running
<1>12. CASE Read
  <2>1. UNCHANGED Counts
    BY <1>12 DEF Read, clientVars, inputVars, Counts, Total, Taken
  <2> QED BY <1>12, <2>1 DEF Counts, Read, Drains, threadVars, DeviceInv, AtDevice, Reported,
    HandOver, Handed, Running
<1>13. CASE Send

  <2> SUFFICES ASSUME ~Over' PROVE AtDevice'
    BY DEF DeviceInv
  <2>1. /\ pc = "send" /\ pc' = "sent" /\ ctx' = [source |-> source, tag |-> indexTimestamp]
        /\ hEncFrameStart' = hEncFrameStart + 1
        /\ UNCHANGED <<fed, mode, got, out, eosOut, picture, indexTimestamp, timeStamp,
                       nFlags>>
    BY <1>13 DEF Send, clientVars
  <2>2. ctx'.source = source /\ ctx'.tag = indexTimestamp /\ hEncFrameStart' # 0
    BY <2>1 DEF Typed, DeviceOK
  <2>3. R' = R /\ ~Over
    BY <2>1 DEF R, Over
  <2>4. Tagged(indexTimestamp, R) /\ Shown(source, R)
    BY <2>1, <2>3 DEF ContentInv, ToSend
  <2> QED BY <2>1, <2>2, <2>3, <2>4 DEF AtDevice, Tagged, Shown
<1>14. CASE Sent
  <2>1. UNCHANGED Counts
    BY <1>14 DEF Sent, clientVars, inputVars, Counts, Total, Taken
  <2> QED BY <1>14, <2>1, Values DEF Counts, Sent, NextTag, clientVars, threadVars,
    deviceVars, DeviceInv, ContentInv, Over, R, AtDevice, Shown, Tagged, Reported, HandOver,
    Handed, Running, Typed, CodecOK, DeviceOK
<1>15. CASE Done
  <2>1. UNCHANGED Counts
    BY <1>15 DEF Done, clientVars, inputVars, Counts, Total, Taken
  <2> QED BY <1>15, <2>1 DEF Counts, Done, NoInput, clientVars, codecVars, threadVars,
    deviceVars, DeviceInv, ContentInv, Over, R, AtDevice, Shown, Tagged, Reported, HandOver,
    Handed, Running
<1>16. CASE Deliver

  <2>1. pc = "output" /\ pc' = "input" /\ R' = R /\ (Over' <=> Over)
    BY <1>16, DeliverStep DEF Deliver
  <2>2. UNCHANGED <<fed, mode, picture, codecVars, threadVars, encode_cnt, deviceVars>>
    BY <1>16 DEF Deliver
  <2> QED BY <2>1, <2>2 DEF DeviceInv, ContentInv, AtDevice, Tagged, Shown, Reported, Handed,
    Running, codecVars, threadVars, deviceVars
<1>17. CASE DeliverPart
  <2>1. UNCHANGED Counts
    BY <1>17 DEF DeliverPart, clientVars, inputVars, Counts, Total, Taken
  <2> QED BY <1>17, <2>1 DEF Counts, DeliverPart, clientVars, codecVars, threadVars,
    deviceVars, DeviceInv, ContentInv, Over, R, AtDevice, Shown, Tagged, Reported, HandOver,
    Handed, Running
<1>18. CASE PostExit
  BY <1>18 DEF PostExit, HandOver, Calm
<1>19. CASE CloseDevice
  BY <1>19 DEF CloseDevice, HandOver, Calm
<1>20. CASE StartExe

  <2>1. /\ epc = "wait" /\ epc' = "exe" /\ hEncFrameStart' = hEncFrameStart - 1
        /\ UNCHANGED <<fed, mode, got, out, eosOut, pc, picture, codecVars, hEncFrameEnd>>
    BY <1>20 DEF StartExe, clientVars, Calm
  <2>2. R' = R /\ (Over' <=> Over) /\ Handed' = Handed
    BY <2>1 DEF R, Over, Handed, Running, Typed, DeviceOK
  <2> QED BY <2>1, <2>2 DEF DeviceInv, ContentInv, AtDevice, Tagged, Shown, codecVars
<1>21. CASE Exe

  <2> SUFFICES ASSUME ~Over', Handed' = 1 \/ pc' = "read" PROVE AtDevice'
    BY DEF DeviceInv, AtDevice
  <2>1. /\ epc = "exe" /\ epc' = "post"
        /\ UNCHANGED <<fed, mode, got, out, eosOut, pc, picture, codecVars, hEncFrameStart,
                       hEncFrameEnd, encode_cnt>>
    BY <1>21 DEF Exe, clientVars
  <2>2. R' = R /\ ~Over /\ Handed' = Handed
    BY <2>1 DEF R, Over, Handed, Running
  <2>3. PICK c \in Encodable : /\ stream' = [stream EXCEPT ![job.half] = c]
                               /\ enc' = [c |-> c, tag |-> job.tag]
    BY <1>21, OnlyEncoded DEF Encoded
  <2>4. job.source = ctx.source /\ job.tag = ctx.tag /\ job.half = encode_cnt
    BY <2>1 DEF HandOver
  <2>5. /\ Tagged(ctx.tag, R) /\ Shown(ctx.source, R)
        /\ (pc = "sent") <=> (ctx.tag = indexTimestamp)
    BY <2>1, <2>2 DEF ContentInv, AtDevice
  <2>6. mode = "picture" /\ R <= fed => c = R
    BY <2>3, <2>4, <2>5 DEF Shown, Encodable
  <2>7. Reported(R)'
    <3>1. enc'.tag = ctx'.tag
      BY <2>1, <2>3, <2>4 DEF codecVars
    <3>2. stream'[encode_cnt'] = c
      BY <2>1, <2>3, <2>4 DEF Typed, DeviceOK
    <3> QED BY <2>1, <2>2, <2>6, <3>1, <3>2 DEF Reported
  <2> QED BY <2>1, <2>2, <2>5, <2>7 DEF AtDevice, Tagged, Shown, codecVars
<1>22. CASE PostEnd
  <2>1. UNCHANGED Counts
    BY <1>22 DEF PostEnd, clientVars, inputVars, Counts, Total, Taken
  <2> QED BY <1>22, <2>1 DEF Counts, PostEnd, clientVars, codecVars, deviceVars, DeviceInv,
    ContentInv, Over, R, AtDevice, Shown, Tagged, Reported, HandOver, Handed, Running, Typed,
    CodecOK, DeviceOK
<1>23. CASE UNCHANGED encodeVars
  BY <1>23 DEF encodeVars, clientVars, codecVars, threadVars, deviceVars, Total, Taken,
    DeviceInv, ContentInv, Over, R, AtDevice, Shown, Tagged, Reported, HandOver, Handed,
    Running
<1> QED
  BY <1>1, <1>2, <1>3, <1>4, <1>5, <1>6, <1>7, <1>8, <1>9, <1>10, <1>11, <1>12, <1>13,
    <1>14, <1>15, <1>16, <1>17, <1>18, <1>19, <1>20, <1>21, <1>22, <1>23 DEF EncodeNext,
    EncodeClient, EncodeProcess, EncodeThread

DeliverInv == ~Over => ToDeliver

LEMMA DeliverInvStep ==
  Typed /\ HalvesInv /\ HandOver /\ InputInv /\ CurInv /\ StageInv /\ ContentInv /\ Calm'
    /\ [EncodeNext]_encodeVars
    => DeliverInv'
<1> SUFFICES ASSUME Typed, HalvesInv, HandOver, InputInv, CurInv, StageInv, ContentInv,
                    Calm', [EncodeNext]_encodeVars
             PROVE  DeliverInv'
  OBVIOUS
<1>1. CASE SubmitEnd

  <2>1. /\ ~Over /\ Taken \in Int /\ R \in Nat /\ fed \in Nat /\ R <= Taken /\ Taken <= fed
        /\ Taken' = Taken /\ R' = R /\ fed' \in {fed, fed + 1} /\ (Over' <=> Over)
        /\ UNCHANGED <<mode, got, eosOut, cur, inp, out, flagVars, pc, picture, codecVars,
                       threadVars, encode_cnt, deviceVars>>
    BY <1>1, SubmitKeeps
  <2> QED BY <2>1 DEF DeliverInv, ContentInv, ToDeliver, Held, deviceVars
<1>2. ASSUME NEW eos \in BOOLEAN, SubmitFrame(eos) PROVE DeliverInv'

  <2>1. /\ ~Over /\ Taken \in Int /\ R \in Nat /\ fed \in Nat /\ R <= Taken /\ Taken <= fed
        /\ Taken' = Taken /\ R' = R /\ fed' \in {fed, fed + 1} /\ (Over' <=> Over)
        /\ UNCHANGED <<mode, got, eosOut, cur, inp, out, flagVars, pc, picture, codecVars,
                       threadVars, encode_cnt, deviceVars>>
    BY <1>2, SubmitKeeps
  <2> QED BY <2>1 DEF DeliverInv, ContentInv, ToDeliver, Held, deviceVars
<1>3. CASE AskExit
  BY <1>3 DEF AskExit, HandOver, Calm
<1>4. CASE GetQueue

  <2>1. UNCHANGED <<mode, fed, got, eosOut, out, flagVars, pc, picture, codecVars, threadVars,
                    encode_cnt, deviceVars>>
    BY <1>4 DEF GetQueue, clientVars
  <2>2. R' = R /\ (Over' <=> Over) /\ pc = "input"
    BY <1>4, <2>1 DEF R, Over, GetQueue
  <2> QED BY <2>1, <2>2 DEF DeliverInv, ContentInv, ToDeliver, Held, deviceVars
<1>5. CASE Preprocess
  <2>1. UNCHANGED Counts
    BY <1>5 DEF Preprocess, clientVars, inputVars, Counts, Total, Taken
  <2> QED BY <1>5, <2>1 DEF Counts, Preprocess, Ends, clientVars, deviceVars, DeliverInv,
    ContentInv, Over, R, ToDeliver, Held, HalvesInv
<1>6. CASE SkipPreprocess
  <2>1. UNCHANGED Counts
    BY <1>6 DEF SkipPreprocess, clientVars, inputVars, Counts, Total, Taken
  <2> QED BY <1>6, <2>1 DEF Counts, SkipPreprocess, clientVars, deviceVars, DeliverInv,
    ContentInv, Over, R, ToDeliver, Held, HalvesInv
<1>7. CASE SkipEncode
  <2>1. UNCHANGED Counts
    BY <1>7 DEF SkipEncode, clientVars, inputVars, Counts, Total, Taken
  <2> QED BY <1>7, <2>1 DEF Counts, SkipEncode, clientVars, deviceVars, DeliverInv,
    ContentInv, Over, R, ToDeliver, Held, HalvesInv
<1>8. CASE Configure

  <2>1. encodeFaults' # encodeFaults + 1
    <3>1. encodeFaults' = 0 /\ encodeFaults \in Nat
      BY Values DEF Calm, Typed, DeviceOK
    <3> QED BY <3>1
  <2>2. /\ ~bConfiguredMFC /\ stream' = [stream EXCEPT ![encode_cnt] = Header]
        /\ out'.half = encode_cnt /\ out'.time = 0 /\ UNCHANGED <<got, eosOut, mode>>
        /\ pc = "encode"
    BY <1>8, <2>1 DEF Configure, NoOutput, clientVars
  <2>3. ~Over
    BY <2>2 DEF StageInv, Ended
  <2>4. got' = <<>>
    BY <2>2, <2>3 DEF StageInv, Fresh
  <2>5. stream'[out'.half] = 0
    BY <2>2, Values DEF Typed, DeviceOK
  <2> QED BY <2>2, <2>4, <2>5 DEF DeliverInv, ToDeliver, Held
<1>9. CASE PassOn
  <2>1. UNCHANGED Counts
    BY <1>9 DEF PassOn, clientVars, inputVars, Counts, Total, Taken
  <2> QED BY <1>9, <2>1 DEF Counts, PassOn, NoOutput, DeliverInv, ToDeliver, Held, HalvesInv
<1>10. CASE Begin
  <2>1. UNCHANGED Counts
    BY <1>10 DEF Begin, clientVars, inputVars, Counts, Total, Taken
  <2> QED BY <1>10, <2>1 DEF Counts, Begin, Collect, clientVars, deviceVars, DeliverInv,
    ContentInv, Over, R, ToDeliver, Held, HalvesInv
<1>11. CASE Await
  <2>1. UNCHANGED Counts
    BY <1>11 DEF Await, clientVars, inputVars, Counts, Total, Taken
  <2> QED BY <1>11, <2>1 DEF Counts, Await, clientVars, deviceVars, DeliverInv, ContentInv,
    Over, R, ToDeliver, Held, HalvesInv
<1>12. CASE Read

  <2> SUFFICES ASSUME ~Over' PROVE Held(Len(got))'
    BY DEF DeliverInv, ToDeliver
  <2>1. /\ out'.half = encode_cnt /\ out'.time = timeStamp[enc.tag]
        /\ UNCHANGED <<mode, fed, got, stream>> /\ (out'.eos <=> nFlags[enc.tag])
    <3>1. nFlags[enc.tag] \in BOOLEAN
      BY DEF Typed, CodecOK, DeviceOK
    <3> QED BY <1>12, <3>1 DEF Read, clientVars, deviceVars
  <2>2. ~nFlags[enc.tag]
    BY <2>1 DEF Over
  <2>3. R = Len(got) /\ R <= fed /\ Tagged(ctx.tag, R) /\ Reported(R)
    BY <1>12, <2>2, ReadStep
  <2> QED BY <2>1, <2>3 DEF Held, Tagged, Reported
<1>13. CASE Send
  <2>1. UNCHANGED Counts
    BY <1>13 DEF Send, clientVars, inputVars, Counts, Total, Taken
  <2> QED BY <1>13, <2>1 DEF Counts, Send, clientVars, deviceVars, DeliverInv, ContentInv,
    Over, R, ToDeliver, Held, HalvesInv
<1>14. CASE Sent
  <2>1. UNCHANGED Counts
    BY <1>14 DEF Sent, clientVars, inputVars, Counts, Total, Taken
  <2> QED BY <1>14, <2>1 DEF Counts, Sent, NextTag, clientVars, deviceVars, DeliverInv,
    ContentInv, Over, R, ToDeliver, Held, HalvesInv
<1>15. CASE Done
  <2>1. UNCHANGED Counts
    BY <1>15 DEF Done, clientVars, inputVars, Counts, Total, Taken
  <2> QED BY <1>15, <2>1 DEF Counts, Done, NoInput, clientVars, deviceVars, DeliverInv,
    ContentInv, Over, R, ToDeliver, Held, HalvesInv
<1>16. CASE Deliver
  <2>1. UNCHANGED Counts
    BY <1>16 DEF Deliver, inputVars, Counts, Total, Taken
  <2> QED BY <1>16, <2>1 DEF Counts, Deliver, NoOutput, DeliverInv, ToDeliver, Held, HalvesInv
<1>17. CASE DeliverPart
  <2>1. UNCHANGED Counts
    BY <1>17 DEF DeliverPart, clientVars, inputVars, Counts, Total, Taken
  <2> QED BY <1>17, <2>1 DEF Counts, DeliverPart, clientVars, deviceVars, DeliverInv,
    ContentInv, Over, R, ToDeliver, Held, HalvesInv
<1>18. CASE PostExit
  BY <1>18 DEF PostExit, HandOver, Calm
<1>19. CASE CloseDevice
  BY <1>19 DEF CloseDevice, HandOver, Calm
<1>20. CASE StartExe
  <2>1. UNCHANGED Counts
    BY <1>20 DEF StartExe, clientVars, inputVars, Counts, Total, Taken
  <2> QED BY <1>20, <2>1, Values DEF Counts, StartExe, clientVars, inputVars, flagVars,
    codecVars, DeliverInv, ContentInv, StageInv, Ended, Over, R, ToDeliver, Held, HalvesInv,
    HandOver, InputInv, Typed, DataOK
<1>21. CASE Exe

  <2>1. /\ epc = "exe" /\ UNCHANGED <<mode, got, out, eosOut, encode_cnt>>
    BY <1>21 DEF Exe, clientVars
  <2>2. PICK c \in Encodable : stream' = [stream EXCEPT ![job.half] = c]
    BY <1>21, OnlyEncoded DEF Encoded
  <2>3. job.half = encode_cnt /\ encode_cnt \in Halves
    BY <2>1 DEF HandOver, Typed, DeviceOK
  <2>4. out.len = 1 => stream'[out.half] = stream[out.half]
    BY <2>2, <2>3, Values DEF HalvesInv
  <2> QED BY <2>1, <2>4 DEF DeliverInv, ContentInv, ToDeliver, Held, Over
<1>22. CASE PostEnd
  <2>1. UNCHANGED Counts
    BY <1>22 DEF PostEnd, clientVars, inputVars, Counts, Total, Taken
  <2> QED BY <1>22, <2>1 DEF Counts, PostEnd, clientVars, deviceVars, DeliverInv, ContentInv,
    Over, R, ToDeliver, Held, HalvesInv
<1>23. CASE UNCHANGED encodeVars
  BY <1>23 DEF encodeVars, clientVars, deviceVars, Total, Taken, DeliverInv, ContentInv, Over,
    R, ToDeliver, Held, HalvesInv
<1> QED
  BY <1>1, <1>2, <1>3, <1>4, <1>5, <1>6, <1>7, <1>8, <1>9, <1>10, <1>11, <1>12, <1>13,
    <1>14, <1>15, <1>16, <1>17, <1>18, <1>19, <1>20, <1>21, <1>22, <1>23 DEF EncodeNext,
    EncodeClient, EncodeProcess, EncodeThread
-----------------------------------------------------------------------------
(* The invariant, and what follows from it. *)

\* The pictures that the client has been given so far, and their number when it is
\* told the end.
GotInv == \A k \in 1 .. Len(got) : mode = "picture" => got[k] = [c |-> k - 1, time |-> k - 1]
EndInv == framed /\ eosOut => Len(got) = fed + 1

Flow == HandOver /\ InputInv /\ CurInv /\ StageInv /\ ContentInv

StreamInv ==
  /\ Typed /\ Closing /\ HalvesInv /\ QueueInv /\ CalmHandOver
  /\ Calm /\ Sized => Flow
  /\ encodeFaults = 0 => GotInv /\ EndInv

\* What is sent, at the device and delivered is the right picture.
LEMMA ContentStep ==
  Typed /\ HalvesInv /\ Flow /\ Calm' /\ [EncodeNext]_encodeVars => ContentInv'
BY SendInvStep, DeviceInvStep, DeliverInvStep DEF Flow, SendInv, DeviceInv, DeliverInv,
  ContentInv

\* The stages, what the buffers hold and the hand-over together.
LEMMA FlowStep ==
  Typed /\ HalvesInv /\ QueueInv /\ Flow /\ Sized /\ Calm' /\ [EncodeNext]_encodeVars => Flow'
<1> SUFFICES ASSUME Typed, HalvesInv, QueueInv, Flow, Sized, Calm', [EncodeNext]_encodeVars
             PROVE  Flow'
  OBVIOUS
<1>1. HandOver'
  BY HandOverStep DEF CalmHandOver, Flow
<1>2. InputInv'
  BY InputStep DEF Flow
<1>3. CurInv'
  BY CurStep DEF Flow
<1>4. StageInv'
  BY StageStep DEF Flow
<1>5. ContentInv'
  BY ContentStep
<1> QED BY <1>1, <1>2, <1>3, <1>4, <1>5 DEF Flow

\* Only Deliver gives the client something, and once the component is being
\* closed neither the client nor the process does anything about the stream.
LEMMA GivenSteps ==
  ASSUME Typed, Closing, [EncodeNext]_encodeVars
  PROVE  /\ mode' = mode /\ framed' = framed /\ encodeFaults \in Nat
         /\ encodeFaults' = 0 => encodeFaults = 0
         /\ Deliver \/ got' = got
         /\ bExitEncodeThread =>
              bExitEncodeThread' /\ UNCHANGED <<got, eosOut, fed>>
         /\ ~bExitEncodeThread /\ bExitEncodeThread' => UNCHANGED <<got, eosOut, fed>>
<1>0. encodeFaults \in Nat
  BY Values DEF Typed, DeviceOK
<1>1. CASE SubmitEnd
  BY <1>1, <1>0 DEF SubmitEnd, Submit, deviceVars, Closing
<1>2. CASE \E eos \in BOOLEAN : SubmitFrame(eos)
  BY <1>2, <1>0 DEF SubmitFrame, Submit, threadVars, deviceVars, Closing
<1>3. CASE AskExit
  BY <1>3, <1>0 DEF AskExit, clientVars, deviceVars, Closing
<1>4. CASE GetQueue
  BY <1>4, <1>0 DEF GetQueue, clientVars, deviceVars, Closing
<1>5. CASE Preprocess
  BY <1>5, <1>0 DEF Preprocess, clientVars, deviceVars, Closing
<1>6. CASE SkipPreprocess
  BY <1>6, <1>0 DEF SkipPreprocess, clientVars, deviceVars, Closing
<1>7. CASE SkipEncode
  BY <1>7, <1>0 DEF SkipEncode, clientVars, deviceVars, Closing
<1>8. CASE Configure
  BY <1>8, <1>0 DEF Configure, clientVars, Closing
<1>9. CASE PassOn
  BY <1>9, <1>0 DEF PassOn, clientVars, deviceVars, Closing
<1>10. CASE Begin
  BY <1>10, <1>0 DEF Begin, clientVars, deviceVars, Closing
<1>11. CASE Await
  BY <1>11, <1>0 DEF Await, clientVars, deviceVars, Closing
<1>12. CASE Read
  BY <1>12, <1>0 DEF Read, clientVars, deviceVars, Closing
<1>13. CASE Send
  BY <1>13, <1>0 DEF Send, clientVars, deviceVars, Closing
<1>14. CASE Sent
  BY <1>14, <1>0 DEF Sent, clientVars, deviceVars, Closing
<1>15. CASE Done
  BY <1>15, <1>0 DEF Done, clientVars, deviceVars, Closing
<1>16. CASE Deliver
  BY <1>16, <1>0 DEF Deliver, threadVars, deviceVars, Closing
<1>17. CASE DeliverPart
  BY <1>17, <1>0 DEF DeliverPart, clientVars, deviceVars, Closing
<1>18. CASE PostExit
  BY <1>18, <1>0 DEF PostExit, clientVars, deviceVars, Closing
<1>19. CASE CloseDevice
  BY <1>19, <1>0 DEF CloseDevice, clientVars, threadVars, deviceVars, Closing
<1>20. CASE StartExe
  BY <1>20, <1>0 DEF StartExe, clientVars, Closing
<1>21. CASE Exe
  BY <1>21, <1>0 DEF Exe, Encoded, ExeFails, clientVars, Closing
<1>22. CASE PostEnd
  BY <1>22, <1>0 DEF PostEnd, clientVars, deviceVars, Closing
<1>23. CASE UNCHANGED encodeVars
  BY <1>23, <1>0 DEF encodeVars, clientVars, threadVars, deviceVars
<1> QED
  BY <1>1, <1>2, <1>3, <1>4, <1>5, <1>6, <1>7, <1>8, <1>9, <1>10, <1>11, <1>12, <1>13,
    <1>14, <1>15, <1>16, <1>17, <1>18, <1>19, <1>20, <1>21, <1>22, <1>23 DEF EncodeNext,
    EncodeClient, EncodeProcess, EncodeThread
\* The pictures are given in order, each with its own time.
LEMMA GotStep ==
  Typed /\ Closing /\ (Calm /\ Sized => Flow) /\ GotInv /\ encodeFaults = 0
    /\ [EncodeNext]_encodeVars => GotInv'
<1> SUFFICES ASSUME Typed, Closing, Calm /\ Sized => Flow, GotInv, encodeFaults = 0,
                    [EncodeNext]_encodeVars
             PROVE  GotInv'
  OBVIOUS
<1>1. mode' = mode
  BY GivenSteps
<1>2. CASE got' = got
  BY <1>1, <1>2 DEF GotInv
<1>4. CASE ~Sized
  BY <1>1, <1>4 DEF GotInv, Sized
<1>3. CASE Sized /\ Deliver /\ got' # got
  <2> DEFINE piece == [c |-> stream[out.half], time |-> out.time]
             E == [c : Contents, time : -1 .. Stale]
  <2>1. Flow
    BY <1>3 DEF Deliver, Closing, Calm
  <2>2. out.len \in 0 .. 1
    BY DEF Typed, DataOK
  <2>3. out.len = 1 /\ ~Over /\ got' = Append(got, piece)
    BY <1>3, <2>1, <2>2, DeliverStep DEF Flow
  <2>4. mode = "picture" => piece = [c |-> Len(got), time |-> Len(got)]
    BY <2>1, <2>3 DEF Flow, ContentInv, ToDeliver, Held
  <2>5. got \in Seq(E) /\ Len(got) \in Nat
    BY DEF Typed, ClientOK
  <2> HIDE DEF piece, E
  <2>6. Len(got') = Len(got) + 1 /\ got'[Len(got) + 1] = piece
    BY <2>3, <2>5
  <2>7. \A k \in 1 .. Len(got) : got'[k] = got[k]
    BY <2>3, <2>5
  <2> SUFFICES ASSUME NEW k \in 1 .. Len(got'), mode = "picture"
               PROVE  got'[k] = [c |-> k - 1, time |-> k - 1]
    BY <1>1 DEF GotInv
  <2>8. CASE k = Len(got) + 1
    BY <2>4, <2>5, <2>6, <2>8
  <2>9. CASE k \in 1 .. Len(got)
    BY <2>7, <2>9 DEF GotInv
  <2> QED BY <2>5, <2>6, <2>8, <2>9
<1> QED BY <1>2, <1>3, <1>4, GivenSteps

\* Every picture has been given when the client is told the end.
LEMMA EndCounted == Typed' /\ StageInv' => EndInv'
<1> SUFFICES ASSUME Typed', StageInv', framed', eosOut' PROVE Len(got') = fed' + 1
  BY DEF EndInv
<1>1. Ended'
  BY DEF StageInv, Over
<1>2. R' = fed' + 1 /\ out'.len = 0 /\ Len(got') \in Nat
  BY <1>1 DEF Ended, Typed, ClientOK
<1> QED BY <1>2 DEF R

\* The invariant holds at first, and every step keeps it.
LEMMA StreamInit == EncodeInit => StreamInv
<1> SUFFICES ASSUME EncodeInit PROVE StreamInv
  OBVIOUS
<1>1. Typed
  BY TypedInit
<1>2. Closing /\ HalvesInv
  BY DEF EncodeInit, Closing, HalvesInv, NoOutput
<1>3. queue = <<>> /\ got = <<>> /\ fed = 0 /\ pos = 1 /\ Len(queue) = 0 /\ Len(got) = 0
  BY DEF EncodeInit
<1>4. QueueInv /\ GotInv
  BY <1>3 DEF QueueInv, GotInv
<1>5. Taken = 0
  BY <1>3, Values DEF Taken, Total
<1>6. HandOver
  BY DEF EncodeInit, HandOver, Handed, Running, Working
<1>7. InputInv /\ CurInv
  BY DEF EncodeInit, InputInv, CurInv, NoInput, NoData, NoOutput
<1>8. ~Over /\ out.len = 0 /\ ~bConfiguredMFC /\ pc = "input" /\ ~cur.valid
  BY DEF EncodeInit, Over, NoOutput, NoInput
<1>9. StageInv
  BY <1>3, <1>5, <1>8 DEF EncodeInit, StageInv, Fresh, Behind
<1>10. ContentInv
  BY <1>6, <1>8 DEF ContentInv, ToSend, AtDevice, ToDeliver, HandOver, Working
<1>11. EndInv
  BY DEF EncodeInit, EndInv
<1> QED BY <1>1, <1>2, <1>4, <1>6, <1>7, <1>9, <1>10, <1>11 DEF StreamInv, CalmHandOver, Flow

(* Every step of the encoder preserves the invariant of its stream. *)
LEMMA StreamStep == StreamInv /\ [EncodeNext]_encodeVars => StreamInv'
<1> SUFFICES ASSUME StreamInv, [EncodeNext]_encodeVars PROVE StreamInv'
  OBVIOUS
<1>1. /\ Typed /\ Closing /\ HalvesInv /\ QueueInv /\ CalmHandOver
      /\ Calm /\ Sized => Flow
  BY DEF StreamInv
<1>2. Typed' /\ Closing' /\ HalvesInv' /\ QueueInv' /\ CalmHandOver'
  BY <1>1, TypedStep, ClosingStep, HalvesStep, QueueStep, HandOverStep
<1>3. (Calm' => Calm) /\ (Sized' <=> Sized)
  BY <1>1, GivenSteps DEF Calm, Sized
<1>4. (Calm /\ Sized => Flow)'
  BY <1>1, <1>3, FlowStep
<1>5. ASSUME encodeFaults' = 0 PROVE GotInv' /\ EndInv'
  <2>1. encodeFaults = 0 /\ GotInv /\ EndInv
    BY <1>1, <1>5, GivenSteps DEF StreamInv
  <2>2. GotInv'
    BY <1>1, <2>1, GotStep
  <2>3. EndInv'
    <3>1. CASE Calm' /\ Sized'
      <4>1. StageInv'
        BY <1>4, <3>1 DEF Flow
      <4> QED BY <1>2, <4>1, EndCounted
    <3>2. CASE ~Calm'
      <4>1. bExitEncodeThread'
        BY <1>2, <1>5, <3>2 DEF Calm
      <4>2. UNCHANGED <<got, eosOut, fed, framed>>
        BY <1>1, <4>1, GivenSteps
      <4> QED BY <2>1, <4>2 DEF EndInv
    <3>3. CASE ~Sized'
      BY <3>3 DEF Sized, EndInv
    <3> QED BY <3>1, <3>2, <3>3
  <2> QED BY <2>2, <2>3
<1> QED BY <1>2, <1>4, <1>5 DEF StreamInv

(* The inductive invariant: types, hand-over, the elements of the stream on their way,
   and what the client has been given. *)
THEOREM StreamInvariant == EncodeSpec => []StreamInv
BY StreamInit, StreamStep, PTL DEF EncodeSpec

(* Every variable keeps to its type, whatever calls of the device fail. *)
THEOREM EncodeTypes == EncodeSpec => []EncodeTypeOK
<1>1. StreamInv => EncodeTypeOK
  BY TypedMeansTypeOK DEF StreamInv
<1> QED BY <1>1, StreamInvariant, PTL

(* The two threads keep out of each other's buffers: while an encode runs or is
   asked for, its outcome is not read and no other is sent, the input buffer that
   is filled is not the one it reads, and the half that is copied not the one it
   writes. *)
THEOREM EncoderAlone == EncodeSpec => []EncodesAlone
<1>1. StreamInv => EncodesAlone
  <2> SUFFICES ASSUME StreamInv, encodeFaults = 0, epc = "exe" \/ hEncFrameStart > 0,
                      ~bExitEncodeThread
               PROVE  /\ pc \notin {"read", "send"}
                      /\ epc = "exe" /\ pc = "input" /\ job.source.own
                           => job.source.at # indexInputBuffer
                      /\ out.len > 0 => encode_cnt # out.half
    BY DEF EncodesAlone
  <2>1. Typed /\ HandOver /\ HalvesInv
    BY DEF StreamInv, CalmHandOver, Calm
  <2>2. Handed >= 1
    BY <2>1 DEF Handed, Running, Typed, DeviceOK
  <2>3. Handed = 1 /\ (bEncoderRun \/ pc = "sent")
    BY <2>1, <2>2 DEF HandOver
  <2>4. pc \notin {"read", "send"}
    BY <2>1, <2>3 DEF HandOver
  <2>5. epc = "exe" => job.source.at # indexInputBuffer
    BY <2>1, <2>3, Values DEF HandOver, Typed, CodecOK
  <2>6. out.len > 0 => encode_cnt # out.half
    BY <2>1, Values DEF HalvesInv, Typed, DeviceOK
  <2> QED BY <2>4, <2>5, <2>6
<1> QED BY <1>1, StreamInvariant, PTL

(* The client is given the header and then every picture it sent, in order and
   with its own time, and, when the pictures come with the end-of-frame flag, all of
   them by the time it is told the end of the stream, for streams of every length. *)
THEOREM StreamDelivered == EncodeSpec => []StreamWhole
<1>1. StreamInv => StreamWhole
  BY DEF StreamInv, StreamWhole, GotInv, EndInv
<1> QED BY <1>1, StreamInvariant, PTL

-----------------------------------------------------------------------------
(* The OMX core.  What a component may be and own. *)
Slot == {"FREE", "ASSIGNED", "ALLOCATED"}
Phase == {"unused", "failed", "gone", "built", "linking", "held", "leaving", "joining",
          "unloading"}
Part == Driver \union Coding \union Process
Resource == Constructed \union Part \union ({"header", "buffer"} \X Port)
Names == UNION Libraries

CompType ==
  [phase : Phase, plugin : Plugin \union {Nobody}, name : Names \union {"none"},
   owned : SUBSET Resource, cur : Comp \union {Nobody},
   handler : {"none", "message", "unload", "exited"},
   currentState : {"none", "Loaded", "Idle"},
   messageQ : Seq({"Idle", "Loaded", "DeInit"}), slots : [Port -> Slot], failed : BOOLEAN]

CoreType ==
  /\ gInitialized \in Nat /\ coreFaults \in Nat /\ gComponentList \subseteq Names
  /\ ghLoadComponentListMutex \in Comp \union {Nobody}
  /\ plugin \in [Plugin -> [lib : {"none", "open", "empty", "gone"}, names : SUBSET Names]]
  /\ comp \in [Comp -> CompType]

(* The list holds the components in clients' hands, each once. *)
Single(s) == \A m, o \in DOMAIN s : s[m] = s[o] => m = o

ListWhole ==
  /\ gLoadComponentList \in Seq(Comp)
  /\ Single(gLoadComponentList)
  /\ InOrder(gLoadComponentList) = {h \in Comp : comp[h].phase = "held"}

(* The mutex is held by the one component whose thread is between taking and
   releasing it; the one that is being linked still knows the end of the list,
   which is what makes LinkAfter append. *)
Locking == {"linking", "leaving", "joining", "unloading"}

LockHeld ==
  /\ \A h \in Comp : ghLoadComponentListMutex = h <=> comp[h].phase \in Locking
  /\ \A h \in Comp : comp[h].phase = "linking" =>
       comp[h].cur = IF gLoadComponentList = <<>> THEN Nobody
                     ELSE gLoadComponentList[Len(gLoadComponentList)]

(* Both hold until a refused SEC_OMX_FreeHandle takes the mutex from its owner. *)
ListType == gLoadComponentList \in Seq(Comp) /\ stolen \in BOOLEAN
LockedList == ~stolen => ListWhole /\ LockHeld

(* Without a failing call the load count is the number of open plugins, and the
   register is not empty while one is open: what Unregister relies on. *)
PluginsCounted ==
  /\ coreFaults = 0 => /\ gInitialized = Cardinality(OpenPlugins)
                       /\ gInitialized > 0 => gComponentList # {}
  /\ \A h \in Alive : comp[h].plugin \in OpenPlugins

CrashExplained == /\ crashed = "FreeHandle" => stolen
                  /\ crashed = "Unregister" => coreFaults > 0

Extra(h) == IF comp[h].failed THEN Overlooked ELSE {}
Empty(h) == \A p \in Port : comp[h].slots[p] = "FREE"

(* The message queue of a component, one command deep until the handle goes. *)
Asked(s) == <<s>>
AskedThen(s, t) == <<s, t>>

(* What a component owns, phase by phase: more than ComponentsAccounted asks,
   which says nothing of the phases between. *)
AtRestOwns(h) ==
  comp[h].phase \in {"unused", "failed", "gone"} =>
    /\ Empty(h) /\ comp[h].owned \subseteq IF coreFaults = 0 THEN {} ELSE Overlooked
    /\ comp[h].handler = "none" /\ comp[h].messageQ = <<>>
NewOwns(h) ==
  comp[h].phase \in {"built", "linking"} =>
    /\ Empty(h) /\ comp[h].owned = Constructed /\ ~comp[h].failed
    /\ comp[h].handler = "message" /\ comp[h].messageQ = <<>> /\ comp[h].currentState = "Loaded"
HeldOwns(h) ==
  comp[h].phase = "held" =>
    /\ comp[h].handler \in {"message", "unload"}
    /\ comp[h].messageQ \in {<<>>, Asked("Idle"), Asked("Loaded")}
    /\ comp[h].messageQ = Asked("Idle") => comp[h].currentState = "Loaded"
    /\ comp[h].messageQ = Asked("Loaded") => comp[h].currentState = "Idle"
    /\ comp[h].handler = "unload" => comp[h].messageQ = Asked("Loaded")
    /\ comp[h].currentState \in {"Loaded", "Idle"}
    /\ comp[h].failed => /\ comp[h].currentState = "Loaded"
                         /\ comp[h].messageQ = <<>> \/ ~(\A p \in Port : comp[h].slots[p] # "FREE")
    /\ IF comp[h].failed THEN comp[h].owned \subseteq Constructed \union BuffersOf(h) \union Overlooked
       ELSE comp[h].owned = Constructed \union RunsWith(h) \union BuffersOf(h)
GoingOwns(h) ==
  /\ comp[h].phase \in {"leaving", "joining", "unloading"} => Empty(h)
  /\ comp[h].phase = "leaving" =>
       /\ comp[h].owned \subseteq Constructed \union Extra(h)
       /\ comp[h].handler = "message" /\ comp[h].messageQ \in {<<>>, Asked("Idle")}
  /\ comp[h].phase = "joining" =>
       /\ comp[h].owned \subseteq InOrder(Library) \union InOrder(Base) \union Extra(h)
       /\ \/ comp[h].handler = "message"
             /\ comp[h].messageQ \in {Asked("DeInit"), AskedThen("Idle", "DeInit")}
          \/ comp[h].handler = "exited"
  /\ comp[h].phase = "unloading" =>
       /\ comp[h].owned \subseteq InOrder(Library) \union Extra(h)
       /\ comp[h].handler = "none"
Owns(h) == /\ AtRestOwns(h) /\ NewOwns(h) /\ HeldOwns(h) /\ GoingOwns(h)
           /\ comp[h].failed => coreFaults > 0
CoreInv ==
  /\ CoreType /\ ListType
  /\ crashed = "no" => LockedList
  /\ PluginsCounted /\ CrashExplained
  /\ \A h \in Comp : Owns(h)

-----------------------------------------------------------------------------
(* The resources, by layer. *)
LEMMA InOrderTwo == ASSUME NEW a, NEW b PROVE InOrder(<<a, b>>) = {a, b}
  BY DEF InOrder
LEMMA InOrderFive ==
  ASSUME NEW a, NEW b, NEW c, NEW d, NEW e
  PROVE  InOrder(<<a, b, c, d, e>>) = {a, b, c, d, e}
  BY DEF InOrder

(* The members of a concatenation are the members of its two parts. *)
LEMMA InOrderConcat ==
  ASSUME NEW S, NEW s \in Seq(S), NEW t \in Seq(S)
  PROVE  InOrder(s \o t) = InOrder(s) \union InOrder(t)
<1>1. /\ s \o t \in Seq(S) /\ Len(s \o t) = Len(s) + Len(t)
      /\ \A m \in 1 .. Len(s) + Len(t) :
           (s \o t)[m] = IF m <= Len(s) THEN s[m] ELSE t[m - Len(s)]
  BY ConcatProperties
<1>2. /\ DOMAIN s = 1 .. Len(s) /\ DOMAIN t = 1 .. Len(t) /\ Len(s) \in Nat /\ Len(t) \in Nat
      /\ DOMAIN (s \o t) = 1 .. Len(s) + Len(t)
  BY <1>1, LenProperties
<1>3. ASSUME NEW x \in InOrder(s \o t) PROVE x \in InOrder(s) \union InOrder(t)
  <2>1. PICK m \in 1 .. Len(s) + Len(t) : x = (s \o t)[m]
    BY <1>2, <1>3 DEF InOrder
  <2>2. CASE m <= Len(s)
    BY <2>1, <2>2, <1>1, <1>2 DEF InOrder
  <2>3. CASE ~(m <= Len(s))
    <3>1. m - Len(s) \in 1 .. Len(t) /\ x = t[m - Len(s)]
      BY <2>1, <2>3, <1>1, <1>2
    <3> QED BY <3>1, <1>2 DEF InOrder
  <2> QED BY <2>2, <2>3
<1>4. ASSUME NEW x \in InOrder(s) PROVE x \in InOrder(s \o t)
  <2>1. PICK m \in 1 .. Len(s) : x = s[m]
    BY <1>2, <1>4 DEF InOrder
  <2>2. m \in 1 .. Len(s) + Len(t) /\ (s \o t)[m] = x
    BY <2>1, <1>1, <1>2
  <2> QED BY <2>2, <1>2 DEF InOrder
<1>5. ASSUME NEW x \in InOrder(t) PROVE x \in InOrder(s \o t)
  <2>1. PICK m \in 1 .. Len(t) : x = t[m]
    BY <1>2, <1>5 DEF InOrder
  <2>2. m + Len(s) \in 1 .. Len(s) + Len(t) /\ (s \o t)[m + Len(s)] = x
    BY <2>1, <1>1, <1>2
  <2> QED BY <2>2, <1>2 DEF InOrder
<1> QED BY <1>3, <1>4, <1>5

(* What each layer constructs, as a set. *)
LEMMA LibraryHas == InOrder(Library) = {One("libHandle"), One("pOMXComponent")}
  BY InOrderTwo DEF Library
LEMMA BaseHas ==
  InOrder(Base) = {One("pSECComponent"), One("msgSemaphoreHandle"), One("compMutex"),
                   One("messageQ"), One("hMessageHandler")}
  BY InOrderFive DEF Base
LEMMA CodecHas == InOrder(Codec) = {One("componentName"), One("hCodecHandle")}
  BY InOrderTwo DEF Codec
LEMMA VideoHas == InOrder(Video) = {"cMIMEType"} \X Port
<1>1. InOrder(Video) = {<<"cMIMEType", "input">>, <<"cMIMEType", "output">>}
  BY InOrderTwo DEF Video
<1> QED BY <1>1 DEF Port
PortKinds == {"bufferQ", "bufferHeader", "bufferStateAllocate", "loadedResource",
              "unloadedResource"}
(* One port's resources are of that port, and all ports' make up the pairs. *)
LEMMA OfPortHas ==
  ASSUME NEW p \in Port, NEW S, PortKinds \X {p} \subseteq S
  PROVE  OfPort(p) \in Seq(S) /\ InOrder(OfPort(p)) = PortKinds \X {p}
<1>1. InOrder(OfPort(p)) = {<<"bufferQ", p>>, <<"bufferHeader", p>>, <<"bufferStateAllocate", p>>,
               <<"loadedResource", p>>, <<"unloadedResource", p>>}
  BY InOrderFive DEF OfPort
<1>2. InOrder(OfPort(p)) = PortKinds \X {p}
  BY <1>1 DEF PortKinds
<1>3. /\ <<"bufferQ", p>> \in S /\ <<"bufferHeader", p>> \in S /\ <<"bufferStateAllocate", p>> \in S
      /\ <<"loadedResource", p>> \in S /\ <<"unloadedResource", p>> \in S
  BY DEF PortKinds
<1>4. OfPort(p) \in Seq(S)
  BY <1>3 DEF OfPort
<1> QED BY <1>2, <1>4
LEMMA PortsHave == InOrder(Ports) = {One("pSECPort")} \union (PortKinds \X Port)
<1> DEFINE S == {One("pSECPort")} \union (PortKinds \X Port)
           one == <<One("pSECPort")>>
           a == OfPort("input")
           b == OfPort("output")
<1>1. InOrder(one) = {One("pSECPort")}
  BY DEF InOrder
<1>a. One("pSECPort") \in S
  OBVIOUS
<1>b. one \in Seq(S)
  <2> DEFINE x == One("pSECPort")
  <2>1. x \in S
    BY <1>a
  <2> HIDE DEF x, S
  <2>2. <<x>> \in Seq(S)
    BY <2>1
  <2> QED BY <2>2 DEF x
<1>2. /\ a \in Seq(S) /\ InOrder(a) = PortKinds \X {"input"}
      /\ b \in Seq(S) /\ InOrder(b) = PortKinds \X {"output"}
  <2>1. "input" \in Port /\ "output" \in Port
    BY DEF Port
  <2>2. PortKinds \X {"input"} \subseteq S /\ PortKinds \X {"output"} \subseteq S
    BY <2>1
  <2> HIDE DEF S
  <2> QED BY <2>1, <2>2, OfPortHas
<1>3. Ports = (one \o a) \o b
  BY DEF Ports
<1>6. S = {One("pSECPort")} \union (PortKinds \X {"input"}) \union (PortKinds \X {"output"})
  BY DEF Port
<1> HIDE DEF one, a, b, S
<1>4. one \o a \in Seq(S)
  BY <1>b, <1>2, ConcatProperties
<1>7. InOrder(one \o a) = InOrder(one) \union InOrder(a)
  BY <1>b, <1>2, InOrderConcat
<1>5. InOrder((one \o a) \o b) = InOrder(one \o a) \union InOrder(b)
  <2> DEFINE c == one \o a
  <2>1. c \in Seq(S) /\ b \in Seq(S)
    BY <1>2, <1>4
  <2> HIDE DEF c
  <2>2. InOrder(c \o b) = InOrder(c) \union InOrder(b)
    BY <2>1, InOrderConcat
  <2> QED BY <2>2 DEF c
<1> QED BY <1>1, <1>2, <1>3, <1>5, <1>6, <1>7 DEF S

(* The kinds of what is constructed, of what a component runs with, and of
   the client's buffers are all different. *)
LEMMA ConstructedHas ==
  /\ InOrder(Library) \subseteq Constructed /\ InOrder(Base) \subseteq Constructed
  /\ Constructed = {One("libHandle"), One("pOMXComponent"), One("pSECComponent"),
        One("msgSemaphoreHandle"), One("compMutex"), One("messageQ"), One("hMessageHandler"),
        One("pSECPort"), One("componentName"), One("hCodecHandle")}
        \union (PortKinds \X Port) \union ({"cMIMEType"} \X Port)
  BY LibraryHas, BaseHas, CodecHas, VideoHas, PortsHave DEF Constructed

(* What the constructor, the start and a buffer allocate are different things. *)
LEMMA KindsApart ==
  /\ \A r \in Constructed : r \notin Part /\ r \notin {"header", "buffer"} \X Port
  /\ \A r \in Part : r \notin {"header", "buffer"} \X Port
<1>1. /\ \A r \in Constructed : r \notin Part
  BY ConstructedHas DEF Part, Driver, Coding, Process, One, PortKinds
<1>2. /\ \A r \in Constructed : r \notin {"header", "buffer"} \X Port
  BY ConstructedHas DEF One, PortKinds
<1>3. /\ \A r \in Part : r \notin {"header", "buffer"} \X Port
  BY DEF Part, Driver, Coding, Process, One
<1> QED BY <1>1, <1>2, <1>3

(* What a failing constructor or start leaves is among what is overlooked. *)
LEMMA BeforeIn == ASSUME NEW r, NEW s PROVE Before(r, s) \subseteq InOrder(s)
  BY DEF Before, InOrder

(* Everything a failed start leaves behind is among the resources overlooked. *)
LEMMA OverlookedHas ==
  /\ InOrder(Base) \subseteq Overlooked /\ InOrder(Codec) \subseteq Overlooked
  /\ Driver \subseteq Overlooked /\ Coding \subseteq Overlooked
  /\ One("hBufferProcess") \in Overlooked
  /\ {"bufferQ", "loadedResource", "unloadedResource"} \X Port \subseteq Overlooked
  BY DEF Overlooked

LEMMA LeftIsOverlooked ==
  ASSUME NEW r \in MayFail, NEW lost \in Losses(r)
  PROVE  LeftWithout(r) \union lost \subseteq Overlooked
<1>1. BaseConstructorLeaves(r) \subseteq Overlooked /\ ComponentInitLeaves(r) \subseteq Overlooked
  BY BeforeIn, OverlookedHas DEF BaseConstructorLeaves, ComponentInitLeaves
<1>2. PortConstructorLeaves(r) \subseteq Overlooked
  <2> SUFFICES ASSUME NEW x \in PortConstructorLeaves(r) PROVE x \in Overlooked
    OBVIOUS
  <2>1. x \in InOrder(Ports) /\ x[1] = "bufferQ"
    BY BeforeIn DEF PortConstructorLeaves
  <2>2. x \in {"bufferQ"} \X Port
    BY <2>1, PortsHave DEF One
  <2> QED BY <2>2, OverlookedHas
<1>3. lost \subseteq {r}
  BY DEF Losses, SemaphoreCreateLoses, MutexCreateLoses, ThreadCreateLoses
<1>4. r[1] \in {"msgSemaphoreHandle", "loadedResource", "unloadedResource", "compMutex",
                "hMessageHandler", "hBufferProcess"} \/ lost = {}
  BY DEF Losses
<1>5. r \in Constructed
  BY DEF MayFail
<1>6. ASSUME r[1] \in {"msgSemaphoreHandle", "loadedResource", "unloadedResource", "compMutex",
                       "hMessageHandler", "hBufferProcess"}
      PROVE  r \in Overlooked
  <2>1. CASE r[1] \in {"loadedResource", "unloadedResource"}
    <3>1. r \in {"loadedResource", "unloadedResource"} \X Port
      BY <2>1, <1>5, ConstructedHas DEF One, PortKinds
    <3> QED BY <3>1, OverlookedHas
  <2>2. CASE r[1] \notin {"loadedResource", "unloadedResource"}
    <3>1. r[1] \in {"msgSemaphoreHandle", "compMutex", "hMessageHandler", "hBufferProcess"}
      BY <1>6, <2>2
    <3>2. r \in {One("msgSemaphoreHandle"), One("compMutex"), One("hMessageHandler")}
      BY <3>1, <1>5, ConstructedHas DEF One, PortKinds
    <3> QED BY <3>2, BaseHas, OverlookedHas
  <2> QED BY <2>1, <2>2
<1> QED BY <1>1, <1>2, <1>3, <1>4, <1>6 DEF LeftWithout

LEMMA StartIsOverlooked ==
  ASSUME NEW n, NEW left \in CodecInitLeaves(n) \union ProcessLeaves
  PROVE  left \subseteq Overlooked /\ left \subseteq Part
<1>1. left \subseteq Driver \union Coding \union {One("hBufferProcess")}
  <2>1. CASE left \in ProcessLeaves
    <3>1. PICK lost \in Losses(One("hBufferProcess")) : left = Driver \union Coding \union lost
      BY <2>1 DEF ProcessLeaves
    <3>2. lost \subseteq {One("hBufferProcess")}
      BY DEF Losses, SemaphoreCreateLoses, MutexCreateLoses, ThreadCreateLoses
    <3> QED BY <3>1, <3>2
  <2>2. CASE left \in CodecInitLeaves(n)
    BY <2>2 DEF CodecInitLeaves, Mpeg4Dec_InitLeaves, Mpeg4Enc_InitLeaves, Driver,
       SsbSipMfcDecOpenLeaves, SsbSipMfcEncOpenLeaves, SsbSipMfcDecGetInBufLeaves
  <2> QED BY <2>1, <2>2
<1>2. One("hBufferProcess") \in Part
  BY DEF Part, Process
<1> QED BY <1>1, <1>2, OverlookedHas DEF Part

(* Every codec's componentTerminate frees its coding part and the driver. *)
LEMMA TerminateIs == \A n : CodecTerminate(n) = Coding \union Driver
  BY DEF CodecTerminate, Mpeg4Dec_Terminate, Mpeg4Enc_Terminate, SsbSipMfcDecClose,
     SsbSipMfcEncClose

-----------------------------------------------------------------------------
(* The list of loaded components. *)
LEMMA LinkAppends ==
  ASSUME NEW h \in Comp, NEW after, gLoadComponentList \in Seq(Comp),
         after = IF gLoadComponentList = <<>> THEN Nobody
               ELSE gLoadComponentList[Len(gLoadComponentList)]
  PROVE  LinkAfter(after, h) = Append(gLoadComponentList, h)
<1> DEFINE s == gLoadComponentList
           n == Len(s)
<1>1. n \in Nat /\ DOMAIN s = 1 .. n /\ \A m \in 1 .. n : s[m] \in Comp
  BY LenProperties
<1>2. CASE s = <<>>
  BY <1>2 DEF LinkAfter
<1>3. CASE s # <<>>
  <2>1. n \in 1 .. n /\ after = s[n] /\ after # Nobody
    <3>1. n # 0
      BY <1>3, <1>1, EmptySeq
    <3> QED BY <3>1, <1>1, <1>3, OmxCoreAssumption
  <2>2. Upto(after) = 1 .. n
    BY <2>1, <1>1 DEF Upto
  <2>3. Cardinality(1 .. n) = n
    <3> HIDE DEF n
    <3>1. Cardinality(1 .. n) = IF 1 > n THEN 0 ELSE n - 1 + 1
      BY <1>1, FS_Interval
    <3> QED BY <3>1, <1>1
  <2>4. LinkAfter(after, h) = [m \in 1 .. n + 1 |-> IF m \in 1 .. n THEN s[m] ELSE h]
    BY <2>1, <2>2, <2>3 DEF LinkAfter
  <2> HIDE DEF s, n
  <2>5. Append(s, h) \in Seq(Comp) /\ Len(Append(s, h)) = n + 1
        /\ (\A m \in 1 .. n : Append(s, h)[m] = s[m]) /\ Append(s, h)[n + 1] = h
    BY AppendProperties DEF s, n
  <2> DEFINE t == [m \in 1 .. n + 1 |-> IF m \in 1 .. n THEN s[m] ELSE h]
  <2>6. t \in Seq(Comp) /\ Len(t) = n + 1
    BY <1>1
  <2>7. \A m \in 1 .. n + 1 : t[m] = Append(s, h)[m]
    BY <2>5, <1>1
  <2> HIDE DEF t
  <2>8. t = Append(s, h)
    BY <2>5, <2>6, <2>7, SeqEqual
  <2> QED BY <2>4, <2>8 DEF t, s
<1> QED BY <1>2, <1>3

(* Linking a new component keeps the handle list free of repetitions and puts
   the component last. *)
LEMMA AppendSingle ==
  ASSUME NEW s \in Seq(Comp), Single(s), NEW h \in Comp, h \notin InOrder(s)
  PROVE  /\ Append(s, h) \in Seq(Comp) /\ Single(Append(s, h))
         /\ InOrder(Append(s, h)) = InOrder(s) \union {h}
         /\ Append(s, h) # <<>> /\ Append(s, h)[Len(Append(s, h))] = h
<1> DEFINE t == Append(s, h)
           n == Len(s)
<1>1. n \in Nat /\ DOMAIN s = 1 .. n
  BY LenProperties
<1>2. /\ t \in Seq(Comp) /\ Len(t) = n + 1 /\ t # <<>>
      /\ (\A m \in 1 .. n : t[m] = s[m]) /\ t[n + 1] = h
  BY AppendProperties
<1> HIDE DEF t, n
<1>3. DOMAIN t = 1 .. n + 1
  BY <1>2, LenProperties
<1>4. \A m \in 1 .. n : s[m] # h
  BY <1>1 DEF InOrder
<1>5. Single(t)
  <2> SUFFICES ASSUME NEW m \in 1 .. n + 1, NEW o \in 1 .. n + 1, t[m] = t[o] PROVE m = o
    BY <1>3 DEF Single
  <2>1. CASE m \in 1 .. n /\ o \in 1 .. n
    BY <2>1, <1>1, <1>2 DEF Single
  <2>2. CASE m = n + 1 \/ o = n + 1
    BY <2>2, <1>1, <1>2, <1>4
  <2> QED BY <2>1, <2>2, <1>1
<1>6. InOrder(t) = InOrder(s) \union {h}
  <2>1. ASSUME NEW x \in InOrder(t) PROVE x \in InOrder(s) \union {h}
    BY <2>1, <1>1, <1>2, <1>3 DEF InOrder
  <2>2. ASSUME NEW x \in InOrder(s) PROVE x \in InOrder(t)
    <3>1. PICK m \in 1 .. n : x = s[m]
      BY <2>2, <1>1 DEF InOrder
    <3>2. m \in 1 .. n + 1 /\ t[m] = x
      BY <3>1, <1>1, <1>2
    <3> QED BY <3>2, <1>3 DEF InOrder
  <2>3. h \in InOrder(t)
    <3>1. n + 1 \in 1 .. n + 1
      BY <1>1
    <3> QED BY <3>1, <1>2, <1>3 DEF InOrder
  <2> QED BY <2>1, <2>2, <2>3
<1> QED BY <1>2, <1>5, <1>6 DEF t

(* Unlinking takes exactly one component out of a list without repetitions. *)
LEMMA RemoveSingle ==
  ASSUME NEW s \in Seq(Comp), Single(s), NEW k \in DOMAIN s
  PROVE  /\ RemoveAt(s, k) \in Seq(Comp) /\ Single(RemoveAt(s, k))
         /\ InOrder(RemoveAt(s, k)) = InOrder(s) \ {s[k]}
<1> DEFINE n == Len(s)
           a == SubSeq(s, 1, k - 1)
           b == SubSeq(s, k + 1, n)
           t == RemoveAt(s, k)
<1>1. n \in Nat /\ DOMAIN s = 1 .. n /\ k \in 1 .. n /\ \A m \in 1 .. n : s[m] \in Comp
  BY LenProperties
<1> HIDE DEF n
<1>2. a \in Seq(Comp) /\ Len(a) = k - 1 /\ \A m \in 1 .. k - 1 : a[m] = s[m]
  <2>1. k - 1 \in Int /\ 1 \in Int /\ \A m \in 1 .. k - 1 : s[m] \in Comp
    BY <1>1
  <2>2. /\ a \in Seq(Comp) /\ Len(a) = IF 1 <= k - 1 THEN k - 1 - 1 + 1 ELSE 0
        /\ \A m \in 1 .. k - 1 - 1 + 1 : a[m] = s[1 + m - 1]
    BY <2>1, SubSeqProperties
  <2> HIDE DEF a
  <2>3. \A m \in 1 .. k - 1 : m \in 1 .. k - 1 - 1 + 1 /\ 1 + m - 1 = m
    BY <1>1
  <2>4. Len(a) = k - 1
    BY <2>2, <1>1
  <2> QED BY <2>2, <2>3, <2>4
<1>3. b \in Seq(Comp) /\ Len(b) = n - k /\ \A m \in 1 .. n - k : b[m] = s[k + m]
  <2>1. k + 1 \in Int /\ n \in Int /\ \A m \in k + 1 .. n : s[m] \in Comp
    BY <1>1
  <2>2. /\ b \in Seq(Comp) /\ Len(b) = IF k + 1 <= n THEN n - (k + 1) + 1 ELSE 0
        /\ \A m \in 1 .. n - (k + 1) + 1 : b[m] = s[k + 1 + m - 1]
    BY <2>1, SubSeqProperties
  <2> HIDE DEF b
  <2>3. \A m \in 1 .. n - k : m \in 1 .. n - (k + 1) + 1 /\ k + 1 + m - 1 = k + m
    BY <1>1
  <2>4. Len(b) = n - k
    BY <2>2, <1>1
  <2> QED BY <2>2, <2>3, <2>4
<1>4. t = a \o b
  BY DEF RemoveAt, n
<1> HIDE DEF a, b, t
<1>5. /\ t \in Seq(Comp) /\ Len(t) = n - 1
      /\ \A m \in 1 .. n - 1 : t[m] = IF m < k THEN s[m] ELSE s[m + 1]
  <2>1. /\ t \in Seq(Comp) /\ Len(t) = Len(a) + Len(b)
        /\ \A m \in 1 .. Len(a) + Len(b) : t[m] = IF m <= Len(a) THEN a[m] ELSE b[m - Len(a)]
    BY <1>2, <1>3, <1>4, ConcatProperties
  <2>2. Len(t) = n - 1
    BY <2>1, <1>1, <1>2, <1>3
  <2>3. ASSUME NEW m \in 1 .. n - 1 PROVE t[m] = IF m < k THEN s[m] ELSE s[m + 1]
    <3>1. t[m] = IF m <= k - 1 THEN a[m] ELSE b[m - (k - 1)]
      BY <2>1, <1>1, <1>2, <1>3
    <3>2. CASE m < k
      BY <3>1, <3>2, <1>1, <1>2
    <3>3. CASE ~(m < k)
      <4>1. m - (k - 1) \in 1 .. n - k /\ k + (m - (k - 1)) = m + 1
        BY <3>3, <1>1
      <4>2. b[m - (k - 1)] = s[k + (m - (k - 1))]
        BY <4>1, <1>3
      <4> QED BY <3>1, <3>3, <4>1, <4>2, <1>1
    <3> QED BY <3>2, <3>3
  <2> QED BY <2>1, <2>2, <2>3
<1>6. DOMAIN t = 1 .. n - 1
  BY <1>5, LenProperties
<1>7. Single(t)
  <2> SUFFICES ASSUME NEW m \in 1 .. n - 1, NEW o \in 1 .. n - 1, t[m] = t[o] PROVE m = o
    BY <1>6 DEF Single
  <2> DEFINE x == IF m < k THEN m ELSE m + 1
             y == IF o < k THEN o ELSE o + 1
  <2>1. x \in 1 .. n /\ y \in 1 .. n /\ t[m] = s[x] /\ t[o] = s[y]
    BY <1>1, <1>5
  <2>2. x = y
    BY <2>1, <1>1 DEF Single
  <2> QED BY <2>2, <1>1
<1>8. InOrder(t) = InOrder(s) \ {s[k]}
  <2>1. ASSUME NEW x \in InOrder(t) PROVE x \in InOrder(s) \ {s[k]}
    <3>1. PICK m \in 1 .. n - 1 : x = t[m]
      BY <2>1, <1>6 DEF InOrder
    <3> DEFINE y == IF m < k THEN m ELSE m + 1
    <3>2. y \in 1 .. n /\ x = s[y] /\ y # k
      BY <3>1, <1>1, <1>5
    <3> HIDE DEF y
    <3>3. x # s[k]
      BY <3>2, <1>1 DEF Single
    <3> QED BY <3>2, <3>3, <1>1 DEF InOrder
  <2>2. ASSUME NEW x \in InOrder(s) \ {s[k]} PROVE x \in InOrder(t)
    <3>1. PICK y \in 1 .. n : x = s[y]
      BY <2>2, <1>1 DEF InOrder
    <3>2. y # k
      BY <3>1, <2>2
    <3> DEFINE m == IF y < k THEN y ELSE y - 1
    <3>3. m \in 1 .. n - 1 /\ t[m] = s[y]
      BY <3>2, <1>1, <1>5
    <3> HIDE DEF m
    <3> QED BY <3>1, <3>3, <1>6 DEF InOrder
  <2> QED BY <2>1, <2>2
<1> QED BY <1>5, <1>7, <1>8 DEF t

-----------------------------------------------------------------------------
(* The message queue of a component. *)
LEMMA ShortQueues ==
  /\ \A x : Append(<<>>, x) = <<x>> /\ Tail(<<x>>) = <<>> /\ Head(<<x>>) = x /\ <<x>> # <<>>
  /\ \A x, y : /\ Append(<<x>>, y) = <<x, y>> /\ Tail(<<x, y>>) = <<y>> /\ Head(<<x, y>>) = x
               /\ <<x, y>> # <<>>
<1>0. \A x : Append(<<>>, x) = <<x>>
  OBVIOUS
<1>1. \A x : Tail(<<x>>) = <<>> /\ Head(<<x>>) = x /\ <<x>> # <<>>
  OBVIOUS
<1>2. ASSUME NEW x, NEW y PROVE Append(<<x>>, y) = <<x, y>>
  <2> DEFINE S == {x, y}
             s == <<x>>
             t == <<x, y>>
  <2>0. y \in S
    OBVIOUS
  <2>1. s \in Seq(S) /\ Len(s) = 1 /\ s[1] = x
    OBVIOUS
  <2>2. t \in Seq(S) /\ Len(t) = 2 /\ t[1] = x /\ t[2] = y
    OBVIOUS
  <2> HIDE DEF s, t, S
  <2>3. /\ Append(s, y) \in Seq(S) /\ Len(Append(s, y)) = Len(s) + 1
        /\ (\A m \in 1 .. Len(s) : Append(s, y)[m] = s[m]) /\ Append(s, y)[Len(s) + 1] = y
    <3>1. s \in Seq(S)
      BY <2>1
    <3> QED BY <2>0, <3>1, AppendProperties
  <2>4. \A m \in 1 .. 2 : Append(s, y)[m] = t[m]
    BY <2>1, <2>2, <2>3
  <2>5. Append(s, y) = t
    BY <2>1, <2>2, <2>3, <2>4, SeqEqual
  <2> QED BY <2>5 DEF s, t
<1>3. \A x, y : Tail(<<x, y>>) = <<y>> 
  OBVIOUS
<1>4. \A x, y : Head(<<x, y>>) = x /\ <<x, y>> # <<>>
  OBVIOUS
<1> QED BY <1>0, <1>1, <1>2, <1>3, <1>4

(* The message queue with one command in it, and with two. *)
LEMMA AskedIs ==
  /\ \A s : /\ Append(<<>>, s) = Asked(s) /\ Tail(Asked(s)) = <<>> /\ Head(Asked(s)) = s
           /\ Asked(s) # <<>> /\ Asked(s) = <<s>>
  /\ \A s, t : /\ Append(Asked(s), t) = AskedThen(s, t) /\ Tail(AskedThen(s, t)) = Asked(t)
              /\ Head(AskedThen(s, t)) = s /\ AskedThen(s, t) # <<>>
              /\ Asked(s) = Asked(t) => s = t
<1>1. \A s, t : <<s>> = <<t>> => s = t
  OBVIOUS
<1> QED BY <1>1, ShortQueues DEF Asked, AskedThen

LEMMA AskedIn ==
  \A s, t \in {"Idle", "Loaded", "DeInit"} :
    /\ Asked(s) \in Seq({"Idle", "Loaded", "DeInit"})
    /\ AskedThen(s, t) \in Seq({"Idle", "Loaded", "DeInit"})
    /\ <<>> \in Seq({"Idle", "Loaded", "DeInit"})
  BY DEF Asked, AskedThen

(* A step of one component leaves the others what they were. *)
LEMMA BecomeIs ==
  ASSUME CoreType, NEW h \in Comp, NEW r \in CompType, Become(h, r)
  PROVE  /\ comp' \in [Comp -> CompType] /\ comp'[h] = r
         /\ \A k \in Comp : k # h => comp'[k] = comp[k]
  BY DEF CoreType, Become

CompMoved(h) ==
  /\ comp' \in [Comp -> CompType]
  /\ \A k \in Comp : k # h => comp'[k] = comp[k]
  /\ coreFaults' \in Nat /\ coreFaults' >= coreFaults

(* A component no step touches keeps what it owns. *)
LEMMA OwnsStays ==
  ASSUME CoreType, coreFaults' \in Nat, coreFaults' >= coreFaults, NEW k \in Comp,
         comp'[k] = comp[k], Owns(k)
  PROVE  Owns(k)'
<1>0. coreFaults \in Nat
  BY DEF CoreType
<1>1. coreFaults' = 0 => coreFaults = 0
  BY <1>0
<1>2. coreFaults > 0 => coreFaults' > 0
  BY <1>0
<1>3. /\ RunsWith(k)' = RunsWith(k) /\ BuffersOf(k)' = BuffersOf(k)
      /\ Extra(k)' = Extra(k) /\ (Empty(k)' <=> Empty(k))
  BY DEF RunsWith, BuffersOf, Extra, Empty
<1>4. AtRestOwns(k)'
  BY <1>1, <1>3 DEF Owns, AtRestOwns
<1>5. NewOwns(k)'
  BY <1>3 DEF Owns, NewOwns
<1>6. HeldOwns(k)'
  BY <1>3 DEF Owns, HeldOwns
<1>7. GoingOwns(k)'
  BY <1>3 DEF Owns, GoingOwns
<1>8. comp'[k].failed => coreFaults' > 0
  BY <1>2 DEF Owns
<1> QED BY <1>4, <1>5, <1>6, <1>7, <1>8 DEF Owns

(* What the records of a component hold, unused, just built and at its end. *)
LEMMA UnusedIs ==
  Unused \in CompType
<1>1. {} \in SUBSET Resource
  OBVIOUS
<1>2. <<>> \in Seq({"Idle", "Loaded", "DeInit"})
  OBVIOUS
<1>3. [p \in Port |-> "FREE"] \in [Port -> Slot]
  BY DEF Slot
<1>4. "unused" \in Phase
  BY DEF Phase
<1> QED BY <1>1, <1>2, <1>3, <1>4 DEF Unused, CompType

BuiltAs(q, n) == [Unused EXCEPT !.phase = "built", !.plugin = q, !.name = n,
                   !.owned = Constructed, !.handler = "message", !.currentState = "Loaded"]
EndedAs(phase, s) == [Unused EXCEPT !.phase = phase, !.owned = s]

LEMMA BuiltIs ==
  ASSUME NEW q \in Plugin, NEW n \in Names
  PROVE  /\ BuiltAs(q, n) \in CompType /\ BuiltAs(q, n).phase = "built"
         /\ BuiltAs(q, n).plugin = q /\ BuiltAs(q, n).owned = Constructed
         /\ BuiltAs(q, n).handler = "message" /\ BuiltAs(q, n).currentState = "Loaded"
         /\ BuiltAs(q, n).slots = Unused.slots /\ BuiltAs(q, n).messageQ = <<>>
         /\ ~BuiltAs(q, n).failed
<1>1. Constructed \in SUBSET Resource
  BY DEF Resource
<1>2. "built" \in Phase
  BY DEF Phase
<1>3. Unused.messageQ = <<>> /\ ~Unused.failed
  BY DEF Unused
<1> QED BY <1>1, <1>2, <1>3, UnusedIs DEF CompType, BuiltAs

LEMMA EndedIs ==
  ASSUME NEW s \in SUBSET Resource, NEW phase \in {"failed", "gone"}
  PROVE  /\ EndedAs(phase, s) \in CompType /\ EndedAs(phase, s).phase = phase
         /\ EndedAs(phase, s).owned = s /\ EndedAs(phase, s).handler = "none"
         /\ EndedAs(phase, s).slots = Unused.slots /\ EndedAs(phase, s).messageQ = <<>>
         /\ ~EndedAs(phase, s).failed
<1>1. phase \in Phase
  BY DEF Phase
<1>3. Unused.messageQ = <<>> /\ ~Unused.failed /\ Unused.handler = "none"
  BY DEF Unused
<1> QED BY <1>1, <1>3, UnusedIs DEF CompType, EndedAs

CompKept(h) ==
  /\ comp'[h].phase = comp[h].phase /\ comp'[h].cur = comp[h].cur
  /\ comp'[h].plugin = comp[h].plugin

(* The buffers the client has given, as a function of the slots. *)
HeaderPart(p) == <<"header", p>>
DataPart(p) == <<"buffer", p>>
Buf(s) == {HeaderPart(p) : p \in {p \in Port : s[p] # "FREE"}}
            \union {DataPart(p) : p \in {p \in Port : s[p] = "ALLOCATED"}}

(* The headers and the data of different ports are different resources. *)
LEMMA HeadersApart ==
  /\ \A p, q \in Port : HeaderPart(p) = HeaderPart(q) => p = q
  /\ \A p, q \in Port : DataPart(p) = DataPart(q) => p = q
  /\ \A p, q \in Port : HeaderPart(p) # DataPart(q)
  BY DEF HeaderPart, DataPart

(* Which headers and data a component's slots stand for. *)
LEMMA BufHas ==
  ASSUME NEW s
  PROVE  /\ \A p \in Port : HeaderPart(p) \in Buf(s) <=> s[p] # "FREE"
         /\ \A p \in Port : DataPart(p) \in Buf(s) <=> s[p] = "ALLOCATED"
         /\ \A x \in Buf(s) : \E p \in Port : x = HeaderPart(p) \/ x = DataPart(p)
<1>1. \A p \in Port : HeaderPart(p) \in Buf(s) <=> s[p] # "FREE"
  BY HeadersApart DEF Buf
<1>2. \A p \in Port : DataPart(p) \in Buf(s) <=> s[p] = "ALLOCATED"
  BY HeadersApart DEF Buf
<1>3. \A x \in Buf(s) : \E p \in Port : x = HeaderPart(p) \/ x = DataPart(p)
  BY DEF Buf
<1> QED BY <1>1, <1>2, <1>3

(* What one slot's change does to them. *)
LEMMA BufChanges ==
  ASSUME NEW s \in [Port -> Slot], NEW p \in Port, NEW v \in Slot, NEW t,
         t = [s EXCEPT ![p] = v]
  PROVE  /\ s[p] = "FREE" /\ v = "ASSIGNED" => Buf(t) = Buf(s) \union {HeaderPart(p)}
         /\ s[p] = "FREE" /\ v = "ALLOCATED" => Buf(t) = Buf(s) \union {HeaderPart(p), DataPart(p)}
         /\ v = "FREE" => Buf(t) = Buf(s) \ {HeaderPart(p), DataPart(p)}
<1>1. t[p] = v /\ \A q \in Port : q # p => t[q] = s[q]
  OBVIOUS
<1>5. /\ HeaderPart(p) \in Buf(t) <=> t[p] # "FREE"
      /\ DataPart(p) \in Buf(t) <=> t[p] = "ALLOCATED"
      /\ HeaderPart(p) \in Buf(s) <=> s[p] # "FREE"
      /\ DataPart(p) \in Buf(s) <=> s[p] = "ALLOCATED"
  BY BufHas, HeadersApart
<1>6. ASSUME NEW x, x # HeaderPart(p), x # DataPart(p) PROVE x \in Buf(t) <=> x \in Buf(s)
  <2>1. ASSUME NEW q \in Port, x = HeaderPart(q) PROVE x \in Buf(t) <=> x \in Buf(s)
    <3>1. t[q] = s[q]
      BY <1>1, <1>6, <2>1
    <3>2. HeaderPart(q) \in Buf(t) <=> HeaderPart(q) \in Buf(s)
      BY <3>1, BufHas
    <3> QED BY <3>2, <2>1
  <2>2. ASSUME NEW q \in Port, x = DataPart(q) PROVE x \in Buf(t) <=> x \in Buf(s)
    <3>1. t[q] = s[q]
      BY <1>1, <1>6, <2>2
    <3>2. DataPart(q) \in Buf(t) <=> DataPart(q) \in Buf(s)
      BY <3>1, BufHas
    <3> QED BY <3>2, <2>2
  <2> QED BY <2>1, <2>2, BufHas
<1>7. ASSUME s[p] = "FREE", v = "ASSIGNED" PROVE Buf(t) = Buf(s) \union {HeaderPart(p)}
  <2>1. HeaderPart(p) \in Buf(t) /\ DataPart(p) \notin Buf(t) /\ DataPart(p) \notin Buf(s)
    BY <1>1, <1>5, <1>7
  <2> QED BY <2>1, <1>6
<1>8. ASSUME s[p] = "FREE", v = "ALLOCATED" PROVE Buf(t) = Buf(s) \union {HeaderPart(p), DataPart(p)}
  <2>1. HeaderPart(p) \in Buf(t) /\ DataPart(p) \in Buf(t)
    BY <1>1, <1>5, <1>8
  <2> QED BY <2>1, <1>6
<1>9. ASSUME v = "FREE" PROVE Buf(t) = Buf(s) \ {HeaderPart(p), DataPart(p)}
  <2>1. HeaderPart(p) \notin Buf(t) /\ DataPart(p) \notin Buf(t)
    BY <1>1, <1>5, <1>9
  <2> QED BY <2>1, <1>6
<1> QED BY <1>7, <1>8, <1>9

(* They are the buffers the component owns, and none when its ports are empty. *)
LEMMA BufIs ==
  ASSUME NEW h \in Comp
  PROVE  /\ BuffersOf(h) = Buf(comp[h].slots) /\ BuffersOf(h)' = Buf(comp'[h].slots)
         /\ BuffersOf(h) \subseteq {"header", "buffer"} \X Port
         /\ Empty(h) => BuffersOf(h) = {}
  BY DEF BuffersOf, Buf, Empty, HeaderPart, DataPart

-----------------------------------------------------------------------------
(* One lemma per action: the component still owns what it should. *)
LEMMA SendCommandOwns ==
  ASSUME CoreType, NEW h \in Comp, Owns(h), NEW s \in {"Idle", "Loaded"},
         SEC_OMX_SendCommand(h, s)
  PROVE  CompMoved(h) /\ CompKept(h) /\ Owns(h)'
<1> DEFINE c == comp[h]
           d == [c EXCEPT !.messageQ = Asked(s)]
<1>1. c \in CompType /\ c.phase = "held" /\ c.messageQ = <<>> /\ ~c.failed /\ c.currentState # s
      /\ Become(h, d) /\ coreFaults' = coreFaults /\ coreFaults \in Nat
  BY AskedIs DEF CoreType, SEC_OMX_SendCommand, InPhase
<1>2. /\ d \in CompType /\ d.phase = c.phase /\ d.cur = c.cur /\ d.plugin = c.plugin
      /\ d.owned = c.owned /\ d.handler = c.handler /\ d.currentState = c.currentState
      /\ d.slots = c.slots /\ d.messageQ = Asked(s) /\ (d.failed <=> c.failed)
  BY <1>1, AskedIn DEF CompType
<1> HIDE DEF d
<1>3. comp'[h] = d /\ CompMoved(h)
  BY <1>1, <1>2, BecomeIs DEF CompMoved
<1>4. /\ RunsWith(h)' = RunsWith(h) /\ BuffersOf(h)' = BuffersOf(h)
  BY <1>2, <1>3 DEF RunsWith, BuffersOf
<1>5. c.handler = "message" /\ c.currentState \in {"Idle", "Loaded"}
      /\ c.owned = Constructed \union RunsWith(h) \union BuffersOf(h)
  BY <1>1, AskedIs DEF Owns, HeldOwns
<1>6. HeldOwns(h)'
  <2>1. /\ Asked(s) = Asked("Idle") => c.currentState = "Loaded"
        /\ Asked(s) = Asked("Loaded") => c.currentState = "Idle"
        /\ Asked(s) \in {Asked("Idle"), Asked("Loaded")}
    BY <1>1, <1>5, AskedIs
  <2> QED BY <1>1, <1>2, <1>3, <1>4, <1>5, <2>1 DEF HeldOwns
<1>7. d.failed => coreFaults' > 0
  BY <1>1, <1>2
<1> QED BY <1>1, <1>2, <1>3, <1>6, <1>7 DEF Owns, AtRestOwns, NewOwns, GoingOwns, CompKept

(* The client gets a buffer, used or allocated. *)
LEMMA GivenOwns ==
  ASSUME CoreType, NEW h \in Comp, Owns(h), NEW p \in Port, NEW v, NEW parts,
         v \in {"ASSIGNED", "ALLOCATED"},
         parts = IF v = "ASSIGNED" THEN {HeaderPart(p)} ELSE {HeaderPart(p), DataPart(p)},
         InPhase(h, "held"), ToIdle(h), comp[h].slots[p] = "FREE",
         Give(h, p, v, parts), coreFaults' = coreFaults
  PROVE  CompMoved(h) /\ CompKept(h) /\ Owns(h)'
<1> DEFINE c == comp[h]
           d == comp'[h]
           t == [c.slots EXCEPT ![p] = v]
<1>1. /\ c \in CompType /\ c.phase = "held" /\ c.messageQ = Asked("Idle") /\ ~c.failed
      /\ coreFaults \in Nat
  BY AskedIs DEF CoreType, InPhase, ToIdle
<1>2. /\ c.handler = "message" /\ c.currentState = "Loaded"
      /\ c.owned = Constructed \union BuffersOf(h)
  BY <1>1, AskedIs DEF Owns, HeldOwns, RunsWith
<1>3. t \in [Port -> Slot] /\ c.slots \in [Port -> Slot] /\ v \in Slot
  BY <1>1 DEF CompType, Slot
<1>4. parts \subseteq Resource
  BY DEF Resource, HeaderPart, DataPart
<1>5. /\ d \in CompType /\ d.phase = c.phase /\ d.cur = c.cur /\ d.plugin = c.plugin
      /\ d.owned = c.owned \union parts /\ d.handler = c.handler
      /\ d.currentState = c.currentState /\ d.slots = t /\ d.messageQ = c.messageQ
      /\ (d.failed <=> c.failed) /\ CompMoved(h)
  <2> DEFINE e == [c EXCEPT !.slots[p] = v, !.owned = @ \union parts]
  <2>1. /\ e \in CompType /\ e.phase = c.phase /\ e.cur = c.cur /\ e.plugin = c.plugin
        /\ e.owned = c.owned \union parts /\ e.handler = c.handler
        /\ e.currentState = c.currentState /\ e.slots = t /\ e.messageQ = c.messageQ
        /\ (e.failed <=> c.failed)
    BY <1>1, <1>3, <1>4 DEF CompType
  <2>2. Become(h, e)
    BY DEF Give
  <2> HIDE DEF e, t
  <2>3. d = e /\ CompMoved(h)
    BY <1>1, <2>1, <2>2, BecomeIs DEF CompMoved
  <2> QED BY <2>1, <2>3
<1>6. Buf(t) = Buf(c.slots) \union parts
  BY <1>3, BufChanges
<1> HIDE DEF t
<1>7. RunsWith(h)' = {} /\ BuffersOf(h)' = BuffersOf(h) \union parts
  BY <1>2, <1>5, <1>6, BufIs DEF RunsWith
<1>8. HeldOwns(h)'
  BY <1>1, <1>2, <1>5, <1>7, AskedIs DEF HeldOwns
<1> QED BY <1>1, <1>5, <1>8 DEF Owns, AtRestOwns, NewOwns, GoingOwns, CompKept

(* One lemma for each step of a held component: what it owns afterwards is what
   its phase, its state and its slots say. *)
LEMMA GiveUpOwns ==
  ASSUME CoreType, NEW h \in Comp, Owns(h), NEW p \in Port,
         InPhase(h, "held"), ToIdle(h), comp[h].slots[p] = "FREE", CoreFault, GiveUp(h)
  PROVE  CompMoved(h) /\ CompKept(h) /\ Owns(h)'
<1> DEFINE c == comp[h]
           d == comp'[h]
<1>1. /\ c \in CompType /\ c.phase = "held" /\ c.messageQ = Asked("Idle") /\ ~c.failed
      /\ coreFaults \in Nat /\ coreFaults' = coreFaults + 1
  BY AskedIs DEF CoreType, InPhase, ToIdle, CoreFault
<1>2. /\ c.handler = "message" /\ c.currentState = "Loaded"
      /\ c.owned = Constructed \union BuffersOf(h)
  BY <1>1, AskedIs DEF Owns, HeldOwns, RunsWith
<1>3. /\ d \in CompType /\ d.phase = c.phase /\ d.cur = c.cur /\ d.plugin = c.plugin
      /\ d.owned = c.owned /\ d.handler = c.handler
      /\ d.currentState = c.currentState /\ d.slots = c.slots /\ d.messageQ = c.messageQ
      /\ d.failed /\ CompMoved(h)
  <2> DEFINE e == [c EXCEPT !.failed = TRUE]
  <2>1. /\ e \in CompType /\ e.phase = c.phase /\ e.cur = c.cur /\ e.plugin = c.plugin
        /\ e.owned = c.owned /\ e.handler = c.handler
        /\ e.currentState = c.currentState /\ e.slots = c.slots /\ e.messageQ = c.messageQ
        /\ e.failed
    BY <1>1 DEF CompType
  <2>2. Become(h, e)
    BY DEF GiveUp
  <2> HIDE DEF e
  <2>3. d = e /\ CompMoved(h)
    BY <1>1, <2>1, <2>2, BecomeIs DEF CompMoved
  <2> QED BY <2>1, <2>3
<1>4. BuffersOf(h)' = BuffersOf(h)
  BY <1>3, BufIs
<1>5. HeldOwns(h)'
  BY <1>1, <1>2, <1>3, <1>4, AskedIs DEF HeldOwns
<1>6. coreFaults' > 0
  BY <1>1
<1> QED BY <1>1, <1>3, <1>5, <1>6 DEF Owns, AtRestOwns, NewOwns, GoingOwns, CompKept

LEMMA BufferGivenOwns ==
  ASSUME CoreType, NEW h \in Comp, Owns(h), NEW p \in Port,
         SEC_OMX_UseBuffer(h, p) \/ SEC_OMX_AllocateBuffer(h, p)
  PROVE  CompMoved(h) /\ CompKept(h) /\ Owns(h)'
<1>1. CASE CoreFault /\ GiveUp(h)
  BY <1>1, GiveUpOwns DEF SEC_OMX_UseBuffer, SEC_OMX_AllocateBuffer
<1>2. CASE Give(h, p, "ASSIGNED", {HeaderPart(p)}) /\ coreFaults' = coreFaults
  BY <1>2, GivenOwns DEF SEC_OMX_UseBuffer, SEC_OMX_AllocateBuffer, HeaderPart, DataPart
<1>3. CASE /\ Give(h, p, "ALLOCATED", {HeaderPart(p), DataPart(p)})
           /\ coreFaults' = coreFaults
  <2>1. InPhase(h, "held") /\ ToIdle(h) /\ comp[h].slots[p] = "FREE"
    BY DEF SEC_OMX_UseBuffer, SEC_OMX_AllocateBuffer
  <2> DEFINE parts == {HeaderPart(p), DataPart(p)}
  <2>2. Give(h, p, "ALLOCATED", parts) /\ coreFaults' = coreFaults
    BY <1>3
  <2>3. parts = {HeaderPart(p), DataPart(p)}
    OBVIOUS
  <2> HIDE DEF parts
  <2> DEFINE v == "ALLOCATED"
  <2>4. v \in {"ASSIGNED", "ALLOCATED"} /\ v # "ASSIGNED" /\ Give(h, p, v, parts)
    BY <2>2
  <2> HIDE DEF v
  <2> QED BY <2>1, <2>2, <2>3, <2>4, GivenOwns
<1> QED BY <1>1, <1>2, <1>3 DEF SEC_OMX_UseBuffer, SEC_OMX_AllocateBuffer, HeaderPart, DataPart

LEMMA FreeBufferOwns ==
  ASSUME CoreType, NEW h \in Comp, Owns(h), NEW p \in Port, SEC_OMX_FreeBuffer(h, p)
  PROVE  CompMoved(h) /\ CompKept(h) /\ Owns(h)'
<1> DEFINE c == comp[h]
           d == comp'[h]
           t == [c.slots EXCEPT ![p] = "FREE"]
           back == {HeaderPart(p)} \union
                     IF c.slots[p] = "ALLOCATED" THEN {DataPart(p)} ELSE {}
<1>1. /\ c \in CompType /\ c.phase = "held" /\ coreFaults \in Nat /\ coreFaults' = coreFaults
  BY AskedIs DEF CoreType, SEC_OMX_FreeBuffer, InPhase
<1>3. t \in [Port -> Slot] /\ c.slots \in [Port -> Slot] /\ "FREE" \in Slot /\ t[p] = "FREE"
  <2>1. c.slots \in [Port -> Slot] /\ "FREE" \in Slot
    BY <1>1 DEF CompType, Slot
  <2> QED BY <2>1
<1>4. back \subseteq {"header", "buffer"} \X Port
  BY DEF HeaderPart, DataPart
<1>6. Buf(t) = Buf(c.slots) \ {HeaderPart(p), DataPart(p)}
  <2> DEFINE free == "FREE"
  <2>1. c.slots \in [Port -> Slot] /\ free \in Slot /\ t = [c.slots EXCEPT ![p] = free]
    BY <1>3
  <2>2. free = "FREE"
    OBVIOUS
  <2> HIDE DEF free, t
  <2> QED BY <2>1, <2>2, BufChanges
<1>5. /\ d \in CompType /\ d.phase = c.phase /\ d.cur = c.cur /\ d.plugin = c.plugin
      /\ d.owned = c.owned \ back /\ d.handler = c.handler
      /\ d.currentState = c.currentState /\ d.slots = t /\ d.messageQ = c.messageQ
      /\ (d.failed <=> c.failed) /\ CompMoved(h)
  <2> DEFINE e == [c EXCEPT !.slots[p] = "FREE", !.owned = @ \ back]
  <2>1. Become(h, e)
    BY DEF SEC_OMX_FreeBuffer, HeaderPart, DataPart
  <2> HIDE DEF back
  <2>2. /\ e \in CompType /\ e.phase = c.phase /\ e.cur = c.cur /\ e.plugin = c.plugin
        /\ e.owned = c.owned \ back /\ e.handler = c.handler
        /\ e.currentState = c.currentState /\ e.slots = t /\ e.messageQ = c.messageQ
        /\ (e.failed <=> c.failed)
    BY <1>1, <1>3 DEF CompType
  <2> HIDE DEF e, t
  <2>3. d = e /\ CompMoved(h)
    BY <1>1, <2>1, <2>2, BecomeIs DEF CompMoved
  <2> QED BY <2>2, <2>3
<1>a. Buf(c.slots) \ back = Buf(t)
  <2>1. CASE c.slots[p] = "ALLOCATED"
    BY <2>1, <1>6
  <2>2. CASE c.slots[p] # "ALLOCATED"
    <3>1. DataPart(p) \notin Buf(c.slots)
      BY <2>2, BufHas
    <3> QED BY <2>2, <3>1, <1>6
  <2> QED BY <2>1, <2>2
<1> HIDE DEF t, back
<1>7. /\ BuffersOf(h)' = BuffersOf(h) \ back /\ RunsWith(h)' = RunsWith(h)
  BY <1>5, <1>a, BufIs DEF RunsWith
<1>8. (Constructed \union RunsWith(h) \union BuffersOf(h)) \ back
        = Constructed \union RunsWith(h) \union BuffersOf(h)'
  <2>1. RunsWith(h) \subseteq Part
    BY DEF RunsWith, Part
  <2>2. Constructed \ back = Constructed /\ RunsWith(h) \ back = RunsWith(h)
    BY <1>4, <2>1, KindsApart
  <2> QED BY <1>7, <2>2
<1>9. ~(\A q \in Port : d.slots[q] # "FREE")
  BY <1>3, <1>5
<1>b. IF d.failed THEN d.owned \subseteq Constructed \union BuffersOf(h)' \union Overlooked
                  ELSE d.owned = Constructed \union RunsWith(h)' \union BuffersOf(h)'
  <2>1. CASE c.failed
    <3>1. c.owned \subseteq Constructed \union BuffersOf(h) \union Overlooked
      BY <2>1, <1>1 DEF Owns, HeldOwns
    <3> QED BY <2>1, <3>1, <1>5, <1>7
  <2>2. CASE ~c.failed
    <3>1. c.owned = Constructed \union RunsWith(h) \union BuffersOf(h)
      BY <2>2, <1>1 DEF Owns, HeldOwns
    <3> QED BY <2>2, <3>1, <1>5, <1>7, <1>8
  <2> QED BY <2>1, <2>2
<1>c. HeldOwns(h)'
  BY <1>1, <1>5, <1>9, <1>b DEF Owns, HeldOwns
<1>d. d.failed => coreFaults' > 0
  BY <1>1, <1>5 DEF Owns
<1> QED BY <1>1, <1>5, <1>c, <1>d DEF Owns, AtRestOwns, NewOwns, GoingOwns, CompKept

LEMMA OverlookedIn == Overlooked \subseteq Resource
<1>1. InOrder(Codec) \subseteq Constructed /\ InOrder(Base) \subseteq Constructed
  BY DEF Constructed
<1>2. {"bufferQ", "loadedResource", "unloadedResource"} \X Port \subseteq Constructed
  BY ConstructedHas DEF PortKinds
<1>3. One("hBufferProcess") \in Part /\ Driver \subseteq Part /\ Coding \subseteq Part
  BY DEF Part, Process
<1> QED BY <1>1, <1>2, <1>3 DEF Overlooked, Resource

(* The same for the two state changes and the end of the message handler. *)
LEMMA StateSetIdleOwns ==
  ASSUME CoreType, NEW h \in Comp, Owns(h), StateSetIdle(h)
  PROVE  CompMoved(h) /\ CompKept(h) /\ Owns(h)'
<1> DEFINE c == comp[h]
           d == comp'[h]
<1>1. /\ c \in CompType /\ c.handler = "message" /\ c.messageQ # <<>>
      /\ Head(c.messageQ) = "Idle" /\ (\A p \in Port : c.slots[p] # "FREE")
      /\ coreFaults \in Nat
  <2>1. c \in CompType /\ coreFaults \in Nat
    BY DEF CoreType
  <2>2. Takes(h, "Idle") /\ \A p \in Port : c.slots[p] # "FREE"
    BY Zenon DEF StateSetIdle
  <2> QED BY <2>1, <2>2 DEF Takes
<1>2. c.phase = "held"
  <2>1. ~Empty(h)
    BY <1>1 DEF Empty, Port
  <2> QED BY <1>1, <2>1 DEF CompType, Phase, Owns, AtRestOwns, NewOwns, GoingOwns
<1>3. c.messageQ = Asked("Idle") /\ c.currentState = "Loaded" /\ ~c.failed
  BY <1>1, <1>2, AskedIs DEF Owns, HeldOwns
<1>4. c.owned = Constructed \union BuffersOf(h)
  BY <1>2, <1>3 DEF Owns, HeldOwns, RunsWith
<1>q. Tail(c.messageQ) = <<>> /\ <<>> \in Seq({"Idle", "Loaded", "DeInit"})
  BY <1>3, AskedIs
<1>5. CASE /\ Become(h, [c EXCEPT !.messageQ = Tail(@), !.currentState = "Idle",
                                !.owned = @ \union Driver \union Coding \union Process])
           /\ UNCHANGED coreFaults
  <2> DEFINE e == [c EXCEPT !.messageQ = Tail(@), !.currentState = "Idle",
                            !.owned = @ \union Driver \union Coding \union Process]
  <2>p. Driver \union Coding \union Process = Part /\ Part \subseteq Resource
    BY DEF Part, Resource
  <2>1. /\ e \in CompType /\ e.phase = c.phase /\ e.cur = c.cur /\ e.plugin = c.plugin
        /\ e.owned = c.owned \union Part /\ e.handler = c.handler
        /\ e.currentState = "Idle" /\ e.slots = c.slots /\ e.messageQ = <<>>
        /\ (e.failed <=> c.failed)
    BY <1>1, <1>q, <2>p DEF CompType
  <2> HIDE DEF e
  <2>3. d = e /\ CompMoved(h)
    BY <1>1, <1>5, <2>1, BecomeIs DEF CompMoved, e
  <2>4. BuffersOf(h)' = BuffersOf(h) /\ RunsWith(h)' = Part
    BY <1>1, <2>1, <2>3, BufIs DEF RunsWith, Part
  <2>5. HeldOwns(h)'
    BY <1>1, <1>2, <1>3, <1>4, <2>1, <2>3, <2>4, AskedIs DEF HeldOwns
  <2> QED BY <1>2, <1>3, <2>1, <2>3, <2>5 DEF Owns, AtRestOwns, NewOwns, GoingOwns, CompKept
<1> DEFINE L(left) == [c EXCEPT !.messageQ = Tail(@), !.failed = TRUE,
                                !.owned = @ \union left]
<1>6. ASSUME CoreFault, NEW left \in CodecInitLeaves(c.name) \union ProcessLeaves,
             Become(h, L(left))
      PROVE  CompMoved(h) /\ CompKept(h) /\ Owns(h)'
  <2> DEFINE e == L(left)
  <2>p. left \subseteq Overlooked /\ left \subseteq Resource
    BY StartIsOverlooked DEF Resource
  <2>1. /\ e \in CompType /\ e.phase = c.phase /\ e.cur = c.cur /\ e.plugin = c.plugin
        /\ e.owned = c.owned \union left /\ e.handler = c.handler
        /\ e.currentState = c.currentState /\ e.slots = c.slots /\ e.messageQ = <<>>
        /\ e.failed
    BY <1>1, <1>q, <2>p DEF CompType
  <2>2. coreFaults' = coreFaults + 1
    BY <1>6 DEF CoreFault
  <2>a. Become(h, e)
    BY <1>6
  <2> HIDE DEF e, L
  <2>3. d = e /\ CompMoved(h)
    BY <1>1, <2>a, <2>1, <2>2, BecomeIs DEF CompMoved
  <2>4. BuffersOf(h)' = BuffersOf(h)
    BY <2>1, <2>3, BufIs
  <2>5. HeldOwns(h)'
    BY <1>1, <1>2, <1>3, <1>4, <2>p, <2>1, <2>3, <2>4, AskedIs DEF HeldOwns
  <2>6. coreFaults' > 0
    BY <1>1, <2>2
  <2> QED BY <1>2, <2>1, <2>3, <2>5, <2>6 DEF Owns, AtRestOwns, NewOwns, GoingOwns, CompKept
<1>7. \/ /\ Become(h, [c EXCEPT !.messageQ = Tail(@), !.currentState = "Idle",
                             !.owned = @ \union Driver \union Coding \union Process])
         /\ UNCHANGED coreFaults
      \/ CoreFault /\ \E left \in CodecInitLeaves(c.name) \union ProcessLeaves :
                        Become(h, L(left))
  BY Zenon DEF StateSetIdle
<1> HIDE DEF L
<1>8. CASE CoreFault /\ \E left \in CodecInitLeaves(c.name) \union ProcessLeaves :
                           Become(h, L(left))
  BY <1>6, <1>8
<1> QED BY <1>5, <1>7, <1>8

LEMMA StateSetLoadedOwns ==
  ASSUME CoreType, NEW h \in Comp, Owns(h), StateSetLoaded(h)
  PROVE  CompMoved(h) /\ CompKept(h) /\ Owns(h)'
<1> DEFINE c == comp[h]
           d == comp'[h]
           e == [c EXCEPT !.handler = "unload", !.owned = @ \ Part]
<1>1. /\ c \in CompType /\ c.handler = "message" /\ c.messageQ # <<>>
      /\ Head(c.messageQ) = "Loaded" /\ coreFaults \in Nat /\ coreFaults' = coreFaults
  BY DEF CoreType, StateSetLoaded, Takes
<1>2. c.phase = "held"
  <2>1. /\ c.messageQ # <<>> /\ c.messageQ # Asked("Idle")
        /\ c.messageQ # Asked("DeInit") /\ c.messageQ # AskedThen("Idle", "DeInit")
    <3>1. /\ Head(Asked("Idle")) = "Idle" /\ Head(Asked("DeInit")) = "DeInit"
          /\ Head(AskedThen("Idle", "DeInit")) = "Idle"
      BY DEF Asked, AskedThen
    <3> QED BY <1>1, <3>1
  <2>2. c.phase \notin {"leaving", "joining", "unloading"}
    BY <1>1, <2>1 DEF Owns, GoingOwns
  <2> QED BY <1>1, <2>1, <2>2 DEF CompType, Phase, Owns, AtRestOwns, NewOwns
<1>3. c.messageQ = Asked("Loaded") /\ c.currentState = "Idle" /\ ~c.failed
  BY <1>1, <1>2, AskedIs DEF Owns, HeldOwns
<1>4. c.owned = Constructed \union Part \union BuffersOf(h)
  BY <1>1, <1>2, <1>3 DEF Owns, HeldOwns, RunsWith, Part
<1>5. c.owned \ Part = Constructed \union BuffersOf(h)
  BY <1>4, KindsApart, BufIs
<1>6. Become(h, e)
  <2>1. Process \union CodecTerminate(c.name) = Part
    BY TerminateIs DEF Part
  <2> QED BY <2>1 DEF StateSetLoaded, Become, CoreType
<1>7. /\ e \in CompType /\ e.phase = c.phase /\ e.cur = c.cur /\ e.plugin = c.plugin
      /\ e.owned = c.owned \ Part /\ e.handler = "unload"
      /\ e.currentState = c.currentState /\ e.slots = c.slots /\ e.messageQ = c.messageQ
      /\ (e.failed <=> c.failed)
  BY <1>1 DEF CompType
<1> HIDE DEF e
<1>8. d = e /\ CompMoved(h)
  BY <1>1, <1>6, <1>7, BecomeIs DEF CompMoved
<1>9. BuffersOf(h)' = BuffersOf(h) /\ RunsWith(h)' = {}
  BY <1>7, <1>8, BufIs DEF RunsWith
<1>10. HeldOwns(h)'
  BY <1>1, <1>2, <1>3, <1>5, <1>7, <1>8, <1>9, AskedIs DEF HeldOwns
<1> QED BY <1>2, <1>3, <1>7, <1>8, <1>10 DEF Owns, AtRestOwns, NewOwns, GoingOwns, CompKept

LEMMA UnloadOwns ==
  ASSUME CoreType, NEW h \in Comp, Owns(h), Unload(h)
  PROVE  CompMoved(h) /\ CompKept(h) /\ Owns(h)'
<1> DEFINE c == comp[h]
           d == comp'[h]
           e == [c EXCEPT !.handler = "message", !.currentState = "Loaded", !.messageQ = Tail(@)]
<1>1. /\ c \in CompType /\ c.handler = "unload" /\ Empty(h)
      /\ coreFaults \in Nat /\ coreFaults' = coreFaults
  BY DEF CoreType, Unload, Freed, Empty
<1>2. c.phase = "held"
  BY <1>1 DEF CompType, Phase, Owns, AtRestOwns, NewOwns, GoingOwns
<1>3. c.messageQ = Asked("Loaded") /\ c.currentState = "Idle" /\ ~c.failed
  BY <1>1, <1>2, AskedIs DEF Owns, HeldOwns
<1>4. c.owned = Constructed \union BuffersOf(h)
  BY <1>1, <1>2, <1>3 DEF Owns, HeldOwns, RunsWith
<1>6. Become(h, e)
  BY DEF Unload, Become, CoreType
<1>7. /\ e \in CompType /\ e.phase = c.phase /\ e.cur = c.cur /\ e.plugin = c.plugin
      /\ e.owned = c.owned /\ e.handler = "message"
      /\ e.currentState = "Loaded" /\ e.slots = c.slots /\ e.messageQ = <<>>
      /\ (e.failed <=> c.failed)
  <2>1. Tail(c.messageQ) = <<>> /\ <<>> \in Seq({"Idle", "Loaded", "DeInit"})
    BY <1>3, AskedIs
  <2> QED BY <1>1, <2>1 DEF CompType
<1> HIDE DEF e
<1>8. d = e /\ CompMoved(h)
  BY <1>1, <1>6, <1>7, BecomeIs DEF CompMoved
<1>9. BuffersOf(h)' = BuffersOf(h) /\ RunsWith(h)' = {}
  BY <1>7, <1>8, BufIs DEF RunsWith
<1>10. HeldOwns(h)'
  BY <1>1, <1>2, <1>3, <1>4, <1>7, <1>8, <1>9, AskedIs DEF HeldOwns
<1> QED BY <1>2, <1>3, <1>7, <1>8, <1>10 DEF Owns, AtRestOwns, NewOwns, GoingOwns, CompKept

LEMMA HandlerExitOwns ==
  ASSUME CoreType, NEW h \in Comp, Owns(h), HandlerExit(h)
  PROVE  CompMoved(h) /\ CompKept(h) /\ Owns(h)'
<1> DEFINE c == comp[h]
           d == comp'[h]
           e == [c EXCEPT !.handler = "exited", !.messageQ = Tail(@)]
<1>1. /\ c \in CompType /\ c.handler = "message" /\ c.messageQ # <<>>
      /\ Head(c.messageQ) = "DeInit" /\ coreFaults \in Nat /\ coreFaults' = coreFaults
  BY DEF CoreType, HandlerExit, Takes
<1>2. c.phase = "joining"
  BY <1>1, AskedIs DEF CompType, Phase, Owns, AtRestOwns, NewOwns, HeldOwns, GoingOwns
<1>3. c.messageQ = Asked("DeInit")
  <2>1. c.messageQ # AskedThen("Idle", "DeInit")
    <3>1. Head(AskedThen("Idle", "DeInit")) = "Idle"
      BY DEF AskedThen
    <3> QED BY <1>1, <3>1
  <2> QED BY <1>1, <1>2, <2>1 DEF Owns, GoingOwns
<1>6. Become(h, e)
  BY DEF HandlerExit, Become, CoreType
<1>7. /\ e \in CompType /\ e.phase = c.phase /\ e.cur = c.cur /\ e.plugin = c.plugin
      /\ e.owned = c.owned /\ e.handler = "exited"
      /\ e.currentState = c.currentState /\ e.slots = c.slots /\ e.messageQ = <<>>
      /\ (e.failed <=> c.failed)
  <2>1. Tail(c.messageQ) = <<>> /\ <<>> \in Seq({"Idle", "Loaded", "DeInit"})
    BY <1>3, AskedIs
  <2> QED BY <1>1, <2>1 DEF CompType
<1> HIDE DEF e
<1>8. d = e /\ CompMoved(h)
  BY <1>1, <1>6, <1>7, BecomeIs DEF CompMoved
<1>9. Extra(h)' = Extra(h) /\ (Empty(h)' <=> Empty(h))
  BY <1>7, <1>8 DEF Extra, Empty
<1>10. GoingOwns(h)'
  BY <1>2, <1>7, <1>8, <1>9 DEF Owns, GoingOwns
<1>11. d.failed => coreFaults' > 0
  BY <1>1, <1>7, <1>8 DEF Owns
<1> QED BY <1>2, <1>7, <1>8, <1>10, <1>11 DEF Owns, AtRestOwns, NewOwns, HeldOwns, CompKept

-----------------------------------------------------------------------------
(* The same for SEC_OMX_GetHandle, which builds the component or fails. *)
LEMMA GetHandleOwns ==
  ASSUME CoreType, NEW h \in Comp, Owns(h), NEW p \in Plugin, NEW n \in Names,
         SEC_OMX_GetHandle(h, p, n)
  PROVE  /\ CompMoved(h) /\ Owns(h)'
         /\ comp[h].phase = "unused" /\ comp'[h].phase \in {"built", "failed"}
         /\ comp'[h].phase = "built" => comp'[h].plugin = p
<1> DEFINE d == comp'[h]
<1>1. coreFaults \in Nat /\ comp[h].phase = "unused"
  BY DEF CoreType, SEC_OMX_GetHandle, InPhase
<1>2. /\ Unused \in CompType /\ Unused.messageQ = <<>> /\ ~Unused.failed
      /\ Unused.handler = "none" /\ \A q \in Port : Unused.slots[q] = "FREE"
  BY UnusedIs DEF Unused
<1>l. \/ Become(h, BuiltAs(p, n)) /\ coreFaults' = coreFaults
      \/ CoreFault /\ \E r \in MayFail : \E lost \in Losses(r) :
                        Become(h, EndedAs("failed", LeftWithout(r) \union lost))
  BY Zenon DEF SEC_OMX_GetHandle, SEC_OMX_ComponentLoad, BuiltAs, EndedAs
<1>3. CASE Become(h, BuiltAs(p, n)) /\ coreFaults' = coreFaults
  <2>1. d = BuiltAs(p, n) /\ CompMoved(h)
    BY <1>1, <1>3, BuiltIs, BecomeIs DEF CompMoved
  <2>2. Empty(h)'
    BY <1>2, <2>1, BuiltIs DEF Empty
  <2> QED BY <1>1, <2>1, <2>2, BuiltIs DEF Owns, AtRestOwns, NewOwns, HeldOwns, GoingOwns
<1>4. ASSUME CoreFault, NEW left, left \subseteq Overlooked, Become(h, EndedAs("failed", left))
      PROVE  CompMoved(h) /\ Owns(h)' /\ d.phase = "failed"
  <2> DEFINE e == EndedAs("failed", left)
  <2>1. left \in SUBSET Resource
    BY <1>4, OverlookedIn
  <2>2. /\ e \in CompType /\ e.phase = "failed" /\ e.owned = left /\ e.handler = "none"
        /\ e.slots = Unused.slots /\ e.messageQ = <<>> /\ ~e.failed
    BY <2>1, EndedIs
  <2>3. Become(h, e) /\ coreFaults' = coreFaults + 1
    BY <1>4 DEF CoreFault
  <2> HIDE DEF e
  <2>4. d = e /\ CompMoved(h)
    BY <1>1, <2>2, <2>3, BecomeIs DEF CompMoved
  <2>5. Empty(h)' /\ coreFaults' # 0
    BY <1>1, <1>2, <2>2, <2>3, <2>4 DEF Empty
  <2>6. AtRestOwns(h)'
    BY <1>4, <2>2, <2>4, <2>5 DEF AtRestOwns
  <2> QED BY <1>1, <2>2, <2>4, <2>6 DEF Owns, NewOwns, HeldOwns, GoingOwns
<1>5. CASE CoreFault /\ \E r \in MayFail : \E lost \in Losses(r) :
                           Become(h, EndedAs("failed", LeftWithout(r) \union lost))
  <2>0. PICK r \in MayFail : \E lost \in Losses(r) :
               Become(h, EndedAs("failed", LeftWithout(r) \union lost))
    BY <1>5
  <2>1. PICK lost \in Losses(r) : Become(h, EndedAs("failed", LeftWithout(r) \union lost))
    BY <2>0
  <2> DEFINE left == LeftWithout(r) \union lost
  <2>2. left \subseteq Overlooked
    BY LeftIsOverlooked
  <2>3. Become(h, EndedAs("failed", left))
    BY <2>1
  <2> HIDE DEF left
  <2>4. CompMoved(h) /\ Owns(h)' /\ d.phase = "failed"
    BY <1>4, <1>5, <2>2, <2>3
  <2> QED BY <1>1, <2>4
<1> QED BY <1>3, <1>5, <1>l

LastLoaded == IF gLoadComponentList = <<>> THEN Nobody
              ELSE gLoadComponentList[Len(gLoadComponentList)]

(* The end of the handle list is a component, or there is none. *)
LEMMA LastLoadedType ==
  ASSUME gLoadComponentList \in Seq(Comp) PROVE LastLoaded \in Comp \union {Nobody}
<1> DEFINE s == gLoadComponentList
           n == Len(s)
<1>1. n \in Nat /\ \A m \in 1 .. n : s[m] \in Comp
  BY LenProperties
<1>2. s # <<>> => n \in 1 .. n
  BY <1>1, EmptySeq
<1> QED BY <1>1, <1>2 DEF LastLoaded

(* The same for the walk to the end of the list and for the link after it. *)
LEMMA WalkOwns ==
  ASSUME CoreType, NEW h \in Comp, Owns(h), Walk(h), gLoadComponentList \in Seq(Comp)
  PROVE  /\ CompMoved(h) /\ Owns(h)'
         /\ comp[h].phase = "built" /\ comp'[h].phase = "linking"
         /\ comp'[h].plugin = comp[h].plugin /\ comp'[h].cur = LastLoaded
<1> DEFINE c == comp[h]
           e == [c EXCEPT !.phase = "linking", !.cur = LastLoaded]
<1>1. c \in CompType /\ c.phase = "built" /\ coreFaults' = coreFaults /\ coreFaults \in Nat
  BY DEF CoreType, Walk, InPhase
<1>2. Become(h, e)
  BY Zenon DEF Walk, LastLoaded
<1>3. /\ e \in CompType /\ e.phase = "linking" /\ e.cur = LastLoaded /\ e.plugin = c.plugin
      /\ e.owned = c.owned /\ e.handler = c.handler /\ e.currentState = c.currentState
      /\ e.slots = c.slots /\ e.messageQ = c.messageQ /\ (e.failed <=> c.failed)
  <2>1. "linking" \in Phase
    BY DEF Phase
  <2> QED BY <1>1, <2>1, LastLoadedType DEF CompType
<1> HIDE DEF e
<1>4. comp'[h] = e /\ CompMoved(h)
  BY <1>1, <1>2, <1>3, BecomeIs DEF CompMoved
<1>5. Empty(h)' <=> Empty(h)
  BY <1>3, <1>4 DEF Empty
<1>6. NewOwns(h)'
  BY <1>1, <1>3, <1>4, <1>5 DEF Owns, NewOwns
<1>7. ~e.failed
  BY <1>1, <1>3 DEF Owns, NewOwns
<1> QED BY <1>1, <1>3, <1>4, <1>6, <1>7 DEF Owns, AtRestOwns, HeldOwns, GoingOwns

LEMMA LinkOwns ==
  ASSUME CoreType, NEW h \in Comp, Owns(h), Link(h)
  PROVE  /\ CompMoved(h) /\ Owns(h)'
         /\ comp[h].phase = "linking" /\ comp'[h].phase = "held"
         /\ comp'[h].plugin = comp[h].plugin
<1> DEFINE c == comp[h]
           e == [c EXCEPT !.phase = "held", !.cur = Nobody]
<1>1. c \in CompType /\ c.phase = "linking" /\ coreFaults' = coreFaults /\ coreFaults \in Nat
  BY DEF CoreType, Link, InPhase
<1>2. Become(h, e)
  BY Zenon DEF Link
<1>3. /\ e \in CompType /\ e.phase = "held" /\ e.plugin = c.plugin
      /\ e.owned = c.owned /\ e.handler = c.handler /\ e.currentState = c.currentState
      /\ e.slots = c.slots /\ e.messageQ = c.messageQ /\ (e.failed <=> c.failed)
  <2>1. "held" \in Phase
    BY DEF Phase
  <2> QED BY <1>1, <2>1 DEF CompType
<1> HIDE DEF e
<1>4. comp'[h] = e /\ CompMoved(h)
  BY <1>1, <1>2, <1>3, BecomeIs DEF CompMoved
<1>5. /\ c.owned = Constructed /\ Empty(h) /\ ~c.failed /\ c.handler = "message"
      /\ c.messageQ = <<>> /\ c.currentState = "Loaded"
  BY <1>1 DEF Owns, NewOwns
<1>6. BuffersOf(h)' = {} /\ RunsWith(h)' = {}
  BY <1>3, <1>4, <1>5, BufIs DEF RunsWith
<1>7. HeldOwns(h)'
  BY <1>3, <1>4, <1>5, <1>6, AskedIs DEF HeldOwns
<1> QED BY <1>1, <1>3, <1>4, <1>5, <1>7 DEF Owns, AtRestOwns, NewOwns, GoingOwns

(* The same for the steps of SEC_OMX_FreeHandle: unlink, de-initialise, join the
   handler, close the library. *)
LEMMA FreeHandleOwns ==
  ASSUME CoreType, NEW h \in Comp, Owns(h), SEC_OMX_FreeHandle(h),
         h \in InOrder(gLoadComponentList)
  PROVE  /\ CompMoved(h) /\ Owns(h)'
         /\ comp[h].phase = "held" /\ comp'[h].phase = "leaving"
         /\ comp'[h].plugin = comp[h].plugin
<1> DEFINE c == comp[h]
           e == [c EXCEPT !.phase = "leaving"]
<1>1. /\ c \in CompType /\ c.phase = "held" /\ coreFaults' = coreFaults /\ coreFaults \in Nat
      /\ c.currentState = "Loaded" /\ Empty(h) /\ (c.messageQ = <<>> \/ c.failed)
  BY DEF CoreType, SEC_OMX_FreeHandle, FreeingHandle, InPhase, Freed, Empty
<1>2. Become(h, e)
  BY Zenon DEF SEC_OMX_FreeHandle
<1>3. /\ e \in CompType /\ e.phase = "leaving" /\ e.plugin = c.plugin
      /\ e.owned = c.owned /\ e.handler = c.handler /\ e.currentState = c.currentState
      /\ e.slots = c.slots /\ e.messageQ = c.messageQ /\ (e.failed <=> c.failed)
  <2>1. "leaving" \in Phase
    BY DEF Phase
  <2> QED BY <1>1, <2>1 DEF CompType
<1> HIDE DEF e
<1>4. comp'[h] = e /\ CompMoved(h)
  BY <1>1, <1>2, <1>3, BecomeIs DEF CompMoved
<1>5. BuffersOf(h) = {} /\ RunsWith(h) = {}
  BY <1>1, BufIs DEF RunsWith
<1>6. c.messageQ \in {<<>>, Asked("Idle")}
  BY <1>1, AskedIs DEF Owns, HeldOwns
<1>7. c.handler = "message"
  <2>1. c.handler \in {"message", "unload"} /\ (c.handler = "unload" => c.messageQ = Asked("Loaded"))
    BY <1>1 DEF Owns, HeldOwns
  <2>2. Asked("Loaded") # <<>> /\ Asked("Loaded") # Asked("Idle")
    BY AskedIs
  <2> QED BY <1>6, <2>1, <2>2
<1>8. c.owned \subseteq Constructed \union Extra(h)
  BY <1>1, <1>5 DEF Owns, HeldOwns, Extra
<1>9. Extra(h)' = Extra(h) /\ (Empty(h)' <=> Empty(h))
  BY <1>3, <1>4 DEF Extra, Empty
<1>10. GoingOwns(h)'
  BY <1>1, <1>3, <1>4, <1>6, <1>7, <1>8, <1>9 DEF GoingOwns
<1>11. e.failed => coreFaults' > 0
  BY <1>1, <1>3 DEF Owns
<1> QED BY <1>1, <1>3, <1>4, <1>10, <1>11 DEF Owns, AtRestOwns, NewOwns, HeldOwns

LEMMA ComponentDeInitOwns ==
  ASSUME CoreType, NEW h \in Comp, Owns(h), SEC_OMX_ComponentDeInit(h)
  PROVE  /\ CompMoved(h) /\ Owns(h)'
         /\ comp[h].phase = "leaving" /\ comp'[h].phase = "joining"
         /\ comp'[h].plugin = comp[h].plugin
<1> DEFINE c == comp[h]
           freed == CodecDeinit \union VideoComponentDeinit \union SEC_OMX_Port_Destructor
           e == [c EXCEPT !.phase = "joining", !.owned = @ \ freed,
                          !.messageQ = Append(@, "DeInit")]
<1>1. /\ c \in CompType /\ c.phase = "leaving" /\ coreFaults' = coreFaults /\ coreFaults \in Nat
  BY DEF CoreType, SEC_OMX_ComponentDeInit, InPhase
<1>2. Become(h, e)
  BY Zenon DEF SEC_OMX_ComponentDeInit
<1> HIDE DEF freed
<1>5. /\ Empty(h) /\ c.owned \subseteq Constructed \union Extra(h) /\ c.handler = "message"
      /\ c.messageQ \in {<<>>, Asked("Idle")}
  BY <1>1 DEF Owns, GoingOwns
<1>6. Append(c.messageQ, "DeInit") \in {Asked("DeInit"), AskedThen("Idle", "DeInit")}
  <2>1. /\ Append(<<>>, "DeInit") = Asked("DeInit")
        /\ Append(Asked("Idle"), "DeInit") = AskedThen("Idle", "DeInit")
    BY ShortQueues DEF Asked, AskedThen
  <2> QED BY <1>5, <2>1
<1>3. /\ e \in CompType /\ e.phase = "joining" /\ e.plugin = c.plugin
      /\ e.owned = c.owned \ freed /\ e.handler = c.handler /\ e.currentState = c.currentState
      /\ e.slots = c.slots /\ e.messageQ = Append(c.messageQ, "DeInit")
      /\ (e.failed <=> c.failed)
  <2>1. "joining" \in Phase
    BY DEF Phase
  <2>2. Append(c.messageQ, "DeInit") \in Seq({"Idle", "Loaded", "DeInit"})
    BY <1>6, AskedIn
  <2> DEFINE q == Append(c.messageQ, "DeInit")
  <2> HIDE DEF q
  <2> QED BY <1>1, <2>1, <2>2 DEF CompType, q
<1> HIDE DEF e
<1>4. comp'[h] = e /\ CompMoved(h)
  BY <1>1, <1>2, <1>3, BecomeIs DEF CompMoved
<1>7. c.owned \ freed \subseteq InOrder(Library) \union InOrder(Base) \union Extra(h)
  BY <1>5 DEF freed, Constructed, CodecDeinit, VideoComponentDeinit, SEC_OMX_Port_Destructor
<1>9. Extra(h)' = Extra(h) /\ (Empty(h)' <=> Empty(h))
  BY <1>3, <1>4 DEF Extra, Empty
<1>10. GoingOwns(h)'
  BY <1>3, <1>4, <1>5, <1>6, <1>7, <1>9 DEF GoingOwns
<1>11. e.failed => coreFaults' > 0
  BY <1>1, <1>3 DEF Owns
<1> QED BY <1>1, <1>3, <1>4, <1>10, <1>11 DEF Owns, AtRestOwns, NewOwns, HeldOwns

LEMMA DestructorOwns ==
  ASSUME CoreType, NEW h \in Comp, Owns(h), BaseComponent_Destructor(h)
  PROVE  /\ CompMoved(h) /\ Owns(h)'
         /\ comp[h].phase = "joining" /\ comp'[h].phase = "unloading"
         /\ comp'[h].plugin = comp[h].plugin
<1> DEFINE c == comp[h]
           freed == InOrder(Base)
           e == [c EXCEPT !.phase = "unloading", !.handler = "none", !.owned = @ \ freed]
<1>1. /\ c \in CompType /\ c.phase = "joining" /\ coreFaults' = coreFaults /\ coreFaults \in Nat
  BY DEF CoreType, BaseComponent_Destructor, InPhase
<1>2. Become(h, e)
  BY DEF BaseComponent_Destructor, Become, CoreType
<1> HIDE DEF freed
<1>5. /\ Empty(h) /\ c.owned \subseteq InOrder(Library) \union InOrder(Base) \union Extra(h)
  BY <1>1 DEF Owns, GoingOwns
<1>3. /\ e \in CompType /\ e.phase = "unloading" /\ e.plugin = c.plugin
      /\ e.owned = c.owned \ freed /\ e.handler = "none" /\ e.currentState = c.currentState
      /\ e.slots = c.slots /\ e.messageQ = c.messageQ /\ (e.failed <=> c.failed)
  <2>1. "unloading" \in Phase
    BY DEF Phase
  <2> QED BY <1>1, <2>1 DEF CompType
<1> HIDE DEF e
<1>4. comp'[h] = e /\ CompMoved(h)
  BY <1>1, <1>2, <1>3, BecomeIs DEF CompMoved
<1>7. c.owned \ freed \subseteq InOrder(Library) \union Extra(h)
  BY <1>5 DEF freed
<1>9. Extra(h)' = Extra(h) /\ (Empty(h)' <=> Empty(h))
  BY <1>3, <1>4 DEF Extra, Empty
<1>10. GoingOwns(h)'
  BY <1>3, <1>4, <1>5, <1>7, <1>9 DEF GoingOwns
<1>11. e.failed => coreFaults' > 0
  BY <1>1, <1>3 DEF Owns
<1> QED BY <1>1, <1>3, <1>4, <1>10, <1>11 DEF Owns, AtRestOwns, NewOwns, HeldOwns

LEMMA ComponentUnloadOwns ==
  ASSUME CoreType, NEW h \in Comp, Owns(h), SEC_OMX_ComponentUnload(h)
  PROVE  /\ CompMoved(h) /\ Owns(h)'
         /\ comp[h].phase = "unloading" /\ comp'[h].phase = "gone"
<1> DEFINE c == comp[h]
           left == c.owned \ InOrder(Library)
           e == EndedAs("gone", left)
<1>1. /\ c \in CompType /\ c.phase = "unloading" /\ coreFaults' = coreFaults /\ coreFaults \in Nat
  BY DEF CoreType, SEC_OMX_ComponentUnload, InPhase
<1>2. Become(h, e)
  BY Zenon DEF SEC_OMX_ComponentUnload, EndedAs
<1>3. left \in SUBSET Resource
  BY <1>1 DEF CompType
<1>4. left \subseteq Extra(h)
  BY <1>1 DEF Owns, GoingOwns
<1>5. Extra(h) \subseteq IF coreFaults = 0 THEN {} ELSE Overlooked
  <2>1. c.failed => coreFaults # 0
    BY <1>1 DEF Owns
  <2> QED BY <2>1 DEF Extra
<1> HIDE DEF left
<1>6. /\ e \in CompType /\ e.phase = "gone" /\ e.owned = left /\ e.handler = "none"
      /\ e.slots = Unused.slots /\ e.messageQ = <<>> /\ ~e.failed
  BY <1>3, EndedIs
<1> HIDE DEF e
<1>7. comp'[h] = e /\ CompMoved(h)
  BY <1>1, <1>2, <1>6, BecomeIs DEF CompMoved
<1>8. Empty(h)'
  <2>1. \A q \in Port : Unused.slots[q] = "FREE"
    BY DEF Unused
  <2> QED BY <1>6, <1>7, <2>1 DEF Empty
<1>9. AtRestOwns(h)'
  BY <1>1, <1>4, <1>5, <1>6, <1>7, <1>8 DEF AtRestOwns
<1> QED BY <1>1, <1>6, <1>7, <1>9 DEF Owns, NewOwns, HeldOwns, GoingOwns

-----------------------------------------------------------------------------
(* Whatever thread is in the list at the time, it stays a list of components. *)
LEMMA LinkType ==
  ASSUME NEW h \in Comp, NEW after, gLoadComponentList \in Seq(Comp)
  PROVE  LinkAfter(after, h) \in Seq(Comp)
<1> DEFINE s == gLoadComponentList
           n == Len(s)
           k == Cardinality(Upto(after))
<1>1. n \in Nat /\ DOMAIN s = 1 .. n /\ \A m \in 1 .. n : s[m] \in Comp
  BY LenProperties
<1>2. k \in Nat
  <2>1. Upto(after) \subseteq 1 .. n
    BY <1>1 DEF Upto
  <2>2. IsFiniteSet(1 .. n)
    BY <1>1, FS_Interval
  <2> QED BY <2>1, <2>2, FS_Subset, FS_CardinalityType
<1>3. \A m \in Upto(after) : s[m] \in Comp
  BY <1>1 DEF Upto
<1> HIDE DEF k, n
<1>4. [m \in 1 .. k + 1 |-> IF m \in Upto(after) THEN s[m] ELSE h] \in Seq(Comp)
  BY <1>2, <1>3
<1> QED BY <1>4 DEF LinkAfter, k

LEMMA UnlinkedType ==
  ASSUME NEW h \in Comp, gLoadComponentList \in Seq(Comp), h \in InOrder(gLoadComponentList)
  PROVE  Unlinked(h) \in Seq(Comp)
<1> DEFINE s == gLoadComponentList
           n == Len(s)
           k == CHOOSE m \in DOMAIN s : s[m] = h
<1>1. n \in Nat /\ DOMAIN s = 1 .. n
  BY LenProperties
<1>2. k \in 1 .. n
  BY <1>1 DEF InOrder
<1> HIDE DEF k, n
<1>3. SubSeq(s, 1, k - 1) \in Seq(Comp)
  BY <1>1, <1>2, SubSeqProperties DEF n
<1>4. SubSeq(s, k + 1, n) \in Seq(Comp)
  BY <1>1, <1>2, SubSeqProperties DEF n
<1>5. SubSeq(s, 1, k - 1) \o SubSeq(s, k + 1, n) \in Seq(Comp)
  BY <1>3, <1>4, ConcatProperties
<1> QED BY <1>5 DEF Unlinked, RemoveAt, k, n

(* The list and the mutex, action by action. *)
LEMMA AllOwn ==
  ASSUME CoreType, NEW h \in Comp, \A k \in Comp : Owns(k), CompMoved(h), Owns(h)'
  PROVE  \A k \in Comp : Owns(k)'
<1> SUFFICES ASSUME NEW k \in Comp, k # h PROVE Owns(k)'
  OBVIOUS
<1>1. comp'[k] = comp[k] /\ coreFaults' \in Nat /\ coreFaults' >= coreFaults
  BY DEF CompMoved
<1> QED BY <1>1, OwnsStays

(* A step of one component keeps the types of the rest. *)
LEMMA TypeMoves ==
  ASSUME CoreType, NEW h \in Comp, CompMoved(h),
         UNCHANGED <<gInitialized, gComponentList, plugin>>,
         ghLoadComponentListMutex' \in Comp \union {Nobody}
  PROVE  CoreType'
<1>1. comp' \in [Comp -> CompType] /\ coreFaults' \in Nat
  BY DEF CompMoved
<1>2. (gInitialized \in Nat /\ gComponentList \subseteq Names)'
  BY DEF CoreType
<1>3. plugin' \in [Plugin -> [lib : {"none", "open", "empty", "gone"}, names : SUBSET Names]]
  BY DEF CoreType
<1> QED BY <1>1, <1>2, <1>3 DEF CoreType

(* A step of a component that keeps its place in the list. *)
LEMMA ListKept ==
  ASSUME CoreType, ListWhole, LockHeld, NEW h \in Comp, CompMoved(h), CompKept(h),
         UNCHANGED <<gLoadComponentList, ghLoadComponentListMutex>>
  PROVE  ListWhole' /\ LockHeld'
<1>1. \A k \in Comp : comp'[k].phase = comp[k].phase /\ comp'[k].cur = comp[k].cur
  BY DEF CompMoved, CompKept
<1>2. ListWhole'
  BY <1>1 DEF ListWhole
<1>3. LockHeld'
  BY <1>1 DEF LockHeld
<1> QED BY <1>2, <1>3

(* Building a component keeps the list and the mutex as they are. *)
LEMMA ListGetHandle ==
  ASSUME CoreType, ListWhole, LockHeld, NEW h \in Comp, CompMoved(h),
         comp[h].phase = "unused", comp'[h].phase \in {"built", "failed"},
         UNCHANGED <<gLoadComponentList, ghLoadComponentListMutex>>
  PROVE  ListWhole' /\ LockHeld'
<1>1. /\ \A k \in Comp : comp'[k].phase = "held" <=> comp[k].phase = "held"
      /\ \A k \in Comp : comp'[k].phase \in Locking <=> comp[k].phase \in Locking
      /\ \A k \in Comp : comp'[k].phase = "linking" => comp'[k] = comp[k]
  BY DEF CompMoved, Locking
<1>2. ListWhole'
  BY <1>1 DEF ListWhole
<1>3. LockHeld'
  BY <1>1 DEF LockHeld
<1> QED BY <1>2, <1>3

(* The walk takes the mutex and notes the end of the list. *)
LEMMA ListWalk ==
  ASSUME CoreType, ListWhole, LockHeld, NEW h \in Comp, CompMoved(h), Walk(h),
         comp[h].phase = "built", comp'[h].phase = "linking", comp'[h].cur = LastLoaded
  PROVE  ListWhole' /\ LockHeld'
<1>1. /\ ghLoadComponentListMutex = Nobody /\ ghLoadComponentListMutex' = h
      /\ gLoadComponentList' = gLoadComponentList
  BY Zenon DEF Walk
<1>2. \A k \in Comp : comp[k].phase \notin Locking
  BY <1>1, OmxCoreAssumption DEF LockHeld
<1>3. /\ \A k \in Comp : comp'[k].phase = "held" <=> comp[k].phase = "held"
      /\ \A k \in Comp : comp'[k].phase \in Locking <=> k = h
      /\ \A k \in Comp : comp'[k].phase = "linking" => k = h
  BY <1>2 DEF CompMoved, Locking
<1>4. ListWhole'
  BY <1>1, <1>3 DEF ListWhole
<1>5. LockHeld'
  BY <1>1, <1>3 DEF LockHeld, LastLoaded
<1> QED BY <1>4, <1>5

(* The link, under the same mutex, still finds that end and adds one component. *)
LEMMA ListLink ==
  ASSUME CoreType, ListWhole, LockHeld, NEW h \in Comp, CompMoved(h), Link(h),
         comp[h].phase = "linking", comp'[h].phase = "held"
  PROVE  ListWhole' /\ LockHeld'
<1>1. /\ ghLoadComponentListMutex' = Nobody
      /\ gLoadComponentList' = LinkAfter(comp[h].cur, h)
  BY Zenon DEF Link
<1>2. ghLoadComponentListMutex = h
  BY DEF LockHeld, Locking
<1>3. gLoadComponentList' = Append(gLoadComponentList, h)
  BY <1>1, LinkAppends DEF ListWhole, LockHeld
<1>4. h \notin InOrder(gLoadComponentList)
  BY DEF ListWhole
<1>5. /\ Append(gLoadComponentList, h) \in Seq(Comp) /\ Single(Append(gLoadComponentList, h))
      /\ InOrder(Append(gLoadComponentList, h)) = InOrder(gLoadComponentList) \union {h}
  BY <1>4, AppendSingle DEF ListWhole
<1>6. /\ \A k \in Comp : comp'[k].phase = "held" <=> k = h \/ comp[k].phase = "held"
      /\ \A k \in Comp : comp'[k].phase \notin Locking
  <2>1. \A k \in Comp : k # h => comp[k].phase \notin Locking
    BY <1>2 DEF LockHeld
  <2> QED BY <2>1 DEF CompMoved, Locking
<1>7. ListWhole'
  BY <1>3, <1>5, <1>6 DEF ListWhole
<1>8. LockHeld'
  BY <1>1, <1>6, OmxCoreAssumption DEF LockHeld, Locking
<1> QED BY <1>7, <1>8

(* SEC_OMX_FreeHandle unlinks one component and keeps the mutex. *)
LEMMA ListFreeHandle ==
  ASSUME CoreType, ListWhole, LockHeld, NEW h \in Comp, CompMoved(h), SEC_OMX_FreeHandle(h),
         comp[h].phase = "held", comp'[h].phase = "leaving"
  PROVE  ListWhole' /\ LockHeld'
<1> DEFINE s == gLoadComponentList
           k0 == CHOOSE m \in DOMAIN s : s[m] = h
<1>0. h \in InOrder(s)
  BY DEF ListWhole
<1>1. /\ ghLoadComponentListMutex = Nobody /\ ghLoadComponentListMutex' = h
      /\ gLoadComponentList' = RemoveAt(s, k0)
  BY <1>0, Zenon DEF SEC_OMX_FreeHandle, Unlinked
<1>2. k0 \in DOMAIN s /\ s[k0] = h
  BY <1>0 DEF InOrder
<1> HIDE DEF k0
<1>3. /\ RemoveAt(s, k0) \in Seq(Comp) /\ Single(RemoveAt(s, k0))
      /\ InOrder(RemoveAt(s, k0)) = InOrder(s) \ {h}
  BY <1>2, RemoveSingle DEF ListWhole
<1>4. \A k \in Comp : comp[k].phase \notin Locking
  BY <1>1, OmxCoreAssumption DEF LockHeld
<1>6. /\ \A k \in Comp : comp'[k].phase = "held" <=> k # h /\ comp[k].phase = "held"
      /\ \A k \in Comp : comp'[k].phase \in Locking <=> k = h
      /\ \A k \in Comp : comp'[k].phase # "linking"
  BY <1>4 DEF CompMoved, Locking
<1>7. ListWhole'
  BY <1>1, <1>3, <1>6 DEF ListWhole
<1>8. LockHeld'
  BY <1>1, <1>6 DEF LockHeld
<1> QED BY <1>7, <1>8

(* Until the component is unloaded the list and the mutex do not change. *)
LEMMA ListLeaving ==
  ASSUME CoreType, ListWhole, LockHeld, NEW h \in Comp, CompMoved(h),
         comp[h].phase \in {"leaving", "joining"}, comp'[h].phase \in {"joining", "unloading"},
         UNCHANGED <<gLoadComponentList, ghLoadComponentListMutex>>
  PROVE  ListWhole' /\ LockHeld'
<1>1. /\ \A k \in Comp : comp'[k].phase = "held" <=> comp[k].phase = "held"
      /\ \A k \in Comp : comp'[k].phase \in Locking <=> comp[k].phase \in Locking
      /\ \A k \in Comp : comp'[k].phase = "linking" => comp'[k] = comp[k]
  BY DEF CompMoved, Locking
<1>2. ListWhole'
  BY <1>1 DEF ListWhole
<1>3. LockHeld'
  BY <1>1 DEF LockHeld
<1> QED BY <1>2, <1>3

(* The unload gives the mutex back. *)
LEMMA ListUnload ==
  ASSUME CoreType, ListWhole, LockHeld, NEW h \in Comp, CompMoved(h),
         comp[h].phase = "unloading", comp'[h].phase = "gone",
         UNCHANGED gLoadComponentList, ghLoadComponentListMutex' = Nobody
  PROVE  ListWhole' /\ LockHeld'
<1>1. ghLoadComponentListMutex = h
  BY DEF LockHeld, Locking
<1>2. /\ \A k \in Comp : comp'[k].phase = "held" <=> comp[k].phase = "held"
      /\ \A k \in Comp : comp'[k].phase \notin Locking
  <2>1. \A k \in Comp : k # h => comp[k].phase \notin Locking
    BY <1>1 DEF LockHeld
  <2> QED BY <2>1 DEF CompMoved, Locking
<1>3. ListWhole'
  BY <1>2 DEF ListWhole
<1>4. LockHeld'
  BY <1>2, OmxCoreAssumption DEF LockHeld, Locking
<1> QED BY <1>3, <1>4

(* A step of one component keeps the count of the open plugins. *)
LEMMA PluginsKept ==
  ASSUME CoreType, PluginsCounted, NEW h \in Comp, CompMoved(h),
         UNCHANGED <<gInitialized, gComponentList, plugin>>,
         h \in Alive' => comp'[h].plugin \in OpenPlugins
  PROVE  PluginsCounted'
<1>1. OpenPlugins' = OpenPlugins
  BY DEF OpenPlugins
<1>2. coreFaults' = 0 => coreFaults = 0
  <2>1. coreFaults \in Nat
    BY DEF CoreType
  <2>2. coreFaults' \in Nat /\ coreFaults' >= coreFaults
    BY DEF CompMoved
  <2> QED BY <2>1, <2>2
<1>3. \A k \in Alive' : comp'[k].plugin \in OpenPlugins
  <2> SUFFICES ASSUME NEW k \in Alive', k # h PROVE comp'[k].plugin \in OpenPlugins
    OBVIOUS
  <2>1. k \in Comp /\ comp'[k] = comp[k]
    BY DEF Alive, CompMoved
  <2>2. k \in Alive
    BY <2>1 DEF Alive
  <2> QED BY <2>1, <2>2 DEF PluginsCounted
<1> QED BY <1>1, <1>2, <1>3 DEF PluginsCounted

-----------------------------------------------------------------------------
(* The plugins and the register. *)
LEMMA RegisterNotEmpty == UNION Libraries # {} /\ UNION Libraries = Names
<1>1. "AVC.Decoder" \in H264dec /\ H264dec \in Libraries
  BY DEF H264dec, Libraries
<1>2. "AVC.Decoder" \in UNION Libraries
  BY <1>1
<1> QED BY <1>2 DEF Names

LEMMA OpenIsFinite == IsFiniteSet(OpenPlugins)
<1>1. OpenPlugins \subseteq Plugin /\ IsFiniteSet(Plugin)
  BY OmxCoreAssumption DEF OpenPlugins
<1> QED BY <1>1, FS_Subset

(* What a plugin's construction and destruction leave alone. *)
LEMMA ComponentsApart ==
  ASSUME CoreType, ListType, \A k \in Comp : Owns(k), LockedList,
         coreFaults' \in Nat, coreFaults' >= coreFaults,
         UNCHANGED <<comp, gLoadComponentList, ghLoadComponentListMutex, stolen>>
  PROVE  /\ ListType' /\ LockedList' /\ \A k \in Comp : Owns(k)'
<1>1. ListType' /\ LockedList'
  BY DEF ListType, LockedList, ListWhole, LockHeld
<1>2. ASSUME NEW k \in Comp PROVE Owns(k)'
  BY <1>2, OwnsStays
<1> QED BY <1>1, <1>2

(* The core's invariant holds at the start. *)
LEMMA CoreInitInv == CoreInit => CoreInv
<1> SUFFICES ASSUME CoreInit PROVE CoreInv
  OBVIOUS
<1> USE DEF CoreInit
<1>1. CoreType
  BY UnusedIs DEF CoreType
<1>u. /\ Unused.phase = "unused" /\ Unused.messageQ = <<>> /\ ~Unused.failed /\ Unused.owned = {}
      /\ Unused.handler = "none" /\ \A p \in Port : Unused.slots[p] = "FREE"
  BY DEF Unused
<1>2. \A h \in Comp : comp[h].phase = "unused" /\ comp[h] = Unused
  BY <1>u
<1>3. ListWhole
  <2>1. <<>> \in Seq(Comp) /\ DOMAIN <<>> = {}
    OBVIOUS
  <2> QED BY <1>2, <2>1 DEF ListWhole, Single, InOrder
<1>4. LockHeld
  BY <1>2, OmxCoreAssumption DEF LockHeld, Locking
<1>5. PluginsCounted
  <2>1. OpenPlugins = {} /\ Alive = {}
    BY <1>2 DEF OpenPlugins, Alive
  <2>2. Cardinality(OpenPlugins) = 0
    BY <2>1, FS_EmptySet
  <2> QED BY <2>1, <2>2 DEF PluginsCounted
<1>6. ASSUME NEW h \in Comp PROVE Owns(h)
  BY <1>u, <1>2 DEF Owns, AtRestOwns, NewOwns, HeldOwns, GoingOwns, Empty
<1>7. ListType
  BY <1>3 DEF ListType, ListWhole
<1> QED BY <1>1, <1>3, <1>4, <1>5, <1>6, <1>7 DEF CoreInv, CrashExplained, LockedList

(* What SEC_OMX_Component_Register leaves: the names, or a fault that explains
   why there are none. *)
LEMMA RegisterIs ==
  ASSUME SEC_OMX_Component_Register, coreFaults \in Nat
  PROVE  /\ coreFaults' \in Nat /\ coreFaults' >= coreFaults
         /\ coreFaults' = 0 => gComponentList' # {} /\ gInitialized' = 1
         /\ gInitialized' \in {1, gInitialized}
         /\ gComponentList' \subseteq Names \/ gComponentList' = gComponentList
<1>1. CASE gComponentList' = UNION Libraries /\ gInitialized' = 1 /\ UNCHANGED coreFaults
  BY <1>1, RegisterNotEmpty
<1>2. CASE /\ CoreFault
           /\ \/ UNCHANGED <<gInitialized, gComponentList>>
              \/ \E l \in Libraries :
                   gComponentList' = UNION (Libraries \ {l}) /\ gInitialized' = 1
  <2>1. coreFaults' = coreFaults + 1
    BY <1>2 DEF CoreFault
  <2>2. \A l \in Libraries : UNION (Libraries \ {l}) \subseteq Names
    BY DEF Names
  <2> QED BY <1>2, <2>1, <2>2
<1> QED BY <1>1, <1>2 DEF SEC_OMX_Component_Register

(* A plugin's constructor, with SEC_OMX_Init, preserves the invariant. *)
LEMMA CreatePluginStep ==
  ASSUME CoreInv, NEW p \in Plugin, CreatePlugin(p)
  PROVE  CoreInv'
<1>1. /\ CoreType /\ ListType /\ LockedList /\ crashed = "no" /\ PluginsCounted
      /\ \A k \in Comp : Owns(k)
      /\ gInitialized \in Nat /\ coreFaults \in Nat
  BY DEF CoreInv, CreatePlugin, CoreType
<1>2. plugin[p].lib = "none" /\ UNCHANGED <<comp, crashed>> /\ p \notin OpenPlugins
  BY DEF CreatePlugin, OpenPlugins
<1>3. CASE /\ SEC_OMX_Init
           /\ plugin' = [plugin EXCEPT ![p] = [lib |-> "open", names |-> SEC_OMX_ComponentNameEnum]]
  <2>1. UNCHANGED <<gLoadComponentList, ghLoadComponentListMutex, stolen>>
    BY <1>3 DEF SEC_OMX_Init
  <2>2. /\ coreFaults' \in Nat /\ coreFaults' >= coreFaults /\ gInitialized' \in Nat
        /\ gComponentList' \subseteq Names
        /\ coreFaults' = 0 => /\ gInitialized' = gInitialized + 1
                              /\ gComponentList' # {}
    <3>0. gComponentList \subseteq Names
      BY <1>1 DEF CoreType
    <3>1. CASE gInitialized = 0 /\ SEC_OMX_Component_Register
      BY <1>1, <3>0, <3>1, RegisterIs
    <3>2. CASE /\ gInitialized > 0 /\ gInitialized' = gInitialized + 1
               /\ UNCHANGED <<gComponentList, coreFaults>>
      BY <1>1, <3>0, <3>2 DEF PluginsCounted
    <3> QED BY <1>3, <3>1, <3>2 DEF SEC_OMX_Init
  <2>3. OpenPlugins' = OpenPlugins \union {p}
    BY <1>1, <1>3 DEF OpenPlugins, CoreType
  <2>4. Cardinality(OpenPlugins') = Cardinality(OpenPlugins) + 1
    BY <1>2, <2>3, OpenIsFinite, FS_AddElement
  <2>5. CoreType'
    <3>1. [lib |-> "open", names |-> gComponentList']
            \in [lib : {"none", "open", "empty", "gone"}, names : SUBSET Names]
      BY <2>2
    <3> QED BY <1>1, <1>2, <1>3, <2>1, <2>2, <3>1 DEF CoreType, SEC_OMX_ComponentNameEnum
  <2>6. PluginsCounted'
    <3>1. coreFaults' = 0 => coreFaults = 0
      BY <1>1, <2>2
    <3>2. Alive' = Alive /\ \A k \in Alive : comp'[k].plugin = comp[k].plugin
      BY <1>2 DEF Alive
    <3> QED BY <1>1, <2>2, <2>3, <2>4, <3>1, <3>2 DEF PluginsCounted
  <2>7. ListType' /\ LockedList' /\ \A k \in Comp : Owns(k)'
    BY <1>1, <1>2, <2>1, <2>2, ComponentsApart DEF CoreInv
  <2> QED BY <1>1, <1>2, <2>5, <2>6, <2>7 DEF CoreInv, CrashExplained
<1>4. CASE CoreFault /\ plugin' = [plugin EXCEPT ![p].lib = "empty"] /\ UNCHANGED listVars
  <2>1. UNCHANGED <<gInitialized, gComponentList, gLoadComponentList,
                  ghLoadComponentListMutex, stolen>>
    BY <1>4 DEF listVars
  <2>2. coreFaults' \in Nat /\ coreFaults' > 0 /\ coreFaults' >= coreFaults
    BY <1>1, <1>4 DEF CoreFault
  <2>3. OpenPlugins' = OpenPlugins
    BY <1>1, <1>2, <1>4 DEF OpenPlugins, CoreType
  <2>5. CoreType'
    BY <1>1, <1>2, <1>4, <2>1, <2>2 DEF CoreType
  <2>6. PluginsCounted'
    <3>2. Alive' = Alive /\ \A k \in Alive : comp'[k].plugin = comp[k].plugin
      BY <1>2 DEF Alive
    <3>3. coreFaults' # 0
      BY <2>2
    <3> QED BY <1>1, <2>3, <3>2, <3>3 DEF PluginsCounted
  <2>7. ListType' /\ LockedList' /\ \A k \in Comp : Owns(k)'
    BY <1>1, <1>2, <2>1, <2>2, ComponentsApart DEF CoreInv
  <2> QED BY <1>1, <1>2, <2>5, <2>6, <2>7 DEF CoreInv, CrashExplained
<1> QED BY <1>3, <1>4 DEF CreatePlugin

(* A plugin's destructor, with SEC_OMX_DeInit, preserves the invariant. *)
LEMMA DestroyPluginStep ==
  ASSUME CoreInv, NEW p \in Plugin, DestroyPlugin(p)
  PROVE  CoreInv'
<1>1. /\ CoreType /\ ListType /\ LockedList /\ crashed = "no" /\ PluginsCounted
      /\ \A k \in Comp : Owns(k)
      /\ gInitialized \in Nat /\ coreFaults \in Nat
  BY DEF CoreInv, DestroyPlugin, CoreType
<1>2. /\ plugin[p].lib \in {"open", "empty"} /\ UNCHANGED <<comp, coreFaults>>
      /\ plugin' = [plugin EXCEPT ![p] = [lib |-> "gone", names |-> {}]]
  BY DEF DestroyPlugin
<1>3. Alive' = Alive /\ \A k \in Alive : comp'[k].plugin = comp[k].plugin
  BY <1>2 DEF Alive
<1>4. OpenPlugins' = OpenPlugins \ {p}
  BY <1>1, <1>2 DEF OpenPlugins, CoreType
<1>5. plugin' \in [Plugin -> [lib : {"none", "open", "empty", "gone"}, names : SUBSET Names]]
  BY <1>1, <1>2 DEF CoreType
<1>6. CASE plugin[p].lib = "empty" /\ UNCHANGED <<listVars, crashed>>
  <2>1. UNCHANGED <<gInitialized, gComponentList, gLoadComponentList,
                  ghLoadComponentListMutex, stolen>>
    BY <1>6 DEF listVars
  <2>2. OpenPlugins' = OpenPlugins
    BY <1>4, <1>6 DEF OpenPlugins
  <2>3. CoreType'
    BY <1>1, <1>2, <1>5, <2>1 DEF CoreType
  <2>4. PluginsCounted'
    BY <1>1, <1>2, <1>3, <2>1, <2>2 DEF PluginsCounted
  <2>5. ListType' /\ LockedList' /\ \A k \in Comp : Owns(k)'
    BY <1>1, <1>2, <2>1, ComponentsApart DEF CoreInv
  <2> QED BY <1>1, <1>6, <2>3, <2>4, <2>5 DEF CoreInv, CrashExplained
<1>7. CASE plugin[p].lib = "open" /\ (\A h \in Alive : comp[h].plugin # p) /\ SEC_OMX_Deinit
  <2>1. UNCHANGED <<gLoadComponentList, ghLoadComponentListMutex, stolen>>
    BY <1>7 DEF SEC_OMX_Deinit
  <2>2. p \in OpenPlugins
    BY <1>7 DEF OpenPlugins
  <2>3. /\ Cardinality(OpenPlugins') = Cardinality(OpenPlugins) - 1
        /\ Cardinality(OpenPlugins) \in Nat /\ Cardinality(OpenPlugins) > 0
    <3>1. Cardinality(OpenPlugins) \in Nat
      BY OpenIsFinite, FS_CardinalityType
    <3>2. Cardinality(OpenPlugins) # 0
      BY <2>2, OpenIsFinite, FS_EmptySet
    <3>3. Cardinality(OpenPlugins') = Cardinality(OpenPlugins) - 1
      BY <1>4, <2>2, OpenIsFinite, FS_RemoveElement
    <3> QED BY <3>1, <3>2, <3>3
  <2>4. gInitialized' = IF gInitialized > 0 THEN gInitialized - 1 ELSE 0
    BY <1>7 DEF SEC_OMX_Deinit
  <2>5. /\ gInitialized' # 0 => UNCHANGED <<gComponentList, crashed>>
        /\ gInitialized' = 0 => SEC_OMX_Component_Unregister
    BY <1>7 DEF SEC_OMX_Deinit
  <2>6. gComponentList' \in {gComponentList, {}}
    BY <2>5 DEF SEC_OMX_Component_Unregister
  <2>7. /\ coreFaults = 0 => gInitialized = Cardinality(OpenPlugins) /\ gComponentList # {}
    BY <1>1, <2>3 DEF PluginsCounted
  <2>8. coreFaults = 0 => gInitialized' = Cardinality(OpenPlugins')
    BY <2>3, <2>4, <2>7
  <2>9. CoreType'
    BY <1>1, <1>2, <1>5, <2>1, <2>4, <2>6 DEF CoreType
  <2>10. PluginsCounted'
    <3>1. \A k \in Alive : comp[k].plugin \in OpenPlugins'
      BY <1>1, <1>4, <1>7 DEF PluginsCounted
    <3>2. coreFaults = 0 => (gInitialized' > 0 => gComponentList' # {})
      BY <2>5, <2>7
    <3> QED BY <1>2, <1>3, <2>8, <3>1, <3>2 DEF PluginsCounted
  <2>11. CrashExplained'
    <3>1. crashed' # "no" => crashed' = "Unregister" /\ gComponentList = {}
      BY <1>1, <2>5 DEF SEC_OMX_Component_Unregister
    <3> QED BY <1>1, <1>2, <2>7, <3>1 DEF CrashExplained
  <2>12. ListType' /\ LockedList' /\ \A k \in Comp : Owns(k)'
    BY <1>1, <1>2, <2>1, ComponentsApart DEF CoreInv
  <2> QED BY <2>9, <2>10, <2>11, <2>12 DEF CoreInv
<1> QED BY <1>2, <1>6, <1>7 DEF DestroyPlugin

-----------------------------------------------------------------------------
(* Every step preserves the invariant. *)
LEMMA CoreStepInv ==
  ASSUME CoreInv, crashed = "no", NEW h \in Comp, CompMoved(h), Owns(h)',
         UNCHANGED <<gInitialized, gComponentList, plugin, crashed>>,
         ghLoadComponentListMutex' \in Comp \union {Nobody},
         h \in Alive' => comp'[h].plugin \in OpenPlugins,
         ListType', LockedList'
  PROVE  CoreInv'
<1>1. CoreType /\ PluginsCounted /\ \A k \in Comp : Owns(k)
  BY DEF CoreInv
<1>2. \A k \in Comp : Owns(k)'
  BY <1>1, AllOwn
<1>3. CoreType'
  BY <1>1, TypeMoves
<1>4. PluginsCounted'
  BY <1>1, PluginsKept
<1> QED BY <1>2, <1>3, <1>4 DEF CoreInv, CrashExplained

(* A component that was in use before the step has its plugin open. *)
LEMMA PluginOpen ==
  ASSUME CoreInv, NEW h \in Comp, comp[h].phase \notin {"unused", "gone", "failed"},
         comp'[h].plugin = comp[h].plugin
  PROVE  comp'[h].plugin \in OpenPlugins
<1>1. h \in Alive
  BY DEF Alive
<1> QED BY <1>1 DEF CoreInv, PluginsCounted

(* A SEC_OMX_FreeHandle that follows a null pointer changes nothing else. *)
LEMMA CrashStep ==
  ASSUME CoreInv, stolen, crashed' = "FreeHandle",
         UNCHANGED <<listVars, plugin, comp, coreFaults>>
  PROVE  CoreInv'
<1>1. UNCHANGED <<gInitialized, gComponentList, gLoadComponentList, ghLoadComponentListMutex,
                  stolen, plugin, comp, coreFaults>>
  BY DEF listVars
<1>2. CoreType' /\ ListType' /\ LockedList'
  BY <1>1 DEF CoreInv, CoreType, ListType, LockedList
<1>3. PluginsCounted' /\ CrashExplained'
  BY <1>1 DEF CoreInv, PluginsCounted, CrashExplained, Alive, OpenPlugins
<1>4. \A k \in Comp : Owns(k)'
  BY <1>1, OwnsStays DEF CoreInv, CoreType
<1> QED BY <1>2, <1>3, <1>4 DEF CoreInv

(* Steps in which the component keeps its phase. *)
LEMMA KeptStep ==
  ASSUME CoreInv, crashed = "no", NEW h \in Comp, CompMoved(h), CompKept(h), Owns(h)',
         UNCHANGED <<listVars, plugin, crashed>>
  PROVE  CoreInv'
<1>1. CoreType /\ ListType /\ LockedList
  BY DEF CoreInv
<1>2. UNCHANGED <<gInitialized, gComponentList, gLoadComponentList, ghLoadComponentListMutex,
                  stolen>>
  BY DEF listVars
<1>3. ListType' /\ LockedList'
  BY <1>1, <1>2, ListKept DEF ListType, LockedList
<1>4. h \in Alive' => comp'[h].plugin \in OpenPlugins
  BY PluginOpen DEF Alive, CompKept
<1>5. ghLoadComponentListMutex' \in Comp \union {Nobody}
  BY <1>1, <1>2 DEF CoreType
<1> QED BY <1>2, <1>3, <1>4, <1>5, CoreStepInv

(* So does every step of a component, one lemma for each kind. *)
LEMMA BufferStep ==
  ASSUME CoreInv, NEW h \in Comp, NEW p \in Port,
         SEC_OMX_UseBuffer(h, p) \/ SEC_OMX_AllocateBuffer(h, p) \/ SEC_OMX_FreeBuffer(h, p)
  PROVE  CoreInv'
<1>1. CoreType /\ Owns(h)
  BY DEF CoreInv
<1>2. CASE SEC_OMX_UseBuffer(h, p) \/ SEC_OMX_AllocateBuffer(h, p)
  <2>1. CompMoved(h) /\ CompKept(h) /\ Owns(h)'
    BY <1>1, <1>2, BufferGivenOwns
  <2>2. crashed = "no" /\ UNCHANGED <<listVars, plugin, crashed>>
    BY <1>2, Zenon DEF SEC_OMX_UseBuffer, SEC_OMX_AllocateBuffer, InPhase
  <2> QED BY <2>1, <2>2, KeptStep
<1>3. CASE SEC_OMX_FreeBuffer(h, p)
  <2>1. CompMoved(h) /\ CompKept(h) /\ Owns(h)'
    BY <1>1, <1>3, FreeBufferOwns
  <2>2. crashed = "no" /\ UNCHANGED <<listVars, plugin, crashed>>
    BY <1>3, Zenon DEF SEC_OMX_FreeBuffer, InPhase
  <2> QED BY <2>1, <2>2, KeptStep
<1> QED BY <1>2, <1>3

LEMMA HandlerStep ==
  ASSUME CoreInv, NEW h \in Comp, Handler(h) PROVE CoreInv'
<1>1. CoreType /\ Owns(h)
  BY DEF CoreInv
<1>2. CompMoved(h) /\ CompKept(h) /\ Owns(h)'
  BY <1>1, StateSetIdleOwns, StateSetLoadedOwns, UnloadOwns, HandlerExitOwns DEF Handler
<1>3. crashed = "no" /\ UNCHANGED <<listVars, plugin, crashed>>
  BY Zenon DEF Handler, StateSetIdle, StateSetLoaded, Unload, HandlerExit, Takes
<1> QED BY <1>2, <1>3, KeptStep

LEMMA SendStep ==
  ASSUME CoreInv, NEW h \in Comp, NEW s \in {"Idle", "Loaded"}, SEC_OMX_SendCommand(h, s)
  PROVE  CoreInv'
<1>1. CoreType /\ Owns(h)
  BY DEF CoreInv
<1>2. CompMoved(h) /\ CompKept(h) /\ Owns(h)'
  BY <1>1, SendCommandOwns
<1>3. crashed = "no" /\ UNCHANGED <<listVars, plugin, crashed>>
  BY Zenon DEF SEC_OMX_SendCommand, InPhase
<1> QED BY <1>2, <1>3, KeptStep

LEMMA GetHandleStep ==
  ASSUME CoreInv, NEW h \in Comp, NEW p \in Plugin, NEW n, SEC_OMX_GetHandle(h, p, n)
  PROVE  CoreInv'
<1>1. CoreType /\ Owns(h) /\ crashed = "no" /\ ListType /\ LockedList
  BY DEF CoreInv, SEC_OMX_GetHandle, InPhase
<1>2. n \in Names /\ p \in OpenPlugins
  BY <1>1 DEF SEC_OMX_GetHandle, CoreType, Forwards, OpenPlugins
<1>3. /\ CompMoved(h) /\ Owns(h)'
      /\ comp[h].phase = "unused" /\ comp'[h].phase \in {"built", "failed"}
      /\ comp'[h].phase = "built" => comp'[h].plugin = p
  BY <1>1, <1>2, GetHandleOwns
<1>4. UNCHANGED <<gInitialized, gComponentList, gLoadComponentList, ghLoadComponentListMutex,
                  stolen, plugin, crashed>>
  BY DEF SEC_OMX_GetHandle, listVars
<1>5. ListType' /\ LockedList'
  BY <1>1, <1>3, <1>4, ListGetHandle DEF ListType, LockedList
<1>6. h \in Alive' => comp'[h].plugin \in OpenPlugins
  BY <1>2, <1>3 DEF Alive
<1>7. ghLoadComponentListMutex' \in Comp \union {Nobody}
  BY <1>1, <1>4 DEF CoreType
<1> QED BY <1>1, <1>3, <1>4, <1>5, <1>6, <1>7, CoreStepInv

LEMMA LinkStep ==
  ASSUME CoreInv, NEW h \in Comp, Walk(h) \/ Link(h) PROVE CoreInv'
<1>1. CoreType /\ Owns(h) /\ crashed = "no" /\ ListType /\ LockedList
  BY DEF CoreInv, Walk, Link, InPhase
<1>2. UNCHANGED <<gInitialized, gComponentList, plugin, crashed, stolen>>
  BY Zenon DEF Walk, Link
<1>3. CASE Walk(h)
  <2>1. /\ CompMoved(h) /\ Owns(h)' /\ comp[h].phase = "built" /\ comp'[h].phase = "linking"
        /\ comp'[h].plugin = comp[h].plugin /\ comp'[h].cur = LastLoaded
    BY <1>1, <1>3, WalkOwns DEF ListType
  <2>2. ListType' /\ LockedList'
    <3>1. gLoadComponentList' = gLoadComponentList
      BY <1>3 DEF Walk
    <3> QED BY <1>1, <1>2, <1>3, <2>1, <3>1, ListWalk DEF ListType, LockedList
  <2>3. ghLoadComponentListMutex' \in Comp \union {Nobody}
    BY <1>3 DEF Walk
  <2>4. comp'[h].plugin \in OpenPlugins
    BY <2>1, PluginOpen
  <2> QED BY <1>1, <1>2, <2>1, <2>2, <2>3, <2>4, CoreStepInv
<1>4. CASE Link(h)
  <2>1. /\ CompMoved(h) /\ Owns(h)' /\ comp[h].phase = "linking" /\ comp'[h].phase = "held"
        /\ comp'[h].plugin = comp[h].plugin
    BY <1>1, <1>4, LinkOwns
  <2>2. ListType' /\ LockedList'
    <3>1. gLoadComponentList' \in Seq(Comp)
      BY <1>1, <1>4, LinkType DEF Link, ListType
    <3> QED BY <1>1, <1>2, <1>4, <2>1, <3>1, ListLink DEF ListType, LockedList
  <2>3. ghLoadComponentListMutex' \in Comp \union {Nobody}
    BY <1>4 DEF Link
  <2>4. comp'[h].plugin \in OpenPlugins
    BY <2>1, PluginOpen
  <2> QED BY <1>1, <1>2, <2>1, <2>2, <2>3, <2>4, CoreStepInv
<1> QED BY <1>3, <1>4

LEMMA FreeHandleStep ==
  ASSUME CoreInv, NEW h \in Comp, SEC_OMX_FreeHandle(h) PROVE CoreInv'
<1>1. /\ CoreType /\ Owns(h) /\ crashed = "no" /\ ListType /\ LockedList
      /\ comp[h].phase = "held" /\ \A k \in Comp : Owns(k)
  BY DEF CoreInv, SEC_OMX_FreeHandle, FreeingHandle, InPhase
<1>2. CASE h \in InOrder(gLoadComponentList)
  <2>3. /\ CompMoved(h) /\ Owns(h)' /\ comp'[h].phase = "leaving"
        /\ comp'[h].plugin = comp[h].plugin
    BY <1>1, <1>2, FreeHandleOwns
  <2>4. /\ UNCHANGED <<gInitialized, gComponentList, plugin, crashed, stolen>>
        /\ ghLoadComponentListMutex' = h /\ gLoadComponentList' = Unlinked(h)
    BY <1>2, Zenon DEF SEC_OMX_FreeHandle
  <2>5. ListType' /\ LockedList'
    <3>1. gLoadComponentList' \in Seq(Comp)
      BY <1>1, <1>2, <2>4, UnlinkedType DEF ListType
    <3> QED BY <1>1, <2>3, <2>4, <3>1, ListFreeHandle DEF ListType, LockedList
  <2>6. comp'[h].plugin \in OpenPlugins
    BY <1>1, <2>3, PluginOpen
  <2> QED BY <1>1, <2>3, <2>4, <2>5, <2>6, CoreStepInv
<1>3. CASE h \notin InOrder(gLoadComponentList)
  <2>1. stolen
    BY <1>1, <1>3 DEF LockedList, ListWhole
  <2>2. /\ UNCHANGED <<listVars, plugin, comp, coreFaults>> /\ crashed' = "FreeHandle"
    BY <1>3, Zenon DEF SEC_OMX_FreeHandle, listVars
  <2> QED BY <1>1, <2>1, <2>2, CrashStep
<1> QED BY <1>2, <1>3

(* The invariant does not speak of the callers whose FreeHandle is refused. *)
LEMMA CoreUntouched ==
  ASSUME CoreInv,
         UNCHANGED <<gInitialized, gComponentList, gLoadComponentList, ghLoadComponentListMutex,
                     plugin, comp, crashed, coreFaults, stolen>>
  PROVE  CoreInv'
<1>1. CoreType' /\ ListType'
  BY DEF CoreInv, CoreType, ListType
<1>2. (crashed = "no" => LockedList)'
  BY DEF CoreInv, LockedList, ListWhole, LockHeld
<1>3. PluginsCounted' /\ CrashExplained'
  BY DEF CoreInv, PluginsCounted, CrashExplained, Alive, OpenPlugins
<1>4. \A h \in Comp : Owns(h)'
  BY OwnsStays DEF CoreInv, CoreType
<1> QED BY <1>1, <1>2, <1>3, <1>4 DEF CoreInv

(* A refusal changes nothing but that its caller goes on to unlock. *)
LEMMA RefusedStep ==
  ASSUME CoreInv, NEW h \in Comp, FreeHandleRefused(h) PROVE CoreInv'
<1>1. UNCHANGED <<gInitialized, gComponentList, gLoadComponentList, ghLoadComponentListMutex,
                  plugin, comp, crashed, coreFaults, stolen>>
  BY DEF FreeHandleRefused
<1> QED BY <1>1, CoreUntouched

(* It then releases the mutex: its owner's, and then the history says so, or
   nobody's, and then nothing changes. *)
LEMMA RefusedUnlocksStep ==
  ASSUME CoreInv, NEW h \in Comp, RefusedUnlocks(h) PROVE CoreInv'
<1>1. /\ CoreType /\ ListType /\ LockedList /\ crashed = "no"
      /\ PluginsCounted /\ \A k \in Comp : Owns(k)
  BY DEF CoreInv, RefusedUnlocks
<1>2. /\ UNCHANGED <<gInitialized, gComponentList, gLoadComponentList, plugin, comp, crashed,
                     coreFaults>>
      /\ ghLoadComponentListMutex' = Nobody
      /\ stolen' = (stolen \/ ghLoadComponentListMutex # Nobody)
  BY DEF RefusedUnlocks
<1>3. CoreType' /\ ListType'
  BY <1>1, <1>2 DEF CoreType, ListType
<1>4. LockedList'
  <2> SUFFICES ASSUME ~stolen' PROVE ListWhole' /\ LockHeld'
    BY DEF LockedList
  <2>1. ghLoadComponentListMutex = Nobody /\ ListWhole /\ LockHeld
    BY <1>1, <1>2 DEF LockedList
  <2> QED BY <1>2, <2>1 DEF ListWhole, LockHeld
<1>5. PluginsCounted' /\ CrashExplained'
  BY <1>1, <1>2 DEF PluginsCounted, CrashExplained, Alive, OpenPlugins
<1>6. \A k \in Comp : Owns(k)'
  BY <1>1, <1>2, OwnsStays DEF CoreType
<1> QED BY <1>3, <1>4, <1>5, <1>6 DEF CoreInv

LEMMA LeaveStep ==
  ASSUME CoreInv, NEW h \in Comp,
         \/ SEC_OMX_ComponentDeInit(h) \/ BaseComponent_Destructor(h)
         \/ SEC_OMX_ComponentUnload(h)
  PROVE  CoreInv'
<1>1. CoreType /\ Owns(h) /\ crashed = "no" /\ ListType /\ LockedList
  BY DEF CoreInv, SEC_OMX_ComponentDeInit, BaseComponent_Destructor, SEC_OMX_ComponentUnload,
         InPhase
<1>2. CASE SEC_OMX_ComponentDeInit(h) \/ BaseComponent_Destructor(h)
  <2>1. /\ CompMoved(h) /\ Owns(h)' /\ comp[h].phase \in {"leaving", "joining"}
        /\ comp'[h].phase \in {"joining", "unloading"} /\ comp'[h].plugin = comp[h].plugin
    BY <1>1, <1>2, ComponentDeInitOwns, DestructorOwns
  <2>2. UNCHANGED <<gInitialized, gComponentList, gLoadComponentList,
                    ghLoadComponentListMutex, stolen, plugin, crashed>>
    BY <1>2, Zenon DEF SEC_OMX_ComponentDeInit, BaseComponent_Destructor, listVars
  <2>3. ListType' /\ LockedList'
    BY <1>1, <2>1, <2>2, ListLeaving DEF ListType, LockedList
  <2>4. ghLoadComponentListMutex' \in Comp \union {Nobody}
    BY <1>1, <2>2 DEF CoreType
  <2>5. comp'[h].plugin \in OpenPlugins
    BY <2>1, PluginOpen
  <2> QED BY <1>1, <2>1, <2>2, <2>3, <2>4, <2>5, CoreStepInv
<1>3. CASE SEC_OMX_ComponentUnload(h)
  <2>1. /\ CompMoved(h) /\ Owns(h)' /\ comp[h].phase = "unloading" /\ comp'[h].phase = "gone"
    BY <1>1, <1>3, ComponentUnloadOwns
  <2>2. UNCHANGED <<gInitialized, gComponentList, gLoadComponentList, plugin, crashed, stolen>>
        /\ ghLoadComponentListMutex' = Nobody
    BY <1>3, Zenon DEF SEC_OMX_ComponentUnload
  <2>3. ListType' /\ LockedList'
    BY <1>1, <2>1, <2>2, ListUnload DEF ListType, LockedList
  <2>4. h \notin Alive'
    BY <2>1 DEF Alive
  <2> QED BY <1>1, <2>1, <2>2, <2>3, <2>4, CoreStepInv
<1> QED BY <1>2, <1>3

(* Every step of the core preserves its invariant. *)
LEMMA CoreNextInv == CoreInv /\ [CoreNext]_coreVars => CoreInv'
<1> SUFFICES ASSUME CoreInv, [CoreNext]_coreVars PROVE CoreInv'
  OBVIOUS
<1>1. ASSUME NEW p \in Plugin, CreatePlugin(p) \/ DestroyPlugin(p) PROVE CoreInv'
  BY <1>1, CreatePluginStep, DestroyPluginStep
<1>2. ASSUME NEW h \in Comp, Caller(h) PROVE CoreInv'
  BY <1>2, GetHandleStep, LinkStep, SendStep, BufferStep, FreeHandleStep, RefusedStep,
     RefusedUnlocksStep, LeaveStep DEF Caller
<1>3. ASSUME NEW h \in Comp, Handler(h) PROVE CoreInv'
  BY <1>3, HandlerStep
<1>4. CASE UNCHANGED coreVars
  BY <1>4, CoreUntouched DEF coreVars, listVars
<1> QED BY <1>1, <1>2, <1>3, <1>4 DEF CoreNext

(* A list without repetitions is as long as it has members. *)
LEMMA SingleCounts ==
  ASSUME NEW s \in Seq(Comp), Single(s) PROVE Len(s) = Cardinality(InOrder(s))
<1> DEFINE n == Len(s)
           T == InOrder(s)
<1>1. n \in Nat /\ DOMAIN s = 1 .. n /\ s \in [1 .. n -> T]
  <2>1. n \in Nat /\ DOMAIN s = 1 .. n /\ s = [m \in 1 .. n |-> s[m]]
    BY LenProperties
  <2> QED BY <2>1 DEF InOrder
<1> HIDE DEF n
<1>2. s \in Bijection(1 .. n, T)
  BY <1>1 DEF Bijection, Injection, Surjection, IsInjective, InOrder, Single
<1>3. Cardinality(T) = n
  BY <1>1, <1>2, FS_CountingElements DEF ExistsBijection
<1> QED BY <1>3 DEF n

(* The invariant says that every component is accounted for. *)
LEMMA InvAccounts == CoreInv => ComponentsAccounted
<1> SUFFICES ASSUME CoreInv PROVE ComponentsAccounted
  OBVIOUS
<1>0. CoreType /\ PluginsCounted /\ CrashExplained
  BY DEF CoreInv
<1>1. crashed = "no" /\ ~stolen =>
        /\ InOrder(gLoadComponentList) = {h \in Comp : comp[h].phase = "held"}
        /\ Len(gLoadComponentList) = Cardinality(InOrder(gLoadComponentList))
  BY SingleCounts DEF CoreInv, LockedList, ListWhole
<1>2. ASSUME NEW h \in Comp
      PROVE  /\ comp[h].phase = "held" /\ ~comp[h].failed =>
                  comp[h].owned = Constructed \union RunsWith(h) \union BuffersOf(h)
             /\ comp[h].phase \in {"unused", "gone", "failed"} =>
                  comp[h].owned \subseteq IF coreFaults = 0 THEN {} ELSE Overlooked
  BY DEF CoreInv, Owns, AtRestOwns, HeldOwns
<1>3. ASSUME NEW h \in Comp, comp[h].phase = "held", coreFaults = 0 PROVE gInitialized > 0
  <2>1. h \in Alive
    BY <1>3 DEF Alive
  <2>2. OpenPlugins # {} /\ gInitialized = Cardinality(OpenPlugins)
    BY <1>0, <1>3, <2>1 DEF PluginsCounted
  <2>3. Cardinality(OpenPlugins) \in Nat /\ Cardinality(OpenPlugins) # 0
    BY <2>2, OpenIsFinite, FS_CardinalityType, FS_EmptySet
  <2> QED BY <2>2, <2>3
<1> QED BY <1>0, <1>1, <1>2, <1>3 DEF ComponentsAccounted, CrashExplained

(* The inductive invariant of the core holds for every set of components and
   plugins, every name a client asks for and every number of faults: the list and
   its mutex are as they should be until a refused SEC_OMX_FreeHandle releases the
   mutex while another thread holds it (SEC_OMX_Core.c 218-221, 250); what a component
   owns is determined by its phase whatever becomes of the list. *)
THEOREM CoreInvariant == CoreSpec => []CoreInv
<1> QED BY CoreInitInv, CoreNextInv, PTL DEF CoreSpec

(* Every component is accounted for: a component in use owns exactly what its
   layers make, one that is gone leaves nothing unless a call failed (SEC_OMX_Core.c
   and the constructors and destructors it calls), and SEC_OMX_FreeHandle finds what
   it is asked to free until a refused one has released the mutex from under another
   thread. *)
THEOREM CoreAccounted == CoreSpec => []ComponentsAccounted
<1> QED BY CoreInvariant, InvAccounts, PTL
=============================================================================
