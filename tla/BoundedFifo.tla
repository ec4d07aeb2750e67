---------------------------- MODULE BoundedFifo ----------------------------
(***************************************************************************)
(* What the callers of SEC_OSAL_Queue.c rely on: a first-in first-out      *)
(* store of non-NULL pointers together with an element count that is kept  *)
(* beside it.  The count is a separate piece of state because              *)
(* SEC_OSAL_SetElemNum overwrites it without touching the elements.        *)
(***************************************************************************)
EXTENDS Integers, Sequences

CONSTANTS MAX_QUEUE_ELEMENTS,  \* the constant of SEC_OSAL_Queue.h
          Data,                \* pointers that may be queued
          NULL,                \* the null pointer
          ElemNums             \* counts passed to SEC_OSAL_SetElemNum

VARIABLES items,    \* the queued pointers, oldest first
          num,      \* the element count
          ret       \* what the last call returned

fifoVars == <<items, num, ret>>

(* The list is created with one element more than the loop adds. *)
Capacity == MAX_QUEUE_ELEMENTS - 1

Init == items = <<>> /\ num = 0 /\ ret = 0

Put(d) ==
  \/ /\ Len(items) < Capacity /\ num < MAX_QUEUE_ELEMENTS
     /\ items' = Append(items, d) /\ num' = num + 1 /\ ret' = 0
  \/ /\ Len(items) >= Capacity \/ num >= MAX_QUEUE_ELEMENTS
     /\ ret' = -1 /\ UNCHANGED <<items, num>>

Take ==
  \/ /\ items # <<>> /\ num > 0
     /\ items' = Tail(items) /\ num' = num - 1 /\ ret' = Head(items)
  \/ /\ items = <<>> \/ num <= 0
     /\ ret' = NULL /\ UNCHANGED <<items, num>>

Count == ret' = num /\ UNCHANGED <<items, num>>

SetCount(n) == num' = n /\ ret' = n /\ UNCHANGED items

Next == \/ \E d \in Data : Put(d)
        \/ Take
        \/ Count
        \/ \E n \in ElemNums : SetCount(n)

Spec == Init /\ [][Next]_fifoVars
=============================================================================
