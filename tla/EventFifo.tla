----------------------------- MODULE EventFifo -----------------------------
(***************************************************************************)
(* What a sensor driver of libsensors relies on: its reader is a bounded   *)
(* first-in first-out store into which fill moves as many kernel events as *)
(* it has room for, and from which the drain loop takes one at a time.     *)
(***************************************************************************)
EXTENDS Integers, Sequences

CONSTANTS Capacity,  \* numEvents, the argument of the constructor
          Events,    \* input events
          Nothing    \* what readEvent and fill answer when there is none

VARIABLES items,  \* the events read and not yet taken, oldest first
          ret     \* what the last call returned

fifoVars == <<items, ret>>

Init == items = <<>> /\ ret = Nothing

(* read() hands over some events, at most as many as fit, or fails. *)
Fill(es) ==
  /\ es # <<>> /\ Len(items) + Len(es) <= Capacity
  /\ items' = items \o es
  /\ ret' = Len(es)

FillFails == Len(items) < Capacity /\ ret' = -1 /\ UNCHANGED items

FillFull == Len(items) = Capacity /\ ret' = 0 /\ UNCHANGED items

Look ==
  /\ ret' = IF items = <<>> THEN Nothing ELSE items[1]
  /\ UNCHANGED items

Drop == items # <<>> /\ items' = Tail(items) /\ UNCHANGED ret

Next == \/ \E n \in 1 .. Capacity : \E es \in [1 .. n -> Events] : Fill(es)
        \/ FillFails
        \/ FillFull
        \/ Look
        \/ Drop

Spec == Init /\ [][Next]_fifoVars
=============================================================================
