-------------------------------- MODULE Fifo --------------------------------
(***************************************************************************)
(* What a bounded first-in first-out channel promises to the two processes *)
(* at its ends: whatever is handed out was accepted, in the order it was   *)
(* accepted, once, and at most Capacity items are in between.  The rings   *)
(* of share_queue.c and queue.c are shown to implement it.                 *)
(***************************************************************************)
EXTENDS Integers, SequencesExt

CONSTANT Capacity

VARIABLES
  accepted,     \* every item put so far, oldest first
  delivered     \* every item got so far, oldest first

fifoVars == <<accepted, delivered>>

Init == accepted = <<>> /\ delivered = <<>>

\* Put appends any number of items that fit.
Put ==
  /\ IsPrefix(accepted, accepted')
  /\ Len(accepted') - Len(delivered) <= Capacity
  /\ UNCHANGED delivered

\* Get hands out any number of the items that have waited longest.
Get ==
  /\ IsPrefix(delivered, delivered')
  /\ IsPrefix(delivered', accepted)
  /\ UNCHANGED accepted

Spec == Init /\ [][Put \/ Get]_fifoVars
=============================================================================
