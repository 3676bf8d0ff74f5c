---------------------------- MODULE MCConnQueue ----------------------------
(***************************************************************************)
(* TLC's instance of the connection ring, and the claim that it is the     *)
(* channel of whole items that the handshake takes it for.                 *)
(***************************************************************************)
EXTENDS ConnQueue

\* The ring is a first-in first-out channel, without a condition.
Channel == INSTANCE Fifo WITH
  accepted <- [i \in 1 .. put |-> i],
  delivered <- got
ImplementsFifo == Channel!Spec
=============================================================================
