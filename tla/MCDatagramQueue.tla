-------------------------- MODULE MCDatagramQueue --------------------------
(***************************************************************************)
(* TLC's instances of the message ring: while every dequeue is alone with  *)
(* it, it is a channel of messages; with the drain of select it is not.    *)
(***************************************************************************)
EXTENDS DatagramQueue

Channel == INSTANCE Fifo WITH
  accepted <- [i \in 1 .. sent |-> i],
  delivered <- taken

\* Step by step, load by load, the ring is a first-in first-out channel, as
\* long as no drain has overlapped an enqueue.
LoadsImplementFifo ==
  Channel!Init /\ [][raced' \/ Channel!Put \/ Channel!Get]_<<sent, taken>>
=============================================================================
