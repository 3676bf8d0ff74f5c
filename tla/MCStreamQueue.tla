--------------------------- MODULE MCStreamQueue ---------------------------
(***************************************************************************)
(* TLC's instance of the byte ring: a ring of Capacity cells, len up to    *)
(* MaxLen (longer than the ring, so that a put is cut short) and MaxBytes  *)
(* bytes in all, enough for the ring to fill, wrap, empty and start over.  *)
(***************************************************************************)
EXTENDS StreamQueue

Channel == INSTANCE Fifo WITH
  accepted <- [i \in 1 .. sent |-> i],
  delivered <- rcvd

\* The byte ring is a first-in first-out channel, as long as its callers have
\* not put more than Capacity bytes between two moments at which it is empty.
ImplementsFifo ==
  Channel!Init /\ [][lapped' \/ Channel!Put \/ Channel!Get]_<<sent, rcvd>>
=============================================================================
