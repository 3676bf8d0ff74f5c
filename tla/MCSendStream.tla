---------------------------- MODULE MCSendStream ----------------------------
(***************************************************************************)
(* TLC's instance of send and write: the queue holds two chunks and a      *)
(* half, a call is up to three chunks, more than the queue holds.          *)
(***************************************************************************)
EXTENDS SendStream
=============================================================================
