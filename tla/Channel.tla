------------------------------ MODULE Channel ------------------------------
(***************************************************************************)
(* What one client and the hooked server share once they are connected: a  *)
(* unit of the communication segment and its four close flags (share.h).   *)
(* The rings are sequences (StreamQueue justifies that).  A request byte   *)
(* is its place in the client's stream, a response the number of the write *)
(* that made it.                                                           *)
(***************************************************************************)
EXTENDS Integers, Sequences, SequencesExt, FiniteSetsExt

CONSTANTS
  RequestCap,   \* bytes the request queue holds
  ResponseCap   \* answers the response queue holds

ASSUME ChannelAssumption == {RequestCap, ResponseCap} \subseteq Nat \ {0}

VARIABLES
  request,                    \* the request queue
  response,                   \* the response queue
  clientRead, clientWrite,    \* raised by my_close
  serverRead, serverWrite     \* raised by shutdown, and by some closes

queues == <<request, response>>
clientFlags == <<clientRead, clientWrite>>
serverFlags == <<serverRead, serverWrite>>
channel == <<queues, clientFlags, serverFlags>>

\* accept has made the queues new and cleared the flags.
ChannelInit ==
  /\ request = <<>> /\ response = <<>>
  /\ clientRead = FALSE /\ clientWrite = FALSE
  /\ serverRead = FALSE /\ serverWrite = FALSE

RequestFull == Len(request) = RequestCap
ResponseFull == Len(response) = ResponseCap

\* stream_dequeue of at most n items: what it takes, and what it leaves.
Taken(q, n) == SubSeq(q, 1, Min({n, Len(q)}))
Rest(q, n) == SubSeq(q, n + 1, Len(q))

ChannelTypeOK ==
  /\ request \in Seq(Nat) /\ Len(request) <= RequestCap
  /\ response \in Seq(Nat) /\ Len(response) <= ResponseCap
  /\ clientRead \in BOOLEAN /\ clientWrite \in BOOLEAN
  /\ serverRead \in BOOLEAN /\ serverWrite \in BOOLEAN
=============================================================================
